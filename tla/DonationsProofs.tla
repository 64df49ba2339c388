--------------------------- MODULE DonationsProofs --------------------------
(***************************************************************************)
(* What accepted donations are promised, for any number of donations,      *)
(* drains, chats and failures, on any board.                               *)
(*                                                                         *)
(* The argument: a donation that is being executed is pending and bound to *)
(* the open session, nobody decides its row meanwhile, and nobody else is  *)
(* in a transaction; so its progress counts its commands, and its commit   *)
(* is made in the session it was accepted in.  A request has one donation, *)
(* which closes it with its last command.                                  *)
(***************************************************************************)
EXTENDS DonationsProperties, GameSessionProofs, WellFoundedInduction

(* The task s may come after r: what is closed, or settled, stays so.      *)
TaskFollows(r, s) ==
  /\ s.kind = r.kind
  /\ r.status # "pending" => s.status = r.status
  /\ r.kind = "donation_destination" /\ r.selected # NoCell => s.selected = r.selected
TasksFollow(d, e) ==
  \A n \in DOMAIN d.tasks : n \in DOMAIN e.tasks /\ TaskFollows(d.tasks[n], e.tasks[n])

(* The requests that are resolved in e and not yet in d.                   *)
IsResolved(d, n) ==
  /\ n \in DOMAIN d.tasks
  /\ d.tasks[n].kind = "donation_destination" /\ d.tasks[n].status = "resolved"
Settled(d, e) == {n \in DOMAIN e.tasks : IsResolved(e, n) /\ ~IsResolved(d, n)}

Executor(p) == drains[p].stage = "execute"
Asks(k) == inbox[k].action.type = "choose_destination" /\ inbox[k].progress = 0

(* The progress of a donation counts its commands.                         *)
RowsTrue ==
  \A k \in DOMAIN inbox :
    /\ Commands(k) = inbox[k].progress
    /\ inbox[k].progress <= StepsOf(inbox[k].action)
    /\ Pending(k) => inbox[k].progress < StepsOf(inbox[k].action)
    /\ inbox[k].disposition = "executed" => inbox[k].progress = StepsOf(inbox[k].action)
    /\ inbox[k].session <= db.session

(* A drain has its rows, and at most one is in a transaction: of a donation*)
(* that is pending, in the session it is bound to, its request open.       *)
DrainsTrue ==
  /\ \A p \in Drainers : drains[p].left \subseteq DOMAIN inbox
  /\ \A p \in Drainers : drains[p].stage \in {"execute", "fail"} => drains[p].left # {}
  /\ \A p, q \in Drainers : Executor(p) /\ Executor(q) => p = q
  /\ \A p \in Drainers : Executor(p) =>
       /\ Pending(Row(p)) /\ Bound(Row(p)) /\ tx.type = "donation"
       /\ Asked(Row(p)) => Request(Row(p)).status = "pending"
       /\ Asks(Row(p)) => /\ tx.todo = <<>> /\ tx.travels = <<>>
                          /\ tx.d = [db EXCEPT !.tasks = Append(@, NewRequest)]

(* An open donation of this session that has asked has a request of its    *)
(* own, which is not resolved before the donation's last command.          *)
Owns(k) == Asked(k) /\ inbox[k].session = db.session
RequestsOwned ==
  \A k \in DOMAIN inbox : Owns(k) =>
    /\ inbox[k].task \in DOMAIN db.tasks
    /\ Request(k).kind = "donation_destination"
    /\ inbox[k].progress = 1 => Request(k).status # "resolved"
    /\ \A j \in DOMAIN inbox : Owns(j) /\ inbox[j].task = inbox[k].task => j = k

(* The working copy of a transaction may become the session.               *)
CopyTrue ==
  tx # Idle =>
    /\ tx.d.session = db.session /\ TasksFollow(db, tx.d)
    /\ \A n \in DOMAIN tx.travels : tx.travels[n].kind = "choose_destination"
    /\ \A n \in Settled(db, tx.d) :
         \E p \in Drainers : Executor(p) /\ Asked(Row(p)) /\ n = inbox[Row(p)].task

DonationsInv == DonationsTypeOK /\ RowsTrue /\ DrainsTrue /\ RequestsOwned /\ CopyTrue

(* ------------------------------ Small facts ------------------------------ *)
LEMMA EarliestOf ==
  ASSUME NEW S \in SUBSET Nat, S # {}
  PROVE  Earliest(S) \in S
<1>1. PICK m \in S : \A y \in S : ~ (<<y, m>> \in OpToRel(<, Nat))
  BY NatLessThanWellFounded, WFMin
<1>2. S \subseteq Nat /\ S # {}
  OBVIOUS
<1>3. \A y \in S : ~ (y < m)
  BY <1>1, <1>2 DEF OpToRel
<1>4. \A y \in S : m <= y
  BY <1>2, <1>3
<1>5. QED BY <1>4 DEF Earliest

(* The donation a drain looks at is one it has and one that there is.      *)
LEMMA RowOf ==
  ASSUME DonationsInv, NEW p \in Drainers, drains[p].left # {}
  PROVE  /\ Row(p) \in drains[p].left /\ Row(p) \in DOMAIN inbox
         /\ Row(p) \in 1 .. MaxDonations /\ inbox[Row(p)] \in Donation
<1>1. drains[p].left \subseteq DOMAIN inbox /\ inbox \in Seq(Donation)
  BY DEF DonationsInv, DonationsTypeOK, DrainsTrue
<1>2. DOMAIN inbox \subseteq 1 .. MaxDonations
  BY <1>1, DonationAssumption DEF DonationsInv, DonationsTypeOK
<1>3. Row(p) \in drains[p].left
  BY <1>1, <1>2, EarliestOf DEF Row
<1>4. QED BY <1>1, <1>2, <1>3

(* A drain that moves on leaves the others where they are.                 *)
LEMMA DrainMoves ==
  ASSUME DonationsInv, NEW p \in Drainers, NEW stage \in Stages,
         NEW left \in SUBSET (1 .. MaxDonations), To(p, stage, left)
  PROVE  /\ drains' \in [Drainers -> Drain]
         /\ drains'[p].stage = stage /\ drains'[p].left = left
         /\ \A q \in Drainers \ {p} : drains'[q] = drains[q]
BY DEF To, Drain, DonationsInv, DonationsTypeOK

(* What an action can be, and how many commands it makes.                  *)
LEMMA StepsType ==
  ASSUME NEW a \in DonationActions
  PROVE  StepsOf(a) \in Nat \ {0} /\ a \in Action
<1>1. a \in Action
  BY DonationAssumption
<1>2. QED BY <1>1 DEF Action, StepsOf

(* The commands of a donation are finitely many.                           *)
LEMMA CountType ==
  ASSUME DonationsTypeOK
  PROVE  \A k : /\ IsFiniteSet({n \in DOMAIN log : log[n] = k})
                /\ Commands(k) \in Nat
<1> TAKE k
<1>1. DOMAIN log = 1 .. Len(log) /\ Len(log) \in Nat
  BY DEF DonationsTypeOK
<1>2. IsFiniteSet(DOMAIN log)
  BY <1>1, FS_Interval
<1>3. IsFiniteSet({n \in DOMAIN log : log[n] = k})
  BY <1>2, FS_Subset
<1>4. QED BY <1>3, FS_CardinalityType DEF Commands

(* A command more of donation k is one more of k's and none of the others'.*)
LEMMA CountOneMore ==
  ASSUME DonationsTypeOK, NEW k \in DOMAIN inbox, log' = Append(log, k)
  PROVE  /\ Commands(k)' = Commands(k) + 1
         /\ \A j \in DOMAIN inbox \ {k} : Commands(j)' = Commands(j)
<1>1. log \in Seq(DOMAIN inbox) /\ Len(log) \in Nat /\ DOMAIN log = 1 .. Len(log)
  BY DEF DonationsTypeOK
<1>2. /\ DOMAIN log' = DOMAIN log \cup {Len(log) + 1} /\ Len(log) + 1 \notin DOMAIN log
      /\ log'[Len(log) + 1] = k /\ \A n \in DOMAIN log : log'[n] = log[n]
  BY <1>1
<1>3. ASSUME NEW j
      PROVE  {n \in DOMAIN log' : log'[n] = j} =
               {n \in DOMAIN log : log[n] = j} \cup (IF j = k THEN {Len(log) + 1} ELSE {})
  BY <1>2
<1>4. Commands(k)' = Commands(k) + 1
  <2> DEFINE S == {n \in DOMAIN log : log[n] = k}
  <2>1. IsFiniteSet(S) /\ Len(log) + 1 \notin S
    BY <1>2, CountType
  <2>2. Cardinality(S \cup {Len(log) + 1}) = Cardinality(S) + 1
    BY <2>1, FS_AddElement
  <2>3. {n \in DOMAIN log' : log'[n] = k} = S \cup {Len(log) + 1}
    BY <1>3
  <2>4. QED BY <2>2, <2>3 DEF Commands
<1>5. ASSUME NEW j \in DOMAIN inbox \ {k} PROVE Commands(j)' = Commands(j)
  <2>1. {n \in DOMAIN log' : log'[n] = j} = {n \in DOMAIN log : log[n] = j}
    BY <1>3
  <2>2. QED BY <2>1 DEF Commands
<1>6. QED BY <1>4, <1>5

(* --------------------- Steps that commit nothing ------------------------- *)
(* The rows stay what they were, unless one is given up.                   *)
SameRows ==
  /\ DOMAIN inbox' = DOMAIN inbox
  /\ \A k \in DOMAIN inbox :
       /\ inbox'[k].session = inbox[k].session /\ inbox'[k].action = inbox[k].action
       /\ inbox'[k].progress = inbox[k].progress /\ inbox'[k].task = inbox[k].task
       /\ inbox'[k].disposition \in {inbox[k].disposition, "ignored", "failed"}

(* Nothing counts a command, nothing is lost of a row's progress.          *)
LEMMA RowsStay ==
  ASSUME DonationsInv, SameRows, log' = log, db'.session \in Nat,
         db'.session >= db.session
  PROVE  RowsTrue'
<1> SUFFICES ASSUME NEW k \in DOMAIN inbox
             PROVE /\ Commands(k)' = inbox'[k].progress
                   /\ inbox'[k].progress <= StepsOf(inbox'[k].action)
                   /\ inbox'[k].disposition = "pending"
                        => inbox'[k].progress < StepsOf(inbox'[k].action)
                   /\ inbox'[k].disposition = "executed"
                        => inbox'[k].progress = StepsOf(inbox'[k].action)
                   /\ inbox'[k].session <= db'.session
  BY DEF RowsTrue, SameRows, Pending
<1>1. Commands(k)' = Commands(k)
  BY DEF Commands
<1>2. inbox \in Seq(Donation) /\ db \in SessionState
  BY DEF DonationsInv, DonationsTypeOK
<1>3. inbox[k] \in Donation
  BY <1>2
<1>4. inbox[k].session \in Nat /\ db.session \in Nat
  BY <1>2, <1>3 DEF Donation, SessionState
<1>5. QED BY <1>1, <1>4 DEF DonationsInv, RowsTrue, SameRows, Pending

(* Requests stay with their donations while none is resolved.              *)
LEMMA OwnedStay ==
  ASSUME DonationsInv, SameRows, db'.session = db.session, TasksFollow(db, db'),
         \A n \in DOMAIN db.tasks : IsResolved(db', n) => IsResolved(db, n)
  PROVE  RequestsOwned'
<1>1. \A k \in DOMAIN inbox : Owns(k)' = Owns(k) /\ inbox'[k].task = inbox[k].task
                             /\ inbox'[k].progress = inbox[k].progress
  BY DEF SameRows, Owns, Asked
<1>2. \A k \in DOMAIN inbox : Owns(k) =>
        /\ inbox[k].task \in DOMAIN db'.tasks
        /\ db'.tasks[inbox[k].task].kind = "donation_destination"
        /\ inbox[k].progress = 1 => db'.tasks[inbox[k].task].status # "resolved"
  BY DEF DonationsInv, RequestsOwned, TasksFollow, TaskFollows, IsResolved, Request
<1>3. QED BY <1>1, <1>2 DEF DonationsInv, RequestsOwned, Request, SameRows

(* A session in which nothing happens.                                     *)
LEMMA FollowsItself == \A d : TasksFollow(d, d)
BY DEF TasksFollow, TaskFollows

(* What a step may do to the tasks of the session that stays open.         *)
TasksMove == db'.session = db.session => TasksFollow(db, db')

(* No transaction's outcome is touched, and no executor's row given up.    *)
LEMMA QuietStep ==
  ASSUME DonationsInv, DonationsTypeOK', SameRows, UNCHANGED <<db, tx, log>>,
         \A p \in Drainers :
           /\ drains'[p].left \subseteq DOMAIN inbox
           /\ drains'[p].stage = "fail" => drains'[p].left # {}
           /\ drains'[p].stage = "execute" \/ Executor(p) =>
                drains'[p] = drains[p] /\ inbox'[Row(p)].disposition = "pending"
  PROVE  DonationsInv'
<1>1. RowsTrue' /\ RequestsOwned'
  <2>1. db.session \in Nat
    BY DEF DonationsInv, DonationsTypeOK, SessionState
  <2>2. RowsTrue'
    BY <2>1, RowsStay
  <2>3. QED BY <2>2, FollowsItself, OwnedStay
<1>2. \A p \in Drainers : /\ Executor(p)' = Executor(p)
                          /\ Executor(p) => /\ Row(p)' = Row(p) /\ drains[p].left # {}
                                            /\ Row(p) \in DOMAIN inbox
  BY RowOf DEF Executor, Row, DonationsInv, DrainsTrue
<1>3. \A k \in DOMAIN inbox : Bound(k)' = Bound(k) /\ Asks(k)' = Asks(k)
                             /\ Asked(k)' = Asked(k) /\ inbox'[k].task = inbox[k].task
  BY DEF SameRows, Bound, Asks, Asked
<1>4. DrainsTrue'
  <2>1. \A p \in Drainers : Executor(p)' =>
          /\ Pending(Row(p))' /\ Bound(Row(p))' /\ (Asks(Row(p)) <=> Asks(Row(p))')
          /\ Asked(Row(p))' => Request(Row(p))'.status = "pending"
    BY <1>2, <1>3 DEF Pending, DonationsInv, DrainsTrue, Executor, Bound, Asks, Asked, Request
  <2>2. \A p \in Drainers : drains'[p].stage \in {"execute", "fail"} => drains'[p].left # {}
    BY DEF DonationsInv, DrainsTrue, Executor
  <2>3. \A p \in Drainers : drains'[p].left \subseteq DOMAIN inbox'
    BY DEF SameRows
  <2>4. QED BY <1>2, <2>1, <2>2, <2>3 DEF DonationsInv, DrainsTrue
<1>5. CopyTrue'
  <2>1. ASSUME tx # Idle, NEW n \in Settled(db, tx.d)
        PROVE  \E p \in Drainers : Executor(p)' /\ Asked(Row(p))' /\ n = inbox'[Row(p)'].task
    <3>1. PICK p \in Drainers : Executor(p) /\ Asked(Row(p)) /\ n = inbox[Row(p)].task
      BY <2>1 DEF DonationsInv, CopyTrue
    <3>2. Asked(Row(p))'
      BY <1>2, <1>3, <3>1 DEF Asked
    <3>3. QED BY <1>2, <1>3, <3>1, <3>2
  <2>2. Settled(db', tx'.d) = Settled(db, tx.d)
    OBVIOUS
  <2>3. QED BY <2>1, <2>2 DEF DonationsInv, CopyTrue, TasksFollow, TaskFollows
<1>6. QED BY <1>1, <1>4, <1>5 DEF DonationsInv

(* Nobody is in a transaction afterwards.                                  *)
LEMMA IdleStep ==
  ASSUME DonationsInv, DonationsTypeOK', SameRows, log' = log, tx' = Idle,
         db'.session = db.session, TasksFollow(db, db'),
         \A n \in DOMAIN db.tasks : IsResolved(db', n) => IsResolved(db, n),
         \A p \in Drainers :
           /\ drains'[p].left \subseteq DOMAIN inbox /\ drains'[p].stage # "execute"
           /\ drains'[p].stage = "fail" => drains'[p].left # {}
  PROVE  DonationsInv'
<1>1. RowsTrue' /\ RequestsOwned'
  <2>1. db.session \in Nat
    BY DEF DonationsInv, DonationsTypeOK, SessionState
  <2>2. RowsTrue'
    BY <2>1, RowsStay
  <2>3. QED BY <2>2, OwnedStay
<1>2. DrainsTrue'
  BY DEF DrainsTrue, Executor, SameRows
<1>3. CopyTrue'
  BY DEF CopyTrue
<1>4. QED BY <1>1, <1>2, <1>3 DEF DonationsInv

(* ------------------------- A drain that executes nothing ----------------- *)
LEMMA NobodyExecutes == DonationsInv /\ tx = Idle => \A p \in Drainers : ~Executor(p)
BY DEF DonationsInv, DrainsTrue, Idle

(* Donations are numbered within the bound.                                *)
LEMMA LeftInRange ==
  DonationsInv => DOMAIN inbox \subseteq 1 .. MaxDonations
<1> SUFFICES ASSUME DonationsInv PROVE DOMAIN inbox \subseteq 1 .. MaxDonations
  OBVIOUS
<1>1. inbox \in Seq(Donation) /\ Len(inbox) <= MaxDonations /\ MaxDonations \in Nat
  BY DonationAssumption DEF DonationsInv, DonationsTypeOK
<1>2. QED BY <1>1

(* A drain that moves on without a transaction.                            *)
LEMMA OnlyDrainMoves ==
  ASSUME DonationsInv, NEW p \in Drainers, NEW stage \in Stages \ {"execute"},
         NEW left \in SUBSET DOMAIN inbox, stage = "fail" => left # {},
         To(p, stage, left), ~Executor(p),
         UNCHANGED <<db, tx, intake>>, guard' \in Drainers \cup {NoDrainer},
         faults' \in 0 .. MaxFaults
  PROVE  DonationsInv'
<1>1. /\ drains' \in [Drainers -> Drain]
      /\ drains'[p].stage = stage /\ drains'[p].left = left
      /\ \A q \in Drainers \ {p} : drains'[q] = drains[q]
  BY LeftInRange, DrainMoves
<1>2. DonationsTypeOK'
  BY <1>1 DEF DonationsInv, DonationsTypeOK, intake
<1>3. SameRows
  BY DEF SameRows, intake
<1>4. ASSUME NEW q \in Drainers
      PROVE  /\ drains'[q].left \subseteq DOMAIN inbox
             /\ drains'[q].stage = "fail" => drains'[q].left # {}
             /\ drains'[q].stage = "execute" \/ Executor(q) =>
                  drains'[q] = drains[q] /\ inbox'[Row(q)].disposition = "pending"
  BY <1>1, <1>4 DEF DonationsInv, DrainsTrue, Executor, Pending, intake
<1>5. QED BY <1>2, <1>3, <1>4, QuietStep DEF intake

(* A transaction of a donation is undone.                                  *)
LEMMA OnlyDrainStops ==
  ASSUME DonationsInv, NEW p \in Drainers, NEW stage \in Stages \ {"execute"},
         NEW left \in SUBSET DOMAIN inbox, stage = "fail" => left # {},
         To(p, stage, left), Executor(p), tx' = Idle,
         UNCHANGED <<db, intake>>, guard' \in Drainers \cup {NoDrainer},
         faults' \in 0 .. MaxFaults
  PROVE  DonationsInv'
<1>1. /\ drains' \in [Drainers -> Drain]
      /\ drains'[p].stage = stage /\ drains'[p].left = left
      /\ \A q \in Drainers \ {p} : drains'[q] = drains[q]
  BY LeftInRange, DrainMoves
<1>2. DonationsTypeOK'
  BY <1>1 DEF DonationsInv, DonationsTypeOK, intake
<1>3. SameRows
  BY DEF SameRows, intake
<1>4. ASSUME NEW q \in Drainers
      PROVE  /\ drains'[q].left \subseteq DOMAIN inbox /\ drains'[q].stage # "execute"
             /\ drains'[q].stage = "fail" => drains'[q].left # {}
  BY <1>1, <1>4 DEF DonationsInv, DrainsTrue, Executor
<1>5. QED BY <1>2, <1>3, <1>4, FollowsItself, IdleStep DEF intake

(* A donation that is given up is given up alone.                          *)
LEMMA RowMarked ==
  ASSUME DonationsInv, NEW k \in DOMAIN inbox, NEW disposition \in {"ignored", "failed"},
         inbox' = Marked(k, disposition)
  PROVE  /\ SameRows /\ inbox' \in Seq(Donation) /\ Len(inbox') = Len(inbox)
         /\ \A j \in DOMAIN inbox \ {k} : inbox'[j] = inbox[j]
<1>1. inbox \in Seq(Donation)
  BY DEF DonationsInv, DonationsTypeOK
<1>2. inbox[k] \in Donation
  BY <1>1
<1> DEFINE row == [inbox[k] EXCEPT !.disposition = disposition]
<1>3. /\ row \in Donation /\ row.session = inbox[k].session
      /\ row.action = inbox[k].action /\ row.progress = inbox[k].progress
      /\ row.task = inbox[k].task /\ row.disposition = disposition
  BY <1>2 DEF Donation
<1>4. inbox' = [inbox EXCEPT ![k] = row]
  BY DEF Marked
<1> HIDE DEF row
<1>5. inbox' \in Seq(Donation) /\ Len(inbox') = Len(inbox)
  BY <1>1, <1>3, <1>4, ExceptSeq
<1>6. /\ DOMAIN inbox' = DOMAIN inbox /\ inbox'[k] = row
      /\ \A j \in DOMAIN inbox \ {k} : inbox'[j] = inbox[j]
  BY <1>4
<1>7. QED BY <1>3, <1>5, <1>6 DEF SameRows

(* A drain that gives up its donation, which nobody executes.              *)
LEMMA DrainMarks ==
  ASSUME DonationsInv, NEW p \in Drainers, NEW stage \in {"ended", "process"},
         NEW disposition \in {"ignored", "failed"}, drains[p].left # {}, ~Executor(p),
         inbox' = Marked(Row(p), disposition), NextRow(p, stage), RowFree(p),
         UNCHANGED <<db, tx, chats, arriving, paced, log, guard, faults>>
  PROVE  DonationsInv'
<1>1. Row(p) \in DOMAIN inbox /\ drains[p].left \ {Row(p)} \subseteq DOMAIN inbox
  BY RowOf DEF DonationsInv, DrainsTrue
<1>2. /\ SameRows /\ inbox' \in Seq(Donation) /\ Len(inbox') = Len(inbox)
      /\ \A j \in DOMAIN inbox \ {Row(p)} : inbox'[j] = inbox[j]
  BY <1>1, RowMarked
<1>3. /\ drains' \in [Drainers -> Drain]
      /\ drains'[p].stage = stage /\ drains'[p].left = drains[p].left \ {Row(p)}
      /\ \A q \in Drainers \ {p} : drains'[q] = drains[q]
  BY <1>1, LeftInRange, DrainMoves DEF NextRow, Stages
<1>4. DonationsTypeOK'
  BY <1>2, <1>3 DEF DonationsInv, DonationsTypeOK, SameRows
<1>5. ASSUME NEW q \in Drainers
      PROVE  /\ drains'[q].left \subseteq DOMAIN inbox
             /\ drains'[q].stage = "fail" => drains'[q].left # {}
             /\ drains'[q].stage = "execute" \/ Executor(q) =>
                  drains'[q] = drains[q] /\ inbox'[Row(q)].disposition = "pending"
  <2>1. CASE q = p
    BY <1>1, <1>3, <2>1
  <2>2. CASE q # p
    <3>1. drains'[q] = drains[q]
      BY <1>3, <2>2
    <3>2. ASSUME Executor(q) PROVE inbox'[Row(q)].disposition = "pending"
      <4>1. Row(q) # Row(p) /\ inbox[Row(q)].disposition = "pending"
        BY <2>2, <3>2 DEF RowFree, Executor, DonationsInv, DrainsTrue, Pending
      <4>2. Row(q) \in DOMAIN inbox
        BY <3>2, RowOf DEF Executor, DonationsInv, DrainsTrue
      <4>3. QED BY <1>2, <4>1, <4>2
    <3>3. QED BY <3>1, <3>2 DEF DonationsInv, DrainsTrue, Executor
  <2>3. QED BY <2>1, <2>2
<1>6. QED BY <1>2, <1>4, <1>5, QuietStep

(* The tasks of a session when one is replaced.                            *)
LEMMA TaskReplaced ==
  ASSUME NEW d \in SessionState, NEW n \in DOMAIN d.tasks, NEW t \in Task,
         TaskFollows(d.tasks[n], t),
         t.status = "resolved" => d.tasks[n].status = "resolved",
         NEW e, e = [d EXCEPT !.tasks[n] = t]
  PROVE  /\ e \in SessionState /\ e.session = d.session /\ e.status = d.status
         /\ DOMAIN e.tasks = DOMAIN d.tasks
         /\ TasksFollow(d, e)
         /\ \A m \in DOMAIN d.tasks : IsResolved(e, m) => IsResolved(d, m)
<1> DEFINE tasks == [d.tasks EXCEPT ![n] = t]
<1>1. d.tasks \in Seq(Task)
  BY DEF SessionState
<1>2. /\ tasks \in Seq(Task) /\ DOMAIN tasks = DOMAIN d.tasks
      /\ \A m \in DOMAIN d.tasks : tasks[m] = IF m = n THEN t ELSE d.tasks[m]
  BY <1>1, ExceptSeq
<1>3. e = [d EXCEPT !.tasks = tasks]
  OBVIOUS
<1> HIDE DEF tasks
<1>4. /\ e \in SessionState /\ e.session = d.session /\ e.status = d.status
      /\ e.tasks = tasks
  BY <1>2, <1>3 DEF SessionState
<1>5. \A m \in DOMAIN d.tasks :
        m \in DOMAIN e.tasks /\ e.tasks[m] = IF m = n THEN t ELSE d.tasks[m]
  BY <1>2, <1>4
<1>6. ASSUME NEW m \in DOMAIN d.tasks
      PROVE  TaskFollows(d.tasks[m], e.tasks[m]) /\ (IsResolved(e, m) => IsResolved(d, m))
  <2>1. CASE m = n
    <3>1. e.tasks[m] = t /\ TaskFollows(d.tasks[m], t) /\ d.tasks[m].kind = t.kind
      BY <1>5, <2>1 DEF TaskFollows
    <3>2. QED BY <2>1, <3>1 DEF IsResolved
  <2>2. CASE m # n
    <3>1. e.tasks[m] = d.tasks[m]
      BY <1>5, <2>2
    <3>2. QED BY <3>1 DEF TaskFollows, IsResolved
  <2>3. QED BY <2>1, <2>2
<1>7. QED BY <1>2, <1>4, <1>5, <1>6 DEF TasksFollow

(* ---------------------------- A drain's own steps ------------------------ *)
LEMMA RequestOf ==
  ASSUME DonationsInv, NEW k \in DOMAIN inbox, Bound(k), Asked(k)
  PROVE  /\ inbox[k].task \in DOMAIN db.tasks /\ Request(k) \in Task
         /\ Request(k).kind = "donation_destination"
         /\ Pending(k) => inbox[k].progress = 1 /\ Request(k).status # "resolved"
<1>1. inbox[k].task \in DOMAIN db.tasks /\ Request(k).kind = "donation_destination"
  BY DEF DonationsInv, RequestsOwned, Owns, Bound
<1>2. Request(k) \in Task
  <2>1. db.tasks \in Seq(Task)
    BY DEF DonationsInv, DonationsTypeOK, SessionState
  <2>2. QED BY <1>1, <2>1 DEF Request
<1>3. ASSUME Pending(k) PROVE inbox[k].progress = 1 /\ Request(k).status # "resolved"
  <2>1. inbox \in Seq(Donation)
    BY DEF DonationsInv, DonationsTypeOK
  <2>2. inbox[k] \in Donation
    BY <2>1
  <2>3. inbox[k].progress \in Nat /\ inbox[k].progress > 0
    BY <2>2 DEF Donation, Asked
  <2>4. inbox[k].progress < 2
    <3>1. StepsOf(inbox[k].action) = 2
      BY DEF StepsOf, Asked
    <3>2. inbox[k].progress < StepsOf(inbox[k].action)
      BY <1>3 DEF DonationsInv, RowsTrue
    <3>3. QED BY <3>1, <3>2
  <2>5. inbox[k].progress = 1
    BY <2>3, <2>4
  <2>6. QED BY <2>5 DEF DonationsInv, RequestsOwned, Owns, Bound
<1>4. QED BY <1>1, <1>2, <1>3

(* A request that is cancelled or lapsed ends its donation.                *)
LEMMA RequestOverTrue ==
  ASSUME DonationsInv, NEW p \in Drainers, RequestOver(p)
  PROVE  DonationsInv' /\ TasksMove
<1> DEFINE k == Row(p)
           r == Request(k)
           t == [r EXCEPT !.status = "cancelled", !.revision = @ + 1]
<1>1. /\ drains[p].stage = "process" /\ drains[p].left # {} /\ tx = Idle /\ tx' = Idle
      /\ Pending(k) /\ Bound(k) /\ Asked(k)
      /\ db' = IF r.status = "cancelled" THEN db ELSE Closed(db, inbox[k].task, r, "cancelled")
      /\ inbox' = Marked(k, "ignored") /\ NextRow(p, "process")
      /\ UNCHANGED <<chats, arriving, paced, log, guard, faults>>
  BY DEF RequestOver, Processing, Over
<1>2. k \in DOMAIN inbox /\ drains[p].left \ {k} \subseteq DOMAIN inbox
  BY <1>1, RowOf DEF DonationsInv, DrainsTrue
<1>3. /\ SameRows /\ inbox' \in Seq(Donation) /\ Len(inbox') = Len(inbox)
  BY <1>1, <1>2, RowMarked
<1>4. /\ drains' \in [Drainers -> Drain]
      /\ drains'[p].stage = "process" /\ drains'[p].left = drains[p].left \ {k}
      /\ \A q \in Drainers \ {p} : drains'[q] = drains[q]
  BY <1>1, <1>2, LeftInRange, DrainMoves DEF NextRow, Stages
<1>5. r \in Task /\ r.status # "resolved" /\ db \in SessionState
  BY <1>1, <1>2, RequestOf DEF DonationsInv, DonationsTypeOK
<1>6. /\ db' \in SessionState /\ db'.session = db.session /\ TasksFollow(db, db')
      /\ \A n \in DOMAIN db.tasks : IsResolved(db', n) => IsResolved(db, n)
  <2>1. CASE r.status = "cancelled"
    <3>1. db' = db
      BY <1>1, <2>1
    <3>2. QED BY <1>5, <3>1, FollowsItself
  <2>2. CASE r.status # "cancelled"
    <3>1. r.status = "pending"
      BY <1>5, <2>2 DEF Task
    <3>2. /\ t \in Task /\ t.status = "cancelled" /\ t.kind = r.kind
          /\ t.selected = r.selected
      <4>1. r \in Task /\ r.revision + 1 \in Nat
        BY <1>5 DEF Task
      <4> HIDE DEF r
      <4>2. QED BY <4>1 DEF Task
    <3>3. TaskFollows(r, t)
      BY <3>1, <3>2 DEF TaskFollows
    <3>4. db' = [db EXCEPT !.tasks[inbox[k].task] = t]
      BY <1>1, <2>2 DEF Closed
    <3> HIDE DEF t
    <3> DEFINE n == inbox[k].task
    <3>5. TaskFollows(db.tasks[n], t) /\ ~(t.status = "resolved")
      BY <3>2, <3>3 DEF Request
    <3>6. db' = [db EXCEPT !.tasks[n] = t]
      BY <3>4
    <3> HIDE DEF n, r
    <3>7. n \in DOMAIN db.tasks
      BY <1>1, <1>2, RequestOf DEF n
    <3>8. QED BY <1>5, <3>2, <3>5, <3>6, <3>7, TaskReplaced
  <2>3. QED BY <2>1, <2>2
<1>7. DonationsTypeOK'
  BY <1>1, <1>3, <1>4, <1>6 DEF DonationsInv, DonationsTypeOK, SameRows
<1>8. ASSUME NEW q \in Drainers
      PROVE  /\ drains'[q].left \subseteq DOMAIN inbox /\ drains'[q].stage # "execute"
             /\ drains'[q].stage = "fail" => drains'[q].left # {}
  BY <1>1, <1>2, <1>4, NobodyExecutes DEF DonationsInv, DrainsTrue, Executor
<1>9. QED BY <1>1, <1>3, <1>6, <1>7, <1>8, IdleStep DEF TasksMove

(* The other steps of a drain that commit no command.                      *)
LEMMA DrainStepsTrue ==
  ASSUME DonationsInv, NEW p \in Drainers
  PROVE  /\ BeginDrain(p) \/ SelectRows(p) \/ EndDrain(p) => DonationsInv'
         /\ AlreadyDecided(p) \/ LeaveWaiting(p) \/ Refused(p) => DonationsInv'
         /\ MarkEnded(p) \/ SessionOver(p) \/ MarkFailed(p) => DonationsInv'
         /\ RollbackDonation(p) => DonationsInv'
<1>1. /\ guard \in Drainers \cup {NoDrainer} /\ faults \in 0 .. MaxFaults
      /\ drains[p].left \subseteq DOMAIN inbox
  BY DEF DonationsInv, DonationsTypeOK, DrainsTrue
<1>2. ASSUME BeginDrain(p) PROVE DonationsInv'
  <2>1. {k \in DOMAIN inbox : Pending(k) /\ ~Bound(k)} \in SUBSET DOMAIN inbox
    OBVIOUS
  <2>2. QED BY <1>1, <1>2, <2>1, OnlyDrainMoves DEF BeginDrain, Executor, Stages
<1>3. ASSUME SelectRows(p) PROVE DonationsInv'
  <2> DEFINE ready == {k \in DOMAIN inbox : Pending(k) /\ Bound(k) /\ inbox[k].due}
             listed == FirstOf(ready, DrainLimit)
             movements == {k \in listed : IsMovement(k)}
             left == (listed \ movements) \cup FirstOf(movements, 1)
  <2>1. left \in SUBSET DOMAIN inbox
    BY DEF FirstOf
  <2>2. To(p, "process", left)
    BY <1>3 DEF SelectRows
  <2> HIDE DEF left
  <2>3. QED BY <1>1, <1>3, <2>1, <2>2, OnlyDrainMoves DEF SelectRows, Executor, Stages
<1>4. ASSUME EndDrain(p) PROVE DonationsInv'
  <2>1. guard' \in Drainers \cup {NoDrainer}
    BY <1>1, <1>4 DEF EndDrain, Released
  <2>2. {} \in SUBSET DOMAIN inbox
    OBVIOUS
  <2>3. QED BY <1>1, <1>4, <2>1, <2>2, OnlyDrainMoves DEF EndDrain, Executor, Stages
<1>5. ASSUME AlreadyDecided(p) \/ LeaveWaiting(p) PROVE DonationsInv'
  <2>1. drains[p].left \ {Row(p)} \in SUBSET DOMAIN inbox
    BY <1>1
  <2>2. /\ drains[p].stage = "process" /\ NextRow(p, "process")
        /\ UNCHANGED <<db, tx, intake, guard, faults>>
    BY <1>5 DEF AlreadyDecided, LeaveWaiting, Processing
  <2>3. QED BY <1>1, <2>1, <2>2, OnlyDrainMoves DEF NextRow, Executor, Stages
<1>6. ASSUME Refused(p) PROVE DonationsInv'
  <2>1. /\ drains[p].stage = "process" /\ drains[p].left # {}
        /\ To(p, "fail", drains[p].left) /\ UNCHANGED <<db, tx, intake, guard, faults>>
    BY <1>6 DEF Refused, Processing
  <2>2. drains[p].left \in SUBSET DOMAIN inbox
    BY <1>1
  <2>3. QED BY <1>1, <2>1, <2>2, OnlyDrainMoves DEF Executor, Stages
<1>7. ASSUME MarkEnded(p) PROVE DonationsInv'
  BY <1>7, DrainMarks DEF MarkEnded, Executor
<1>8. ASSUME SessionOver(p) PROVE DonationsInv'
  <2>1. drains[p].stage = "process" /\ drains[p].left # {} /\ tx = Idle
    BY <1>8 DEF SessionOver, Processing
  <2>2. RowFree(p)
    BY <2>1, NobodyExecutes DEF RowFree, Executor
  <2>3. QED BY <1>8, <2>1, <2>2, DrainMarks DEF SessionOver, Executor
<1>9. ASSUME MarkFailed(p) PROVE DonationsInv'
  <2>1. drains[p].left # {}
    BY <1>9 DEF MarkFailed, DonationsInv, DrainsTrue
  <2>2. QED BY <1>9, <2>1, DrainMarks DEF MarkFailed, Executor
<1>10. ASSUME RollbackDonation(p) PROVE DonationsInv'
  <2>1. drains[p].stage = "execute" /\ Executor(p)
    BY <1>10 DEF RollbackDonation, Executor
  <2>2. drains[p].left # {} /\ drains[p].left \in SUBSET DOMAIN inbox
    BY <1>1, <2>1 DEF DonationsInv, DrainsTrue
  <2>3. QED BY <1>1, <1>10, <2>1, <2>2, OnlyDrainStops DEF RollbackDonation, Rollback, Stages
<1>11. QED BY <1>2, <1>3, <1>4, <1>5, <1>6, <1>7, <1>8, <1>9, <1>10

(* -------------------------- Failures and time ---------------------------- *)
LEMMA DrainsRest ==
  ASSUME DonationsInv, DonationsTypeOK', SameRows, UNCHANGED <<db, tx, log, drains>>,
         \A k \in DOMAIN inbox : inbox'[k].disposition = inbox[k].disposition
  PROVE  DonationsInv'
<1>1. ASSUME NEW p \in Drainers
      PROVE  /\ drains'[p].left \subseteq DOMAIN inbox
             /\ drains'[p].stage = "fail" => drains'[p].left # {}
             /\ drains'[p].stage = "execute" \/ Executor(p) =>
                  drains'[p] = drains[p] /\ inbox'[Row(p)].disposition = "pending"
  <2>1. Executor(p) => Row(p) \in DOMAIN inbox /\ inbox[Row(p)].disposition = "pending"
    BY RowOf DEF DonationsInv, DrainsTrue, Executor, Pending
  <2>2. QED BY <2>1 DEF DonationsInv, DrainsTrue, Executor
<1>2. QED BY <1>1, QuietStep

(* Failures are counted within their bound.                                *)
LEMMA FaultType ==
  DonationsTypeOK /\ Fault => faults' \in 0 .. MaxFaults
BY DonationAssumption DEF DonationsTypeOK, Fault

(* Errors, crashes and a lost lock undo work, and nothing else.            *)
LEMMA FailuresTrue ==
  ASSUME DonationsInv
  PROVE  /\ \A p \in Drainers : TransientError(p) \/ ConnectionLost(p) => DonationsInv'
         /\ \A p \in Drainers : Crash(p) => DonationsInv'
         /\ GuardLost => DonationsInv'
<1>1. /\ DonationsTypeOK /\ guard \in Drainers \cup {NoDrainer}
      /\ \A p \in Drainers : drains[p].left \subseteq DOMAIN inbox
  BY DEF DonationsInv, DonationsTypeOK, DrainsTrue
<1>2. ASSUME NEW p \in Drainers, TransientError(p) PROVE DonationsInv'
  <2>1. drains[p].left \ {Row(p)} \in SUBSET DOMAIN inbox
    BY <1>1
  <2>2. faults' \in 0 .. MaxFaults
    BY <1>1, <1>2, FaultType DEF TransientError
  <2>3. QED BY <1>1, <1>2, <2>1, <2>2, OnlyDrainStops DEF TransientError, NextRow, Executor, Stages
<1>3. ASSUME NEW p \in Drainers, Crash(p) PROVE DonationsInv'
  <2>1. faults' \in 0 .. MaxFaults /\ guard' \in Drainers \cup {NoDrainer}
    BY <1>1, <1>3, FaultType DEF Crash, Released
  <2>2. {} \in SUBSET DOMAIN inbox
    OBVIOUS
  <2>3. CASE Executor(p)
    BY <1>3, <2>1, <2>2, <2>3, OnlyDrainStops DEF Crash, Executor, Stages
  <2>4. CASE ~Executor(p)
    BY <1>3, <2>1, <2>2, <2>4, OnlyDrainMoves DEF Crash, Executor, Stages
  <2>5. QED BY <2>3, <2>4
<1>4. ASSUME GuardLost PROVE DonationsInv'
  <2>1. faults' \in 0 .. MaxFaults
    BY <1>1, <1>4, FaultType DEF GuardLost
  <2>2. DonationsTypeOK'
    BY <1>1, <1>4, <2>1 DEF GuardLost, DonationsTypeOK, intake
  <2>3. SameRows
    BY <1>4 DEF GuardLost, intake, SameRows
  <2>4. QED BY <1>4, <2>2, <2>3, DrainsRest DEF GuardLost, intake
<1>5. ASSUME NEW p \in Drainers, ConnectionLost(p) PROVE DonationsInv'
  <2>1. faults' \in 0 .. MaxFaults
    BY <1>1, <1>5, FaultType DEF ConnectionLost
  <2>2. drains[p].left \in SUBSET DOMAIN inbox
    BY <1>1
  <2>3. CASE Executor(p)
    BY <1>1, <1>5, <2>1, <2>2, <2>3, OnlyDrainStops DEF ConnectionLost, Executor, Stages
  <2>4. CASE ~Executor(p)
    BY <1>1, <1>5, <2>1, <2>2, <2>4, OnlyDrainMoves DEF ConnectionLost, Executor, Stages
  <2>5. QED BY <2>3, <2>4
<1>6. QED BY <1>2, <1>3, <1>4, <1>5

(* Time passes for the rows and for the presentation.                      *)
LEMMA FlagsTrue ==
  ASSUME DonationsInv
  PROVE  /\ NotBeforePassed \/ PresentationOver => DonationsInv'
         /\ \A k \in DOMAIN inbox : RequestExpires(k) => DonationsInv'
<1>1. inbox \in Seq(Donation) /\ DonationsTypeOK
  BY DEF DonationsInv, DonationsTypeOK
<1>2. ASSUME NEW k \in DOMAIN inbox, NEW b \in BOOLEAN,
             NEW row \in {[inbox[k] EXCEPT !.due = TRUE], [inbox[k] EXCEPT !.expired = TRUE]}
      PROVE  /\ row \in Donation
             /\ row.session = inbox[k].session /\ row.action = inbox[k].action
             /\ row.progress = inbox[k].progress /\ row.task = inbox[k].task
             /\ row.disposition = inbox[k].disposition
  <2>1. inbox[k] \in Donation
    BY <1>1
  <2>2. QED BY <2>1 DEF Donation
<1>3. ASSUME NotBeforePassed PROVE DonationsInv'
  <2>1. /\ DOMAIN inbox' = DOMAIN inbox
        /\ \A k \in DOMAIN inbox : inbox'[k] = [inbox[k] EXCEPT !.due = TRUE]
        /\ inbox' = [k \in 1 .. Len(inbox) |-> inbox'[k]]
    BY <1>1, <1>3 DEF NotBeforePassed
  <2>2. \A k \in DOMAIN inbox :
          /\ inbox'[k] \in Donation
          /\ inbox'[k].session = inbox[k].session /\ inbox'[k].action = inbox[k].action
          /\ inbox'[k].progress = inbox[k].progress /\ inbox'[k].task = inbox[k].task
          /\ inbox'[k].disposition = inbox[k].disposition
    BY <1>2, <2>1
  <2>3. inbox' \in Seq(Donation) /\ Len(inbox') = Len(inbox)
    BY <1>1, <2>1, <2>2
  <2>4. DonationsTypeOK' /\ SameRows
    BY <1>1, <1>3, <2>1, <2>2, <2>3 DEF NotBeforePassed, DonationsTypeOK, SameRows, polls
  <2>5. QED BY <1>3, <2>2, <2>4, DrainsRest DEF NotBeforePassed, polls
<1>4. ASSUME PresentationOver PROVE DonationsInv'
  <2>1. DonationsTypeOK' /\ SameRows
    BY <1>1, <1>4 DEF PresentationOver, DonationsTypeOK, SameRows, polls
  <2>2. QED BY <1>4, <2>1, DrainsRest DEF PresentationOver, polls
<1>5. ASSUME NEW k \in DOMAIN inbox, RequestExpires(k) PROVE DonationsInv'
  <2> DEFINE row == [inbox[k] EXCEPT !.expired = TRUE]
  <2>1. inbox' = [inbox EXCEPT ![k] = row]
    BY <1>5 DEF RequestExpires
  <2>2. /\ row \in Donation
        /\ row.session = inbox[k].session /\ row.action = inbox[k].action
        /\ row.progress = inbox[k].progress /\ row.task = inbox[k].task
        /\ row.disposition = inbox[k].disposition
    BY <1>2
  <2> HIDE DEF row
  <2>3. inbox' \in Seq(Donation) /\ Len(inbox') = Len(inbox)
    BY <1>1, <2>1, <2>2, ExceptSeq
  <2>4. \A j \in DOMAIN inbox : inbox'[j] = IF j = k THEN row ELSE inbox[j]
    BY <2>1
  <2>5. DOMAIN inbox' = DOMAIN inbox
    BY <2>1
  <2>6. SameRows /\ \A j \in DOMAIN inbox : inbox'[j].disposition = inbox[j].disposition
    BY <2>2, <2>4, <2>5 DEF SameRows
  <2>7. DonationsTypeOK'
    BY <1>1, <1>5, <2>3, <2>5 DEF RequestExpires, DonationsTypeOK, polls
  <2>8. QED BY <1>5, <2>6, <2>7, DrainsRest DEF RequestExpires, polls
<1>6. QED BY <1>3, <1>4, <1>5

(* ------------------------- Acceptance of chats --------------------------- *)
LEMMA ChatsTrue ==
  ASSUME DonationsInv
  PROVE  /\ \A chat \in NewChat : FindNoRequest(chat) => DonationsInv'
         /\ StoreChat => DonationsInv'
<1>1. DonationsTypeOK
  BY DEF DonationsInv
<1>2. ASSUME NEW chat \in NewChat, FindNoRequest(chat) PROVE DonationsInv'
  <2>1. DonationsTypeOK' /\ SameRows
    BY <1>1, <1>2 DEF FindNoRequest, DonationsTypeOK, SameRows, polls, NewChat
  <2>2. QED BY <1>2, <2>1, DrainsRest DEF FindNoRequest, polls
<1>3. ASSUME StoreChat PROVE DonationsInv'
  <2>1. arriving \in Chat /\ chats' = Append(chats, arriving)
    BY <1>1, <1>3 DEF StoreChat, DonationsTypeOK
  <2>2. chats' \in Seq(Chat)
    BY <1>1, <2>1 DEF DonationsTypeOK
  <2>3. DonationsTypeOK' /\ SameRows
    BY <1>1, <1>3, <2>2 DEF StoreChat, DonationsTypeOK, SameRows, polls
  <2>4. QED BY <1>3, <2>3, DrainsRest DEF StoreChat, polls
<1>4. QED BY <1>2, <1>3

(* A destination chosen for a request that has none.                       *)
LEMMA SelectedFollows ==
  ASSUME NEW r \in Task, NEW cell \in Cells, r.status = "pending", r.selected = NoCell
  PROVE  /\ Selected(r, cell) \in Task /\ TaskFollows(r, Selected(r, cell))
         /\ Selected(r, cell).status = "pending" /\ Selected(r, cell).kind = r.kind
<1>1. r.revision + 1 \in Nat
  BY DEF Task
<1>2. QED BY <1>1 DEF Selected, Task, TaskFollows

(* A chat that finds its request chooses what nobody has.                  *)
LEMMA AnswerTrue ==
  ASSUME DonationsInv, NEW chat \in NewChat, AnswerRequest(chat)
  PROVE  DonationsInv' /\ TasksMove
<1> DEFINE k == Earliest(OpenRequests(chat))
           n == inbox[k].task
           r == db.tasks[n]
           answers == MayTravelTo(db, Request(k), chat.cell) /\ ~inbox[k].expired
           stored == [chat EXCEPT !.matched = answers]
<1>1. /\ tx = Idle /\ OpenRequests(chat) # {} /\ chats' = Append(chats, stored)
      /\ db' = IF answers THEN [db EXCEPT !.tasks[n] = Selected(r, chat.cell)] ELSE db
      /\ UNCHANGED <<tx, inbox, arriving, paced, log, polls>>
  BY DEF AnswerRequest
<1>2. k \in OpenRequests(chat)
  <2>1. OpenRequests(chat) \subseteq DOMAIN inbox
    BY DEF OpenRequests
  <2>2. DOMAIN inbox \subseteq Nat
    BY LeftInRange
  <2>3. QED BY <1>1, <2>1, <2>2, EarliestOf
<1>3. /\ k \in DOMAIN inbox /\ Bound(k) /\ Asked(k)
      /\ Request(k).status = "pending" /\ Unselected(k)
  BY <1>2 DEF OpenRequests
<1>4. /\ n \in DOMAIN db.tasks /\ r \in Task /\ r.status = "pending"
      /\ r.selected = NoCell /\ chat.cell \in Cells
  BY <1>3, RequestOf DEF Request, Unselected, Chat, NewChat
<1>5. stored \in Chat
  <2>1. answers \in BOOLEAN
    BY DEF MayTravelTo
  <2> HIDE DEF answers
  <2>2. chat \in Chat
    BY DEF NewChat
  <2>3. QED BY <2>1, <2>2 DEF Chat
<1>6. DonationsTypeOK /\ db \in SessionState
  BY DEF DonationsInv, DonationsTypeOK
<1> HIDE DEF k, n, r, answers, stored
<1>7. /\ db' \in SessionState /\ db'.session = db.session /\ TasksFollow(db, db')
      /\ \A m \in DOMAIN db.tasks : IsResolved(db', m) => IsResolved(db, m)
  <2>1. CASE db' = db
    BY <1>6, <2>1, FollowsItself
  <2>2. CASE db' = [db EXCEPT !.tasks[n] = Selected(r, chat.cell)]
    <3>1. r = db.tasks[n]
      BY DEF r
    <3>2. QED BY <1>4, <1>6, <2>2, <3>1, SelectedFollows, TaskReplaced
  <2>3. QED BY <1>1, <2>1, <2>2
<1>8. chats' \in Seq(Chat)
  BY <1>1, <1>6, <1>5 DEF DonationsTypeOK
<1>9. DonationsTypeOK' /\ SameRows
  BY <1>1, <1>6, <1>7, <1>8 DEF DonationsTypeOK, SameRows, polls
<1>10. ASSUME NEW p \in Drainers
      PROVE  /\ drains'[p].left \subseteq DOMAIN inbox /\ drains'[p].stage # "execute"
             /\ drains'[p].stage = "fail" => drains'[p].left # {}
  BY <1>1, NobodyExecutes DEF DonationsInv, DrainsTrue, Executor, polls
<1>11. QED BY <1>1, <1>7, <1>9, <1>10, IdleStep DEF TasksMove

(* ------------------- Acceptance, sessions and catalogs ------------------- *)
LEMMA AcceptTrue ==
  ASSUME DonationsInv, NEW donor \in Donors, NEW action \in DonationActions,
         AcceptDonation(donor, action)
  PROVE  DonationsInv'
<1> DEFINE row == [session |-> db.session, donor |-> donor, action |-> action, progress |-> 0,
                   task |-> 0, disposition |-> "pending", due |-> TRUE, expired |-> FALSE]
           k == Len(inbox) + 1
<1>1. DonationsTypeOK /\ inbox \in Seq(Donation) /\ Len(inbox) \in Nat /\ db \in SessionState
  BY DEF DonationsInv, DonationsTypeOK
<1>2. /\ tx = Idle /\ Len(inbox) < MaxDonations /\ inbox' = Append(inbox, row)
      /\ UNCHANGED <<db, tx, chats, arriving, paced, log, polls>>
  BY DEF AcceptDonation
<1>3. row \in Donation
  BY <1>1 DEF Donation, SessionState
<1>4. /\ row.session = db.session /\ row.action = action /\ row.progress = 0
      /\ row.disposition = "pending"
  OBVIOUS
<1> HIDE DEF row
<1>5. /\ inbox' \in Seq(Donation) /\ Len(inbox') = Len(inbox) + 1
      /\ DOMAIN inbox' = DOMAIN inbox \cup {k} /\ k \notin DOMAIN inbox /\ inbox'[k] = row
      /\ \A j \in DOMAIN inbox : inbox'[j] = inbox[j]
  BY <1>1, <1>2, <1>3
<1>6. Len(inbox') <= MaxDonations
  BY <1>1, <1>2, <1>5, DonationAssumption
<1>7. DonationsTypeOK'
  <2>1. log' \in Seq(DOMAIN inbox')
    <3>1. log \in Seq(DOMAIN inbox) /\ DOMAIN inbox \subseteq DOMAIN inbox'
      BY <1>1, <1>5 DEF DonationsTypeOK
    <3>2. log \in Seq(DOMAIN inbox')
      BY <3>1
    <3>3. QED BY <1>2, <3>2
  <2>2. QED BY <1>1, <1>2, <1>5, <1>6, <2>1 DEF DonationsTypeOK, polls
<1>8. RowsTrue'
  <2>1. \A j : Commands(j)' = Commands(j)
    BY <1>2 DEF Commands
  <2>2. Commands(k) = 0
    <3>1. \A n \in DOMAIN log : log[n] \in DOMAIN inbox
      BY <1>1 DEF DonationsTypeOK
    <3>2. {n \in DOMAIN log : log[n] = k} = {}
      BY <1>5, <3>1
    <3>3. QED BY <3>2, FS_EmptySet DEF Commands
  <2>3. StepsOf(action) \in Nat \ {0}
    BY StepsType
  <2>4. db'.session = db.session /\ db.session \in Nat
    BY <1>1, <1>2 DEF SessionState
  <2>5. ASSUME NEW j \in DOMAIN inbox'
        PROVE  /\ Commands(j)' = inbox'[j].progress
               /\ inbox'[j].progress <= StepsOf(inbox'[j].action)
               /\ inbox'[j].disposition = "pending"
                    => inbox'[j].progress < StepsOf(inbox'[j].action)
               /\ inbox'[j].disposition = "executed"
                    => inbox'[j].progress = StepsOf(inbox'[j].action)
               /\ inbox'[j].session <= db'.session
    <3>1. CASE j = k
      BY <1>4, <1>5, <2>1, <2>2, <2>3, <2>4, <3>1
    <3>2. CASE j \in DOMAIN inbox
      BY <1>5, <2>1, <2>4, <3>2 DEF DonationsInv, RowsTrue, Pending
    <3>3. QED BY <1>5, <3>1, <3>2
  <2>6. QED BY <2>5 DEF RowsTrue, Pending
<1>9. DrainsTrue'
  <2>1. \A p \in Drainers : ~Executor(p)' /\ drains'[p] = drains[p]
    BY <1>2, NobodyExecutes DEF Executor, polls
  <2>2. QED BY <1>5, <2>1 DEF DonationsInv, DrainsTrue, Executor
<1>10. RequestsOwned'
  <2>1. ASSUME NEW j \in DOMAIN inbox', Owns(j)'
        PROVE  j \in DOMAIN inbox /\ Owns(j) /\ inbox'[j] = inbox[j]
    BY <1>2, <1>4, <1>5, <2>1 DEF Owns, Asked
  <2>2. QED BY <1>2, <2>1 DEF DonationsInv, RequestsOwned, Request
<1>11. CopyTrue'
  BY <1>2 DEF CopyTrue
<1>12. QED BY <1>7, <1>8, <1>9, <1>10, <1>11 DEF DonationsInv

(* No donation is bound to a session that has just started.                *)
LEMMA StartTrue == DonationsInv /\ StartSession => DonationsInv'
<1> SUFFICES ASSUME DonationsInv, StartSession PROVE DonationsInv'
  OBVIOUS
<1>1. PICK c \in Cells, d \in Directions, b \in BoardIds : createSession(c, d, b)
  BY DEF StartSession
<1>2. UNCHANGED <<intake, polls>> /\ tx = Idle /\ tx' = Idle /\ db'.session = db.session + 1
  BY <1>1 DEF StartSession, createSession, Fresh
<1>3. DonationsTypeOK /\ TypeOK /\ db.session \in Nat
  BY DEF DonationsInv, DonationsTypeOK, TypeOK, SessionState
<1>4. DonationsTypeOK'
  <2>1. TypeOK'
    BY <1>1, <1>3, OtherStepsType
  <2>2. QED BY <1>2, <1>3, <2>1 DEF TypeOK, DonationsTypeOK, intake, polls
<1>5. SameRows
  BY <1>2 DEF SameRows, intake
<1>6. RowsTrue'
  BY <1>2, <1>3, <1>5, RowsStay DEF intake
<1>7. DrainsTrue'
  <2>1. \A p \in Drainers : ~Executor(p)' /\ drains'[p] = drains[p]
    BY <1>2, NobodyExecutes DEF Executor, polls
  <2>2. QED BY <1>2, <2>1 DEF DonationsInv, DrainsTrue, Executor, intake
<1>8. RequestsOwned'
  <2>1. ASSUME NEW k \in DOMAIN inbox PROVE ~Owns(k)'
    <3>1. inbox[k].session <= db.session
      BY DEF DonationsInv, RowsTrue
    <3>2. inbox \in Seq(Donation)
      BY <1>3 DEF DonationsTypeOK
    <3>3. inbox[k] \in Donation
      BY <3>2
    <3>4. inbox[k].session \in Nat
      BY <3>3 DEF Donation
    <3>5. inbox'[k].session # db'.session
      BY <1>2, <1>3, <3>1, <3>4 DEF intake
    <3>6. QED BY <3>5 DEF Owns
  <2>2. QED BY <1>2, <2>1 DEF RequestsOwned, intake
<1>9. CopyTrue'
  BY <1>2 DEF CopyTrue
<1>10. QED BY <1>4, <1>6, <1>7, <1>8, <1>9 DEF DonationsInv

(* Between transactions, what keeps the session and its tasks is harmless. *)
LEMMA SessionRests ==
  ASSUME DonationsInv, \A p \in Drainers : ~Executor(p), TypeOK', tx' = Idle,
         db'.session = db.session, TasksFollow(db, db'),
         \A n \in DOMAIN db.tasks : IsResolved(db', n) => IsResolved(db, n),
         UNCHANGED <<inbox, chats, arriving, log, polls>>, paced' \in BOOLEAN
  PROVE  DonationsInv'
<1>1. DonationsTypeOK' /\ SameRows
  BY DEF DonationsInv, DonationsTypeOK, TypeOK, SameRows, polls
<1>2. ASSUME NEW p \in Drainers
      PROVE  /\ drains'[p].left \subseteq DOMAIN inbox /\ drains'[p].stage # "execute"
             /\ drains'[p].stage = "fail" => drains'[p].left # {}
  BY DEF DonationsInv, DrainsTrue, Executor, polls
<1>3. QED BY <1>1, <1>2, IdleStep

(* A catalog's publication leaves the tasks alone.                         *)
LEMMA PublishTrue == DonationsInv /\ PublishCatalog => DonationsInv' /\ TasksMove
<1> SUFFICES ASSUME DonationsInv, PublishCatalog PROVE DonationsInv' /\ TasksMove
  OBVIOUS
<1>1. PICK c \in Catalogs : PublishItems(c)
  BY DEF PublishCatalog
<1>2. TypeOK /\ db \in SessionState /\ paced \in BOOLEAN
  BY DEF DonationsInv, DonationsTypeOK, TypeOK
<1>3. TypeOK'
  BY <1>1, <1>2, OtherStepsType
<1>4. tx = Idle /\ tx' = Idle /\ db'.session = db.session /\ db'.tasks = db.tasks
  BY <1>1, <1>2 DEF PublishItems, SessionState
<1>5. TasksFollow(db, db') /\ \A n : IsResolved(db', n) => IsResolved(db, n)
  BY <1>4 DEF TasksFollow, TaskFollows, IsResolved
<1>6. QED BY <1>2, <1>3, <1>4, <1>5, NobodyExecutes, SessionRests
          DEF PublishCatalog, intake, TasksMove

(* ------------------------------ Commands --------------------------------- *)
(* e may become the session d, and resolves none of its requests.          *)
Continues(d, e) ==
  e.session = d.session /\ TasksFollow(d, e) /\ Settled(d, e) = {}

(* What leaves the session and its tasks alone continues it.               *)
LEMMA SameContinues ==
  ASSUME NEW d, NEW e, e.session = d.session, e.tasks = d.tasks
  PROVE  Continues(d, e)
BY DEF Continues, TasksFollow, TaskFollows, Settled, IsResolved

(* A decision about a travel reservation continues any session with them.  *)
LEMMA DecisionContinues ==
  ASSUME NEW c \in SessionState, NEW d \in SessionState,
         d.tasks = c.tasks, d.session = c.session,
         NEW k \in PendingTravels(c), NEW r \in Task, r.kind = "choose_destination",
         NEW decision \in Decisions, decision = "move" => HasChoice(r),
         NEW o \in applyTravelDecision(d, k, r, decision)
  PROVE  Continues(c, o.d)
<1>1. /\ k \in DOMAIN c.tasks /\ k \in DOMAIN d.tasks
      /\ c.tasks[k].kind = "choose_destination" /\ c.tasks[k].status = "pending"
  BY DEF PendingTravels
<1>2. ASSUME NEW status \in {"pending", "resolved", "cancelled"}, NEW e,
             e.session = d.session, e.tasks = Closed(d, k, r, status).tasks
      PROVE  Continues(c, e)
  <2>1. /\ DOMAIN e.tasks = DOMAIN c.tasks /\ e.tasks[k].kind = "choose_destination"
        /\ \A j \in DOMAIN c.tasks \ {k} : e.tasks[j] = c.tasks[j]
    BY <1>1, <1>2, ClosedKeeps
  <2>2. TasksFollow(c, e)
    BY <1>1, <2>1 DEF TasksFollow, TaskFollows
  <2>3. Settled(c, e) = {}
    BY <1>1, <2>1 DEF Settled, IsResolved
  <2>4. QED BY <1>2, <2>2, <2>3 DEF Continues
<1>3. \A s \in {"pending", "resolved", "cancelled"} :
        Closed(d, k, r, s).session = d.session /\ Closed(d, k, r, s) \in SessionState
  BY <1>1, ClosedKeeps, ClosedType DEF Keeps
<1>4. CASE decision = "wait"
  <2>1. o.d = Closed(d, k, r, "pending")
    BY <1>4 DEF applyTravelDecision, Outcome
  <2>2. QED BY <1>2, <1>3, <2>1
<1>5. CASE decision = "cancel"
  <2>1. o.d = Closed(d, k, r, "cancelled")
    BY <1>5 DEF applyTravelDecision, Outcome
  <2>2. QED BY <1>2, <1>3, <2>1
<1>6. CASE decision = "return_turn"
  <2> DEFINE e == Closed(d, k, r, "cancelled")
  <2>1. PICK p \in executeNormalRoll(e) : o = [p EXCEPT !.travel = "returned"]
    BY <1>6 DEF applyTravelDecision
  <2>2. e \in SessionState /\ e.session = d.session
    BY <1>3
  <2>3. Keeps(e, p.d) /\ p.d.tasks = e.tasks /\ p \in OutcomeType
    BY <2>1, <2>2, NormalRollKeeps, NormalRollType
  <2>4. o.d = p.d
    BY <2>1, <2>3 DEF OutcomeType
  <2>5. o.d.session = d.session /\ o.d.tasks = e.tasks
    BY <2>2, <2>3, <2>4 DEF Keeps
  <2>6. QED BY <1>2, <2>5
<1>7. CASE decision = "move"
  <2> DEFINE e == Closed(d, k, r, "resolved")
  <2>1. o.d = [e EXCEPT !.cell = r.selected]
    BY <1>7 DEF applyTravelDecision, Trips, Trip, Outcome
  <2>2. e \in SessionState /\ e.session = d.session
    BY <1>3
  <2>3. o.d.session = d.session /\ o.d.tasks = e.tasks
    <3> HIDE DEF e
    <3>1. QED BY <2>1, <2>2 DEF SessionState
  <2>4. QED BY <1>2, <2>3
<1>8. QED BY <1>4, <1>5, <1>6, <1>7 DEF Decisions

(* A turn continues its session.                                           *)
LEMMA RollContinues ==
  ASSUME NEW d \in SessionState, NEW o \in executeRollTurn(d)
  PROVE  Continues(d, o.d)
<1> DEFINE k == pendingTravel(d)
           held == d.tasks[k]
           r == IF HoldsTurn(held) THEN held ELSE reserveTravelTurn(held, d.revision + 1)
<1>1. CASE ~HasTravel(d) \/ Locked(d)
  <2>1. o \in executeNormalRoll(d)
    BY <1>1 DEF executeRollTurn
  <2>2. Keeps(d, o.d) /\ o.d.tasks = d.tasks
    BY <2>1, NormalRollKeeps
  <2>3. o.d.session = d.session
    BY <2>2 DEF Keeps
  <2>4. QED BY <2>2, <2>3, SameContinues
<1>2. CASE HasTravel(d) /\ ~Locked(d)
  <2>1. k \in PendingTravels(d) /\ held \in Task
    BY <1>2, PendingTravelType
  <2>2. d.revision + 1 \in Nat
    BY DEF SessionState
  <2>3. r \in Task /\ r.kind = "choose_destination"
    BY <2>1, <2>2 DEF reserveTravelTurn, Task, PendingTravels
  <2>4. decideTravel(r, FALSE) \in Decisions
          /\ (decideTravel(r, FALSE) = "move" => HasChoice(r))
    BY <2>3, DecideTravelType
  <2>5. o \in applyTravelDecision(d, k, r, decideTravel(r, FALSE))
    BY <1>2 DEF executeRollTurn
  <2> DEFINE decision == decideTravel(r, FALSE)
  <2>6. decision \in Decisions /\ (decision = "move" => HasChoice(r))
          /\ o \in applyTravelDecision(d, k, r, decision)
    BY <2>4, <2>5
  <2> HIDE DEF k, held, r, decision
  <2>7. d.tasks = d.tasks /\ d.session = d.session
    OBVIOUS
  <2>8. QED BY <2>1, <2>3, <2>6, <2>7, DecisionContinues
<1>3. QED BY <1>1, <1>2

(* A transaction that has just begun, with what it would commit.           *)
Begins(type) ==
  /\ tx = Idle /\ db' = db /\ tx'.type = type /\ tx'.travels = <<>>
  /\ Continues(db, tx'.d)

(* A command that continues its session begins with nothing reserved.      *)
LEMMA BeginContinues ==
  ASSUME NEW type, NEW o, tx = Idle, Continues(db, o.d), Begin(type, o)
  PROVE  Begins(type)
BY DEF Begin, Begins

(* A change that leaves the tasks alone.                                   *)
LEMMA ChangeContinues ==
  ASSUME NEW type, NEW d, tx = Idle, d.session = db.session, d.tasks = db.tasks,
         Change(type, d)
  PROVE  Begins(type)
<1>1. Outcome(d, <<>>, FALSE, "none").d = d
  BY DEF Outcome
<1>2. QED BY <1>1, SameContinues, BeginContinues DEF Change

(* A decision about the reservation that is waiting.                       *)
LEMMA DecisionBegins ==
  ASSUME TypeOK, tx = Idle, HasTravel(db), NEW d \in SessionState,
         d.tasks = db.tasks, d.session = db.session,
         NEW r \in Task, r.kind = "choose_destination",
         NEW paused \in BOOLEAN, NEW type,
         \E o \in applyTravelDecision(d, pendingTravel(db), r, decideTravel(r, paused)) :
            Begin(type, o)
  PROVE  Begins(type)
<1> DEFINE k == pendingTravel(db)
<1>1. k \in PendingTravels(db) /\ db \in SessionState
  BY PendingTravelType DEF TypeOK
<1>2. decideTravel(r, paused) \in Decisions
        /\ (decideTravel(r, paused) = "move" => HasChoice(r))
  BY DecideTravelType
<1>3. PICK o \in applyTravelDecision(d, k, r, decideTravel(r, paused)) : Begin(type, o)
  OBVIOUS
<1>4. Continues(db, o.d)
  BY <1>1, <1>2, <1>3, DecisionContinues
<1>5. QED BY <1>3, <1>4, BeginContinues

(* Every movement command of the operator.                                 *)
LEMMA MovementBegins ==
  ASSUME TypeOK, MovementCommands
  PROVE  \E type \in CommandTypes \ {"donation"} : Begins(type)
<1> DEFINE k == pendingTravel(db)
           Goal == \E type \in CommandTypes \ {"donation"} : Begins(type)
<1>1. db \in SessionState
  BY DEF TypeOK
<1>2. HasTravel(db) => /\ db.tasks[k] \in Task
                       /\ db.tasks[k].kind = "choose_destination"
  BY <1>1, PendingTravelType DEF PendingTravels
<1>3. HeldBack \in BOOLEAN /\ (Active => tx = Idle)
  BY DEF HeldBack, Active
<1>4. ASSUME roll_dice PROVE Goal
  <2>1. PICK o \in executeRollTurn(db) : Begin("roll_dice", o)
    BY <1>4 DEF roll_dice
  <2>2. Continues(db, o.d)
    BY <1>1, <2>1, RollContinues
  <2>3. Begins("roll_dice")
    BY <1>3, <1>4, <2>1, <2>2, BeginContinues DEF roll_dice
  <2>4. QED BY <2>3 DEF CommandTypes
<1>5. ASSUME NEW type \in CommandTypes \ {"donation"}, NEW d, Active,
             d.session = db.session, d.tasks = db.tasks, Change(type, d)
      PROVE  Goal
  BY <1>3, <1>5, ChangeContinues
<1>6. ASSUME NEW direction \in Directions, set_direction(direction) PROVE Goal
  <2> DEFINE d == [db EXCEPT !.direction = direction]
  <2>1. d.session = db.session /\ d.tasks = db.tasks
    BY <1>1 DEF SessionState
  <2>2. QED BY <1>5, <1>6, <2>1 DEF set_direction, CommandTypes
<1>7. ASSUME NEW c \in Cells, NEW t \in BOOLEAN, set_position(c, t) PROVE Goal
  <2> DEFINE d == [db EXCEPT !.cell = c, !.auto = TRUE, !.status = "paused"]
             o == Outcome(d, IF t THEN ArrivalAt(c) ELSE <<>>, FALSE, "none")
  <2>1. d.session = db.session /\ d.tasks = db.tasks
    BY <1>1 DEF SessionState
  <2>2. o.d = d
    BY DEF Outcome
  <2>3. Begin("set_position", o) /\ Active
    BY <1>7 DEF set_position
  <2> HIDE DEF d, o
  <2>4. Begins("set_position")
    BY <1>3, <2>1, <2>2, <2>3, SameContinues, BeginContinues
  <2>5. QED BY <2>4 DEF CommandTypes
<1>8. ASSUME pause PROVE Goal
  <2> DEFINE d == [db EXCEPT !.status = "paused", !.auto = TRUE]
  <2>1. d.session = db.session /\ d.tasks = db.tasks
    BY <1>1 DEF SessionState
  <2>2. QED BY <1>5, <1>8, <2>1 DEF pause, CommandTypes
<1>9. ASSUME end_session PROVE Goal
  <2> DEFINE d == [db EXCEPT !.status = "ended", !.auto = TRUE]
  <2>1. d.session = db.session /\ d.tasks = db.tasks
    BY <1>1 DEF SessionState
  <2>2. QED BY <1>5, <1>9, <2>1 DEF end_session, CommandTypes
<1>10. ASSUME clear_movement_lock \/ clear_roll_modifier PROVE Goal
  <2>1. /\ [db EXCEPT !.lock = NoLock].session = db.session
        /\ [db EXCEPT !.lock = NoLock].tasks = db.tasks
        /\ [db EXCEPT !.modifier = NoModifier].session = db.session
        /\ [db EXCEPT !.modifier = NoModifier].tasks = db.tasks
    BY <1>1 DEF SessionState
  <2>2. CASE clear_movement_lock
    BY <1>5, <2>1, <2>2 DEF clear_movement_lock, CommandTypes
  <2>3. CASE clear_roll_modifier
    BY <1>5, <2>1, <2>3 DEF clear_roll_modifier, CommandTypes
  <2>4. QED BY <1>10, <2>2, <2>3
<1>11. ASSUME NEW n \in Quantities, set_movement_lock_remaining(n) PROVE Goal
  <2> DEFINE d == [db EXCEPT !.lock.left = n]
  <2>1. d.session = db.session /\ d.tasks = db.tasks
    BY <1>1 DEF SessionState
  <2>2. QED BY <1>5, <1>11, <2>1 DEF set_movement_lock_remaining, CommandTypes
<1>12. ASSUME NEW b \in BoardIds, apply_board_version(b) PROVE Goal
  <2> DEFINE d == [db EXCEPT !.board = b]
  <2>1. d.session = db.session /\ d.tasks = db.tasks
    BY <1>1 DEF SessionState
  <2>2. QED BY <1>5, <1>12, <2>1 DEF apply_board_version, CommandTypes
<1>13. ASSUME resume PROVE Goal
  <2> DEFINE d == [db EXCEPT !.status = "running", !.auto = FALSE]
  <2>1. d \in SessionState /\ d.session = db.session /\ d.tasks = db.tasks
    BY <1>1 DEF SessionState, Statuses
  <2>2. Active
    BY <1>13 DEF resume
  <2>3. CASE HasTravel(db) /\ ~Locked(db) /\ HoldsTurn(db.tasks[k])
    <3>1. \E o \in applyTravelDecision(d, k, db.tasks[k], decideTravel(db.tasks[k], FALSE)) :
             Begin("resume", o)
      BY <1>13, <2>3 DEF resume
    <3> HIDE DEF d
    <3>2. Begins("resume")
      BY <1>2, <1>3, <2>1, <2>2, <2>3, <3>1, DecisionBegins
    <3>3. QED BY <3>2 DEF CommandTypes
  <2>4. CASE ~(HasTravel(db) /\ ~Locked(db) /\ HoldsTurn(db.tasks[k]))
    <3>1. Change("resume", d)
      BY <1>13, <2>4 DEF resume
    <3> HIDE DEF d
    <3>2. QED BY <1>5, <2>1, <2>2, <3>1 DEF CommandTypes
  <2>5. QED BY <2>3, <2>4
<1>14. ASSUME NEW c \in Cells, choose_destination(c) PROVE Goal
  <2> DEFINE r == [db.tasks[k] EXCEPT !.selected = c]
  <2>1. HasTravel(db) /\ Active
    BY <1>14 DEF choose_destination
  <2>2. r \in Task /\ r.kind = "choose_destination"
    BY <1>2, <2>1 DEF Task
  <2>3. \E o \in applyTravelDecision(db, k, r, decideTravel(r, HeldBack)) :
           Begin("choose_destination", o)
    BY <1>14 DEF choose_destination
  <2> HIDE DEF r
  <2>4. Begins("choose_destination")
    BY <1>1, <1>3, <2>1, <2>2, <2>3, DecisionBegins
  <2>5. QED BY <2>4 DEF CommandTypes
<1>15. ASSUME NEW c \in Cells, travel_now(c) PROVE Goal
  <2> DEFINE chosen == [db.tasks[k] EXCEPT !.selected = c]
             r == moveTravelNow(chosen, db.revision + 1)
  <2>1. HasTravel(db) /\ Active
    BY <1>15 DEF travel_now
  <2>2. chosen \in Task /\ chosen.kind = "choose_destination"
    BY <1>2, <2>1 DEF Task
  <2>3. db.revision + 1 \in Nat
    BY <1>1 DEF SessionState
  <2>4. r \in Task /\ r.kind = "choose_destination"
    BY <2>2, <2>3 DEF moveTravelNow, reserveTravelTurn, Task
  <2>5. \E o \in applyTravelDecision(db, k, r, decideTravel(r, FALSE)) :
           Begin("choose_destination", o)
    BY <1>15 DEF travel_now
  <2> HIDE DEF r, chosen
  <2>6. Begins("choose_destination")
    BY <1>1, <1>3, <2>1, <2>4, <2>5, DecisionBegins
  <2>7. QED BY <2>6 DEF CommandTypes
<1>16. ASSUME cancel_destination PROVE Goal
  <2> DEFINE r == [db.tasks[k] EXCEPT !.cancelled = TRUE]
  <2>1. HasTravel(db) /\ Active
    BY <1>16 DEF cancel_destination
  <2>2. r \in Task /\ r.kind = "choose_destination"
    BY <1>2, <2>1 DEF Task
  <2>3. \E o \in applyTravelDecision(db, k, r, decideTravel(r, HeldBack)) :
           Begin("cancel_destination", o)
    BY <1>16 DEF cancel_destination
  <2> HIDE DEF r
  <2>4. Begins("cancel_destination")
    BY <1>1, <1>3, <2>1, <2>2, <2>3, DecisionBegins
  <2>5. QED BY <2>4 DEF CommandTypes
<1>17. QED BY <1>4, <1>6, <1>7, <1>8, <1>9, <1>10, <1>11, <1>12, <1>13, <1>14, <1>15,
              <1>16 DEF MovementCommands

(* Every command about items, counters and missions.                       *)
LEMMA ResourceBegins ==
  ASSUME TypeOK, ResourceCommands
  PROVE  \E type \in CommandTypes \ {"donation"} : Begins(type)
<1> DEFINE Goal == \E type \in CommandTypes \ {"donation"} : Begins(type)
<1>1. db \in SessionState
  BY DEF TypeOK
<1>2. ASSUME NEW type \in CommandTypes \ {"donation"}, NEW d, Active,
             d.session = db.session, d.tasks = db.tasks, Change(type, d)
      PROVE  Goal
  BY <1>2, ChangeContinues DEF Active
<1>3. ASSUME NEW c \in Counters, NEW n \in Quantities, adjust_counter(c, n) PROVE Goal
  <2> DEFINE d == [db EXCEPT !.counters[c] = n, !.credited[c] = @ + n - db.counters[c]]
  <2>1. d.session = db.session /\ d.tasks = db.tasks
    BY <1>1 DEF SessionState
  <2>2. QED BY <1>2, <1>3, <2>1 DEF adjust_counter, CommandTypes
<1>4. ASSUME NEW i \in Items, NEW delta, adjust_inventory(i, delta) PROVE Goal
  BY <1>1, <1>2, <1>4, ResourceKeeps DEF adjust_inventory, CommandTypes
<1>5. ASSUME NEW m \in DOMAIN db.missions, complete_mission(m) \/ waive_mission(m)
      PROVE  Goal
  <2>1. \A status : /\ Resolved(db, m, status).session = db.session
                    /\ Resolved(db, m, status).tasks = db.tasks
    BY <1>1, ResourceKeeps
  <2>2. CASE complete_mission(m)
    BY <1>2, <2>1, <2>2 DEF complete_mission, Resolvable, CommandTypes
  <2>3. CASE waive_mission(m)
    BY <1>2, <2>1, <2>3 DEF waive_mission, Resolvable, CommandTypes
  <2>4. QED BY <1>5, <2>2, <2>3
<1>6. ASSUME NEW m \in DOMAIN db.missions, use_shield(m) PROVE Goal
  <2> DEFINE paid == Moved(db, db.missions[m].shield, 0 - db.missions[m].cost)
             e == Resolved(paid, m, "shielded")
  <2>1. paid.session = db.session /\ paid.tasks = db.tasks
    BY <1>1, ResourceKeeps
  <2>2. db.missions[m] \in Mission
    BY <1>1 DEF SessionState
  <2>3. /\ db.missions[m].shield \in Items /\ db.missions[m].cost \in Nat
        /\ db.stock[db.missions[m].shield].quantity >= db.missions[m].cost
    BY <1>6, <2>2 DEF use_shield, Mission, MissionRow
  <2>4. db.stock[db.missions[m].shield].quantity + (0 - db.missions[m].cost) >= 0
    BY <1>1, <2>3 DEF SessionState, Stock
  <2>5. paid \in SessionState
    BY <1>1, <2>3, <2>4, MovedType
  <2>6. e.session = paid.session /\ e.tasks = paid.tasks
    BY <2>5, ResourceKeeps
  <2>7. Change("use_shield", e) /\ Active
    BY <1>6 DEF use_shield, Resolvable
  <2> HIDE DEF paid, e
  <2>8. QED BY <1>2, <2>1, <2>6, <2>7 DEF CommandTypes
<1>7. QED BY <1>3, <1>4, <1>5, <1>6 DEF ResourceCommands

(* The commands for a donation's request settle what nobody has.           *)
LEMMA RequestCommandsBegin ==
  ASSUME DonationsInv, NEW k \in DOMAIN inbox
  PROVE  /\ \A c \in Cells : select_donation_destination(k, c) =>
              TypeOK' /\ Begins("choose_destination")
         /\ cancel_donation_destination(k) => TypeOK' /\ Begins("cancel_destination")
<1> DEFINE n == inbox[k].task
           r == db.tasks[n]
<1>1. TypeOK /\ db \in SessionState
  BY DEF DonationsInv, DonationsTypeOK, TypeOK
<1>2. Bound(k) /\ Asked(k) =>
        n \in DOMAIN db.tasks /\ r \in Task /\ r.kind = "donation_destination"
  BY RequestOf DEF Request
<1>3. ASSUME NEW t \in Task, NEW d, n \in DOMAIN db.tasks, TaskFollows(r, t),
             t.status # "resolved", d = [db EXCEPT !.tasks[n] = t]
      PROVE  d \in SessionState /\ Continues(db, d)
  <2>1. r = db.tasks[n]
    OBVIOUS
  <2> HIDE DEF r, n
  <2>2. /\ d \in SessionState /\ d.session = db.session /\ DOMAIN d.tasks = DOMAIN db.tasks
        /\ TasksFollow(db, d)
        /\ \A m \in DOMAIN db.tasks : IsResolved(d, m) => IsResolved(db, m)
    BY <1>1, <1>3, <2>1, TaskReplaced
  <2>3. QED BY <2>2 DEF Continues, Settled
<1>4. ASSUME NEW type \in CommandTypes, NEW d \in SessionState, Change(type, d), tx = Idle,
             Continues(db, d)
      PROVE  TypeOK' /\ Begins(type)
  <2>1. Outcome(d, <<>>, FALSE, "none").d = d
    BY DEF Outcome
  <2>2. QED BY <1>1, <1>4, <2>1, ChangeType, BeginContinues DEF Change
<1>5. ASSUME NEW c \in Cells, select_donation_destination(k, c)
      PROVE  TypeOK' /\ Begins("choose_destination")
  <2>1. /\ tx = Idle /\ Bound(k) /\ Asked(k) /\ r.status = "pending" /\ r.selected = NoCell
        /\ Change("choose_destination", [db EXCEPT !.tasks[n] = Selected(r, c)])
    BY <1>5 DEF select_donation_destination, Active, Request, Unselected
  <2>2. n \in DOMAIN db.tasks /\ r \in Task
    BY <1>2, <2>1
  <2> DEFINE t == Selected(r, c)
             d == [db EXCEPT !.tasks[n] = t]
  <2> HIDE DEF r
  <2>3. t \in Task /\ TaskFollows(r, t) /\ t.status # "resolved"
    BY <2>1, <2>2, SelectedFollows
  <2> HIDE DEF t
  <2>4. d \in SessionState /\ Continues(db, d)
    BY <1>3, <2>2, <2>3
  <2>5. Change("choose_destination", d)
    BY <2>1 DEF t
  <2> HIDE DEF d
  <2>6. QED BY <1>4, <2>1, <2>4, <2>5 DEF CommandTypes
<1>6. ASSUME cancel_donation_destination(k) PROVE TypeOK' /\ Begins("cancel_destination")
  <2> DEFINE t == [r EXCEPT !.status = "cancelled", !.revision = @ + 1]
             d == [db EXCEPT !.tasks[n] = t]
  <2>1. /\ tx = Idle /\ Bound(k) /\ Asked(k) /\ r.status = "pending"
        /\ Change("cancel_destination", d)
    BY <1>6 DEF cancel_donation_destination, Active, Request, Closed
  <2>2. n \in DOMAIN db.tasks /\ r \in Task
    BY <1>2, <2>1
  <2>3. t \in Task /\ TaskFollows(r, t) /\ t.status # "resolved"
    <3>1. r \in Task /\ r.revision + 1 \in Nat
      BY <2>2 DEF Task
    <3> HIDE DEF r
    <3>2. t \in Task /\ t.status = "cancelled" /\ t.kind = r.kind /\ t.selected = r.selected
      BY <3>1 DEF Task
    <3>3. QED BY <2>1, <3>2 DEF TaskFollows
  <2> HIDE DEF t
  <2>4. d \in SessionState /\ Continues(db, d)
    BY <1>3, <2>2, <2>3
  <2> HIDE DEF d
  <2>5. QED BY <1>4, <2>1, <2>4 DEF CommandTypes
<1>7. QED BY <1>5, <1>6

(* A command begins only when no donation is being executed.               *)
LEMMA CommandTrue == DonationsInv /\ OperatorCommand => DonationsInv'
<1> SUFFICES ASSUME DonationsInv, OperatorCommand PROVE DonationsInv'
  OBVIOUS
<1>1. TypeOK /\ DonationsTypeOK
  BY DEF DonationsInv, DonationsTypeOK, TypeOK
<1>2. TypeOK' /\ \E type : Begins(type)
  <2>1. CASE MovementCommands
    BY <1>1, <2>1, MovementBegins, MovementCommandsType
  <2>2. CASE ResourceCommands
    BY <1>1, <2>2, ResourceBegins, ResourceCommandsType
  <2>3. CASE \E k \in DOMAIN inbox :
               cancel_donation_destination(k)
                 \/ \E c \in Cells : select_donation_destination(k, c)
    BY <2>3, RequestCommandsBegin
  <2>4. QED BY <2>1, <2>2, <2>3 DEF OperatorCommand
<1>3. /\ tx = Idle /\ db' = db /\ tx'.travels = <<>> /\ Continues(db, tx'.d)
  BY <1>2 DEF Begins
<1>4. UNCHANGED <<intake, polls>>
  BY DEF OperatorCommand
<1>5. DonationsTypeOK'
  BY <1>1, <1>2, <1>4 DEF TypeOK, DonationsTypeOK, intake, polls
<1>6. SameRows
  BY <1>4 DEF SameRows, intake
<1>7. RowsTrue' /\ RequestsOwned'
  <2>1. db.session \in Nat
    BY <1>1 DEF DonationsTypeOK, SessionState
  <2>2. RowsTrue'
    BY <1>3, <1>4, <1>6, <2>1, RowsStay DEF intake
  <2>3. QED BY <1>3, <1>6, <2>2, FollowsItself, OwnedStay
<1>8. DrainsTrue'
  <2>1. \A p \in Drainers : ~Executor(p)' /\ drains'[p] = drains[p]
    BY <1>3, <1>4, NobodyExecutes DEF Executor, polls
  <2>2. QED BY <1>4, <2>1 DEF DonationsInv, DrainsTrue, Executor, intake
<1>9. CopyTrue'
  BY <1>3 DEF CopyTrue, Continues
<1>10. QED BY <1>5, <1>7, <1>8, <1>9 DEF DonationsInv

(* ------------------------- Effects and commits --------------------------- *)
LEMMA EffectsTrue == DonationsInv /\ Effects /\ UNCHANGED <<intake, polls>> => DonationsInv'
<1> SUFFICES ASSUME DonationsInv, Effects, UNCHANGED <<intake, polls>> PROVE DonationsInv'
  OBVIOUS
<1>1. TypeOK /\ DonationsTypeOK
  BY DEF DonationsInv, DonationsTypeOK, TypeOK
<1>2. TypeOK' /\ tx # Idle /\ tx.todo # <<>> /\ tx' # Idle /\ db' = db /\ tx'.type = tx.type
  BY <1>1, EffectsType, EffectsKeep
<1>3. /\ tx'.d.session = tx.d.session /\ tx'.d.tasks = tx.d.tasks
      /\ \/ tx'.travels = tx.travels
         \/ Len(tx'.travels) = 1 /\ tx'.travels[1].kind = "choose_destination"
  BY <1>1, EffectsKeep DEF SameTurn
<1>4. DonationsTypeOK' /\ SameRows
  BY <1>1, <1>2 DEF TypeOK, DonationsTypeOK, SameRows, intake, polls
<1>5. RowsTrue' /\ RequestsOwned'
  <2>1. db.session \in Nat
    BY <1>1 DEF DonationsTypeOK, SessionState
  <2>2. RowsTrue'
    BY <1>2, <1>4, <2>1, RowsStay DEF intake
  <2>3. QED BY <1>2, <1>4, <2>2, FollowsItself, OwnedStay
<1>6. \A q \in Drainers : /\ Executor(q)' = Executor(q) /\ Row(q)' = Row(q)
                          /\ Asked(Row(q))' = Asked(Row(q))
  BY DEF Executor, Row, Asked, intake, polls
<1>7. DrainsTrue'
  <2>1. ASSUME NEW q \in Drainers, Executor(q)
        PROVE  /\ Pending(Row(q))' /\ Bound(Row(q))' /\ tx'.type = "donation" /\ ~Asks(Row(q))'
               /\ Asked(Row(q))' => Request(Row(q))'.status = "pending"
    BY <1>2, <1>6, <2>1
       DEF DonationsInv, DrainsTrue, Pending, Bound, Asks, Asked, Request, Row, intake, polls
  <2>2. QED BY <1>6, <2>1 DEF DonationsInv, DrainsTrue, intake, polls
<1>8. CopyTrue'
  <2>1. /\ tx.d.session = db.session /\ TasksFollow(db, tx.d)
        /\ \A n \in DOMAIN tx.travels : tx.travels[n].kind = "choose_destination"
        /\ \A n \in Settled(db, tx.d) :
             \E q \in Drainers : Executor(q) /\ Asked(Row(q)) /\ n = inbox[Row(q)].task
    BY <1>2 DEF DonationsInv, CopyTrue
  <2>2. \A n \in DOMAIN tx'.travels : tx'.travels[n].kind = "choose_destination"
    <3>1. tx' \in Transaction
      BY <1>2 DEF TypeOK
    <3>2. tx'.travels \in Seq(Task)
      BY <3>1 DEF Transaction
    <3>3. QED BY <1>3, <2>1, <3>2
  <2>3. Settled(db', tx'.d) = Settled(db, tx.d) /\ TasksFollow(db', tx'.d)
    BY <1>2, <1>3, <2>1 DEF Settled, IsResolved, TasksFollow, TaskFollows
  <2>4. \A n \in Settled(db, tx.d) :
          \E q \in Drainers : Executor(q)' /\ Asked(Row(q))' /\ n = inbox'[Row(q)'].task
    BY <1>6, <2>1 DEF intake
  <2>5. QED BY <1>2, <1>3, <2>1, <2>2, <2>3, <2>4 DEF CopyTrue
<1>9. QED BY <1>4, <1>5, <1>7, <1>8 DEF DonationsInv

(* What is committed: the working copy, and the reservations it has made.   *)
Extends(d, e, travels) == e.tasks = d.tasks \o travels
OnlyTravels(travels) == \A n \in DOMAIN travels : travels[n].kind = "choose_destination"
SameResolved(d, e) == \A n : IsResolved(e, n) <=> IsResolved(d, n)
SameTasks(d, e) == \A n \in DOMAIN d.tasks : n \in DOMAIN e.tasks /\ e.tasks[n] = d.tasks[n]

(* Reservations that are appended are no requests of donations.            *)
LEMMA ExtendedFollows ==
  ASSUME NEW c, NEW d \in SessionState, NEW travels \in Seq(Task), NEW e,
         Extends(d, e, travels), TasksFollow(c, d), OnlyTravels(travels)
  PROVE  TasksFollow(c, e) /\ SameResolved(d, e) /\ SameTasks(d, e)
<1>1. d.tasks \in Seq(Task) /\ e.tasks = d.tasks \o travels
  BY DEF SessionState, Extends
<1>2. \A n \in DOMAIN d.tasks : n \in DOMAIN e.tasks /\ e.tasks[n] = d.tasks[n]
  BY <1>1
<1>3. \A n \in DOMAIN e.tasks \ DOMAIN d.tasks : e.tasks[n].kind = "choose_destination"
  <2> TAKE n \in DOMAIN e.tasks \ DOMAIN d.tasks
  <2>1. n - Len(d.tasks) \in DOMAIN travels /\ e.tasks[n] = travels[n - Len(d.tasks)]
    BY <1>1
  <2>2. QED BY <2>1 DEF OnlyTravels
<1>4. TasksFollow(c, e)
  BY <1>2 DEF TasksFollow
<1>5. SameResolved(d, e)
  BY <1>2, <1>3 DEF IsResolved, SameResolved
<1>6. QED BY <1>2, <1>4, <1>5 DEF SameTasks

(* The effects and the end of a transaction that is no donation's.         *)
LEMMA WorkTrue == DonationsInv /\ CommandWork => DonationsInv' /\ TasksMove
<1> SUFFICES ASSUME DonationsInv, CommandWork PROVE DonationsInv' /\ TasksMove
  OBVIOUS
<1>1. TypeOK /\ paced \in BOOLEAN
  BY DEF DonationsInv, DonationsTypeOK, TypeOK
<1>2. tx.type # "donation" => \A q \in Drainers : ~Executor(q)
  BY DEF DonationsInv, DrainsTrue
<1>3. ASSUME CommitCommand PROVE DonationsInv' /\ TasksMove
  <2>1. /\ Commit /\ tx # Idle /\ tx.type # "donation" /\ tx' = Idle /\ paced' \in BOOLEAN
        /\ UNCHANGED <<inbox, chats, arriving, log, polls>>
    <3>1. tx \in Transaction
      BY <1>1, <1>3 DEF CommitCommand, Commit, Finished, TypeOK
    <3>2. tx.movement \in BOOLEAN
      BY <3>1 DEF Transaction
    <3>3. QED BY <1>1, <1>3, <3>2 DEF CommitCommand, Commit, Finished
  <2>2. tx \in Transaction
    BY <1>1, <2>1 DEF TypeOK
  <2>3. tx.d \in SessionState /\ tx.travels \in Seq(Task)
    BY <2>2 DEF Transaction
  <2>4. db'.session = tx.d.session /\ db'.tasks = tx.d.tasks \o tx.travels
    BY <2>1, <2>3 DEF Commit, SessionState
  <2>5. /\ tx.d.session = db.session /\ TasksFollow(db, tx.d) /\ Settled(db, tx.d) = {}
        /\ \A n \in DOMAIN tx.travels : tx.travels[n].kind = "choose_destination"
    BY <1>2, <2>1 DEF DonationsInv, CopyTrue
  <2>6. /\ TasksFollow(db, db')
        /\ \A n \in DOMAIN db.tasks : IsResolved(db', n) => IsResolved(db, n)
    <3>1. Extends(tx.d, db', tx.travels) /\ OnlyTravels(tx.travels)
      BY <2>4, <2>5 DEF Extends, OnlyTravels
    <3>3. TasksFollow(db, db') /\ SameResolved(tx.d, db')
      BY <2>3, <2>5, <3>1, ExtendedFollows
    <3>2. \A n \in DOMAIN db.tasks : n \in DOMAIN tx.d.tasks
      BY <2>5 DEF TasksFollow
    <3>4. QED BY <2>5, <3>2, <3>3 DEF Settled, SameResolved
  <2>7. TypeOK'
    BY <1>1, <2>1, OtherStepsType
  <2>8. QED BY <1>2, <2>1, <2>4, <2>5, <2>6, <2>7, SessionRests DEF TasksMove
<1>4. ASSUME Rollback, tx.type # "donation", UNCHANGED <<intake, polls>>
      PROVE  DonationsInv' /\ TasksMove
  <2>1. TypeOK'
    BY <1>1, <1>4, OtherStepsType
  <2>2. tx' = Idle /\ db' = db
    BY <1>4 DEF Rollback
  <2>3. QED BY <1>1, <1>2, <1>4, <2>1, <2>2, FollowsItself, SessionRests
           DEF intake, TasksMove
<1>5. ASSUME Effects, UNCHANGED <<intake, polls>> PROVE DonationsInv' /\ TasksMove
  <2>1. db' = db
    BY <1>1, <1>5, EffectsKeep
  <2>2. QED BY <1>5, <2>1, EffectsTrue, FollowsItself DEF TasksMove
<1>6. QED BY <1>3, <1>4, <1>5 DEF CommandWork

(* --------------------------- A donation's command ------------------------ *)
(* What the step of donation k may begin with.                             *)
StepOutcome(k, o) ==
  /\ o \in OutcomeType /\ o.d.session = db.session /\ TasksFollow(db, o.d)
  /\ \A n \in Settled(db, o.d) : Asked(k) /\ n = inbox[k].task
  /\ Asks(k) => o.todo = <<>> /\ o.d = [db EXCEPT !.tasks = Append(@, NewRequest)]

(* A new request is open and has no destination.                           *)
LEMMA NewRequestType ==
  /\ NewRequest \in Task /\ NewRequest.kind = "donation_destination"
  /\ NewRequest.status = "pending" /\ NewRequest.selected = NoCell
<1>1. NoTurn \in Nat
  BY DEF NoTurn
<1>2. QED BY <1>1 DEF NewRequest, Task

(* A change that leaves the tasks alone.                                   *)
LEMMA PlainStep ==
  ASSUME NEW k, ~Asks(k), NEW o \in OutcomeType, Continues(db, o.d)
  PROVE  StepOutcome(k, o)
BY DEF StepOutcome, Continues

(* A change of a donation that leaves the tasks alone.                     *)
LEMMA PlainChange ==
  ASSUME NEW k, ~Asks(k), NEW d \in SessionState, d.session = db.session,
         d.tasks = db.tasks
  PROVE  StepOutcome(k, Outcome(d, <<>>, FALSE, "none"))
<1>1. Outcome(d, <<>>, FALSE, "none") \in OutcomeType
  BY DEF Outcome, OutcomeType, TravelStatuses
<1>2. Outcome(d, <<>>, FALSE, "none").d = d
  BY DEF Outcome
<1>3. Continues(db, d)
  BY SameContinues
<1>4. QED BY <1>1, <1>2, <1>3, PlainStep

(* A request that is made is one task more, and settles nothing.           *)
LEMMA AskStep ==
  ASSUME NEW k, db \in SessionState, NEW d,
         d = [db EXCEPT !.tasks = Append(@, NewRequest)]
  PROVE  /\ d \in SessionState /\ d.session = db.session /\ d.status = db.status
         /\ d.tasks = Append(db.tasks, NewRequest)
         /\ StepOutcome(k, Outcome(d, <<>>, FALSE, "none"))
<1>1. db.tasks \in Seq(Task)
  BY DEF SessionState
<1>2. Append(db.tasks, NewRequest) \in Seq(Task)
  BY <1>1, NewRequestType
<1>3. /\ d \in SessionState /\ d.session = db.session /\ d.status = db.status
      /\ d.tasks = Append(db.tasks, NewRequest)
  BY <1>2 DEF SessionState
<1>4. /\ DOMAIN d.tasks = DOMAIN db.tasks \cup {Len(db.tasks) + 1}
      /\ \A n \in DOMAIN db.tasks : d.tasks[n] = db.tasks[n]
      /\ d.tasks[Len(db.tasks) + 1] = NewRequest
  BY <1>1, <1>3, NewRequestType
<1>5. TasksFollow(db, d) /\ Settled(db, d) = {}
  BY <1>4, NewRequestType DEF TasksFollow, TaskFollows, Settled, IsResolved
<1> DEFINE o == Outcome(d, <<>>, FALSE, "none")
<1>6. o \in OutcomeType /\ o.d = d /\ o.todo = <<>>
  BY <1>3 DEF Outcome, OutcomeType, TravelStatuses
<1>7. QED BY <1>3, <1>5, <1>6 DEF StepOutcome

(* A request that is answered is resolved, and no other.                   *)
LEMMA AnsweredStep ==
  ASSUME DonationsInv, NEW k \in DOMAIN inbox, Executable(k), Asked(k)
  PROVE  StepOutcome(k, Answered(k))
<1> DEFINE n == inbox[k].task
           r == Request(k)
           c == Closed(db, n, r, "resolved")
           d == [c EXCEPT !.cell = r.selected]
<1>1. db \in SessionState /\ Pending(k) /\ Bound(k) /\ ~Over(k) /\ ~Waits(k)
  BY DEF DonationsInv, DonationsTypeOK, Executable
<1>2. /\ n \in DOMAIN db.tasks /\ r \in Task /\ r = db.tasks[n]
      /\ r.kind = "donation_destination" /\ r.status # "resolved"
  BY <1>1, RequestOf DEF Request
<1>3. r.status = "pending" /\ r.selected # NoCell /\ r.selected \in Cells
  BY <1>1, <1>2 DEF Over, Waits, Unselected, Task
<1> HIDE DEF n, r
<1>4. /\ c \in SessionState /\ c.session = db.session /\ DOMAIN c.tasks = DOMAIN db.tasks
      /\ \A j \in DOMAIN db.tasks \ {n} : c.tasks[j] = db.tasks[j]
      /\ c.tasks[n].kind = r.kind /\ c.tasks[n].selected = r.selected
  BY <1>1, <1>2, ClosedType, ClosedKeeps DEF Keeps
<1> HIDE DEF c
<1>5. d \in SessionState /\ d.session = db.session /\ d.tasks = c.tasks
  BY <1>3, <1>4 DEF SessionState
<1> HIDE DEF d
<1>6. TasksFollow(db, d)
  BY <1>2, <1>3, <1>4, <1>5 DEF TasksFollow, TaskFollows
<1>7. \A j \in Settled(db, d) : j = n
  BY <1>4, <1>5 DEF Settled, IsResolved
<1>8. ArrivalAt(r.selected) \in Seq(Visit)
  BY <1>3, ArrivalType
<1>9. Answered(k) = Outcome(d, ArrivalAt(r.selected), TRUE, "none")
  BY DEF Answered, d, c, n, r
<1>10. Answered(k) \in OutcomeType /\ Answered(k).d = d
  BY <1>5, <1>8, <1>9 DEF Outcome, OutcomeType, TravelStatuses
<1>11. ~Asks(k)
  BY DEF Asks, Asked
<1>12. QED BY <1>5, <1>6, <1>7, <1>10, <1>11 DEF StepOutcome, n

(* Whatever a donation's rule asks for.                                    *)
LEMMA StepOutcomes ==
  ASSUME DonationsInv, NEW k \in DOMAIN inbox, Executable(k),
         NEW o \in executeAction(k)
  PROVE  StepOutcome(k, o)
<1> DEFINE a == inbox[k].action
<1>1. inbox \in Seq(Donation) /\ db \in SessionState
  BY DEF DonationsInv, DonationsTypeOK
<1>2. a \in Action
  <2>1. inbox[k] \in Donation
    BY <1>1
  <2>2. a \in DonationActions
    BY <2>1 DEF Donation
  <2>3. QED BY <2>2, StepsType
<1>3. CASE a.type = "roll_dice"
  <2>1. o \in executeRollTurn(db) /\ ~Asks(k)
    BY <1>3 DEF executeAction, Asks
  <2>2. QED BY <1>1, <2>1, RollTurnType, RollContinues, PlainStep
<1>4. CASE a.type = "mission"
  <2> DEFINE m == NewMission(a.shield, a.cost, NoCounter, 0, "never")
             d == [db EXCEPT !.missions = Append(@, m)]
  <2>1. o = Outcome(d, <<>>, FALSE, "none") /\ ~Asks(k)
    BY <1>4 DEF executeAction, Asks
  <2>2. a.shield \in Items \cup {NoItem} /\ a.cost \in Nat
    BY <1>2, <1>4 DEF Action
  <2>3. m \in Mission
    BY <2>2, NewMissionType
  <2> HIDE DEF m
  <2>4. Append(db.missions, m) \in Seq(Mission)
    BY <1>1, <2>3 DEF SessionState
  <2>5. d \in SessionState /\ d.session = db.session /\ d.tasks = db.tasks
    BY <1>1, <2>4 DEF SessionState
  <2> HIDE DEF d
  <2>6. QED BY <2>1, <2>5, PlainChange
<1>5. CASE a.type = "grant_item"
  <2> DEFINE d == Moved(db, a.item, a.quantity)
  <2>1. o = Outcome(d, <<>>, FALSE, "none") /\ ~Asks(k)
    BY <1>5 DEF executeAction, Asks
  <2>2. a.item \in Items /\ a.quantity \in Nat
    BY <1>2, <1>5 DEF Action
  <2>3. db.stock[a.item].quantity \in Nat
    BY <1>1, <2>2 DEF SessionState, Stock
  <2>4. a.quantity \in Int /\ db.stock[a.item].quantity + a.quantity >= 0
    BY <2>2, <2>3
  <2>5. d \in SessionState
    BY <1>1, <2>2, <2>4, MovedType
  <2>6. d.session = db.session /\ d.tasks = db.tasks
    BY <1>1, ResourceKeeps
  <2> HIDE DEF d
  <2>7. QED BY <2>1, <2>5, <2>6, PlainChange
<1>6. CASE a.type = "choose_destination" /\ Asked(k)
  <2>1. o = Answered(k)
    BY <1>6 DEF executeAction
  <2>2. QED BY <1>6, <2>1, AnsweredStep
<1>7. CASE a.type = "choose_destination" /\ ~Asked(k)
  <2> DEFINE d == [db EXCEPT !.tasks = Append(@, NewRequest)]
  <2>1. o = Outcome(d, <<>>, FALSE, "none")
    BY <1>7 DEF executeAction
  <2> HIDE DEF d
  <2>2. d = [db EXCEPT !.tasks = Append(@, NewRequest)]
    BY DEF d
  <2>3. QED BY <1>1, <2>1, <2>2, AskStep
<1>8. QED BY <1>2, <1>3, <1>4, <1>5, <1>6, <1>7 DEF Action

(* The donation's transaction begins, and it is the only one.              *)
LEMMA ExecuteTrue ==
  ASSUME DonationsInv, NEW p \in Drainers, Execute(p)
  PROVE  DonationsInv'
<1> DEFINE k == Row(p)
<1>1. /\ drains[p].stage = "process" /\ drains[p].left # {} /\ tx = Idle /\ Executable(k)
      /\ To(p, "execute", drains[p].left) /\ UNCHANGED <<intake, guard, faults>>
  BY DEF Execute, Processing
<1>2. PICK o \in executeAction(k) : Begin("donation", o)
  BY DEF Execute
<1>3. k \in DOMAIN inbox /\ DonationsTypeOK /\ TypeOK
  BY <1>1, RowOf DEF DonationsInv, DonationsTypeOK, TypeOK
<1>4. StepOutcome(k, o)
  BY <1>1, <1>2, <1>3, StepOutcomes
<1>5. /\ db' = db /\ tx' # Idle /\ tx'.type = "donation" /\ tx'.d = o.d
      /\ tx'.travels = <<>> /\ tx'.todo = o.todo
  BY <1>2 DEF Begin, Idle
<1>6. TypeOK'
  BY <1>2, <1>3, <1>4, BeginType DEF StepOutcome, CommandTypes
<1>7. /\ drains' \in [Drainers -> Drain]
      /\ drains'[p].stage = "execute" /\ drains'[p].left = drains[p].left
      /\ \A q \in Drainers \ {p} : drains'[q] = drains[q]
  <2>1. drains[p].left \in SUBSET (1 .. MaxDonations)
    BY <1>3 DEF DonationsTypeOK, Drain
  <2>2. QED BY <1>1, <2>1, DrainMoves DEF Stages
<1>8. DonationsTypeOK'
  BY <1>1, <1>3, <1>6, <1>7 DEF TypeOK, DonationsTypeOK, intake
<1>9. SameRows
  BY <1>1 DEF SameRows, intake
<1>10. RowsTrue' /\ RequestsOwned'
  <2>1. db.session \in Nat
    BY <1>3 DEF DonationsTypeOK, SessionState
  <2>2. RowsTrue'
    BY <1>1, <1>5, <1>9, <2>1, RowsStay DEF intake
  <2>3. QED BY <1>5, <1>9, <2>2, FollowsItself, OwnedStay
<1>11. /\ \A q \in Drainers : Executor(q)' <=> q = p
       /\ \A q \in Drainers : Row(q)' = Row(q)
       /\ \A j : Pending(j)' = Pending(j) /\ Bound(j)' = Bound(j)
                 /\ Asks(j)' = Asks(j) /\ Asked(j)' = Asked(j)
  <2>1. \A q \in Drainers : Executor(q)' <=> q = p
    BY <1>1, <1>7, NobodyExecutes DEF Executor
  <2>2. \A q \in Drainers : drains'[q].left = drains[q].left
    BY <1>7
  <2>3. QED BY <1>1, <1>5, <2>1, <2>2 DEF Row, Pending, Bound, Asks, Asked, intake
<1>12. DrainsTrue'
  <2>1. Pending(k) /\ Bound(k)
    BY <1>1 DEF Executable
  <2>2. Asks(k) => tx'.todo = <<>> /\ tx'.d = [db EXCEPT !.tasks = Append(@, NewRequest)]
    BY <1>4, <1>5 DEF StepOutcome
  <2>3. Asked(k) => Request(k)'.status = "pending"
    <3>1. Asked(k) => Request(k).status # "cancelled" /\ Pending(k) /\ Bound(k)
      BY <1>1 DEF Executable, Over
    <3>2. Asked(k) => Request(k) \in Task /\ Request(k).status # "resolved"
      BY <1>3, <3>1, RequestOf
    <3>3. Asked(k) => Request(k).status = "pending"
      BY <3>1, <3>2 DEF Task
    <3>4. Row(p)' = Row(p) /\ inbox' = inbox /\ db' = db
      BY <1>1, <1>5, <1>11 DEF intake
    <3>5. Request(k)' = Request(k)
      BY <3>4 DEF Request
    <3>6. QED BY <3>3, <3>5
  <2>4. ASSUME NEW q \in Drainers, Executor(q)'
        PROVE  /\ Pending(Row(q))' /\ Bound(Row(q))' /\ tx'.type = "donation"
               /\ Asked(Row(q))' => Request(Row(q))'.status = "pending"
               /\ Asks(Row(q))' =>
                    /\ tx'.todo = <<>> /\ tx'.travels = <<>>
                    /\ tx'.d = [db' EXCEPT !.tasks = Append(@, NewRequest)]
    BY <1>5, <1>11, <2>1, <2>2, <2>3, <2>4
  <2>5. \A q \in Drainers : /\ drains'[q].left \subseteq DOMAIN inbox'
                            /\ drains'[q].stage \in {"execute", "fail"} => drains'[q].left # {}
    BY <1>1, <1>7 DEF DonationsInv, DrainsTrue, intake
  <2>6. QED BY <1>11, <2>4, <2>5 DEF DrainsTrue
<1>13. CopyTrue'
  <2>1. tx'.d.session = db'.session /\ TasksFollow(db', tx'.d)
    BY <1>4, <1>5 DEF StepOutcome
  <2>2. ASSUME NEW n \in Settled(db', tx'.d)
        PROVE  Executor(p)' /\ Asked(Row(p))' /\ n = inbox'[Row(p)'].task
    <3>1. Asked(k) /\ n = inbox[k].task
      BY <1>4, <1>5, <2>2 DEF StepOutcome
    <3>2. QED BY <1>1, <1>11, <3>1 DEF intake
  <2>3. QED BY <1>5, <2>1, <2>2 DEF CopyTrue
<1>14. QED BY <1>8, <1>10, <1>12, <1>13 DEF DonationsInv

(* --------------------------- A donation's commit ------------------------- *)
LEMMA FollowsOn ==
  ASSUME NEW c, NEW d, NEW e, TasksFollow(c, d), TasksFollow(d, e)
  PROVE  TasksFollow(c, e)
BY DEF TasksFollow, TaskFollows

(* What is committed of the tasks, before the reservations.                *)
Committing(k) == IF Asks(k) THEN AskedOf(k, tx.d) ELSE tx.d

(* The transaction of the donation that drain p executes.                  *)
LEMMA ExecutorOf ==
  ASSUME DonationsInv, NEW p \in Drainers, Executor(p), tx # Idle
  PROVE  /\ Row(p) \in DOMAIN inbox /\ Pending(Row(p)) /\ Bound(Row(p))
         /\ tx \in Transaction /\ tx.d \in SessionState /\ tx.travels \in Seq(Task)
         /\ tx.d.session = db.session /\ TasksFollow(db, tx.d) /\ OnlyTravels(tx.travels)
         /\ \A n \in Settled(db, tx.d) : Asked(Row(p)) /\ n = inbox[Row(p)].task
         /\ \A q \in Drainers : Executor(q) => q = p
<1>1. drains[p].left # {}
  BY DEF DonationsInv, DrainsTrue, Executor
<1>2. Row(p) \in DOMAIN inbox /\ Pending(Row(p)) /\ Bound(Row(p))
  BY <1>1, RowOf DEF DonationsInv, DrainsTrue
<1>3. tx \in Transaction
  BY DEF DonationsInv, DonationsTypeOK
<1>4. tx.d \in SessionState /\ tx.travels \in Seq(Task)
  BY <1>3 DEF Transaction
<1>5. \A q \in Drainers : Executor(q) => q = p
  BY DEF DonationsInv, DrainsTrue
<1>6. QED BY <1>2, <1>3, <1>4, <1>5 DEF DonationsInv, CopyTrue, OnlyTravels

(* A request is one task more, chosen already if the chat named its cell.  *)
LEMMA CommittingAsk ==
  ASSUME DonationsInv, NEW p \in Drainers, Executor(p), tx # Idle, Asks(Row(p)),
         NEW d, d = Committing(Row(p))
  PROVE  /\ d \in SessionState /\ d.session = db.session /\ TasksFollow(db, d)
         /\ Settled(db, d) = {} /\ tx.travels = <<>>
         /\ Len(tx.d.tasks) \in DOMAIN d.tasks \ DOMAIN db.tasks
         /\ d.tasks[Len(tx.d.tasks)].kind = "donation_destination"
         /\ ~IsResolved(d, Len(tx.d.tasks))
<1> DEFINE k == Row(p)
           n == Len(tx.d.tasks)
           r == tx.d.tasks[n]
<1>1. /\ k \in DOMAIN inbox /\ db \in SessionState /\ chats \in Seq(Chat)
      /\ tx.d = [db EXCEPT !.tasks = Append(@, NewRequest)] /\ tx.travels = <<>>
  BY ExecutorOf DEF DonationsInv, DonationsTypeOK, DrainsTrue
<1>2. PICK copy : copy = tx.d
  OBVIOUS
<1>3. copy = [db EXCEPT !.tasks = Append(@, NewRequest)]
  BY <1>1, <1>2
<1>4. /\ copy \in SessionState /\ copy.session = db.session
      /\ copy.tasks = Append(db.tasks, NewRequest)
  BY <1>1, <1>3, AskStep
<1>5. /\ tx.d \in SessionState /\ tx.d.session = db.session
      /\ tx.d.tasks = Append(db.tasks, NewRequest)
  BY <1>2, <1>4
<1>6. /\ n = Len(db.tasks) + 1 /\ n \in DOMAIN tx.d.tasks \ DOMAIN db.tasks /\ r = NewRequest
  <2>1. db.tasks \in Seq(Task)
    BY <1>1 DEF SessionState
  <2>2. QED BY <1>5, <2>1, NewRequestType
<1>7. TasksFollow(db, tx.d) /\ Settled(db, tx.d) = {}
  <2>1. ~Asked(k)
    BY DEF Asks, Asked
  <2>2. QED BY <2>1, ExecutorOf
<1>8. d = AskedOf(k, tx.d)
  BY DEF Committing
<1>9. CASE Earlier(k) = {}
  <2>1. d = tx.d
    BY <1>8, <1>9 DEF AskedOf
  <2>2. QED BY <1>1, <1>5, <1>6, <1>7, <2>1, NewRequestType DEF IsResolved
<1>10. CASE Earlier(k) # {}
  <2> DEFINE cell == chats[Earliest(Earlier(k))].cell
             t == Selected(r, cell)
  <2>1. Earlier(k) \subseteq DOMAIN chats /\ DOMAIN chats \subseteq Nat
    BY <1>1 DEF Earlier
  <2>2. Earliest(Earlier(k)) \in DOMAIN chats
    BY <1>10, <2>1, EarliestOf
  <2>3. cell \in Cells
    <3>1. chats[Earliest(Earlier(k))] \in Chat
      BY <1>1, <2>2
    <3>2. QED BY <3>1 DEF Chat
  <2>4. d = [tx.d EXCEPT !.tasks[n] = t]
    BY <1>8, <1>10 DEF AskedOf
  <2> HIDE DEF cell
  <2>5. /\ t \in Task /\ TaskFollows(r, t) /\ t.status = "pending" /\ t.kind = r.kind
        /\ r = tx.d.tasks[n]
    BY <1>6, <2>3, NewRequestType, SelectedFollows
  <2> HIDE DEF t, r, n
  <2>6. /\ d \in SessionState /\ d.session = tx.d.session /\ DOMAIN d.tasks = DOMAIN tx.d.tasks
        /\ TasksFollow(tx.d, d)
        /\ \A m \in DOMAIN tx.d.tasks : IsResolved(d, m) => IsResolved(tx.d, m)
    <3>1. copy \in SessionState /\ n \in DOMAIN copy.tasks /\ r = copy.tasks[n]
      BY <1>2, <1>4, <1>6, <2>5
    <3>2. TaskFollows(copy.tasks[n], t) /\ ~(t.status = "resolved")
      BY <2>5, <3>1
    <3>3. d = [copy EXCEPT !.tasks[n] = t]
      BY <1>2, <2>4
    <3>4. /\ d \in SessionState /\ d.session = copy.session
          /\ DOMAIN d.tasks = DOMAIN copy.tasks /\ TasksFollow(copy, d)
          /\ \A m \in DOMAIN copy.tasks : IsResolved(d, m) => IsResolved(copy, m)
      BY <2>5, <3>1, <3>2, <3>3, TaskReplaced
    <3>5. QED BY <1>2, <3>4
  <2>7. TasksFollow(db, d)
    BY <1>7, <2>6, FollowsOn
  <2>8. Settled(db, d) = {}
    BY <1>7, <2>6 DEF Settled
  <2>9. d.tasks[n].kind = "donation_destination"
    BY <1>6, <2>6, NewRequestType DEF TasksFollow, TaskFollows, r
  <2>10. ~IsResolved(d, n)
    BY <1>6, <2>6, NewRequestType DEF IsResolved, r
  <2>11. QED BY <1>1, <1>5, <1>6, <2>6, <2>7, <2>8, <2>9, <2>10 DEF n
<1>11. QED BY <1>9, <1>10

(* The rows after a commit: one is advanced.                               *)
RowAdvanced(k) ==
  /\ DOMAIN inbox' = DOMAIN inbox
  /\ \A j \in DOMAIN inbox :
       /\ inbox'[j].session = inbox[j].session /\ inbox'[j].action = inbox[j].action
       /\ j # k => /\ inbox'[j].progress = inbox[j].progress
                   /\ inbox'[j].task = inbox[j].task
                   /\ inbox'[j].disposition = inbox[j].disposition
  /\ inbox'[k].progress = inbox[k].progress + 1
  /\ inbox'[k].task = IF Asks(k) THEN Len(tx.d.tasks) ELSE inbox[k].task
  /\ inbox'[k].disposition = IF inbox[k].progress + 1 = StepsOf(inbox[k].action)
                             THEN "executed" ELSE inbox[k].disposition

(* The inbox after a commit, also when the donations are postponed.        *)
LEMMA RowsAfterCommit ==
  ASSUME DonationsInv, NEW k \in DOMAIN inbox, tx.d \in SessionState,
         inbox' = Advanced(k) \/ inbox' = Postponed(Advanced(k))
  PROVE  inbox' \in Seq(Donation) /\ Len(inbox') = Len(inbox) /\ RowAdvanced(k)
<1> DEFINE done == inbox[k].progress + 1 = StepsOf(inbox[k].action)
           task == IF Asks(k) THEN Len(tx.d.tasks) ELSE inbox[k].task
           disposition == IF done THEN "executed" ELSE inbox[k].disposition
           row == [inbox[k] EXCEPT !.progress = inbox[k].progress + 1, !.task = task,
                                   !.disposition = disposition]
           rows == [inbox EXCEPT ![k] = row]
<1>1. inbox \in Seq(Donation)
  BY DEF DonationsInv, DonationsTypeOK
<1>2. inbox[k] \in Donation
  BY <1>1
<1>3. task \in Nat /\ inbox[k].progress + 1 \in Nat
        /\ disposition \in {"pending", "executed", "ignored", "failed"}
  <2>1. Len(tx.d.tasks) \in Nat
    BY DEF SessionState
  <2>2. QED BY <1>2, <2>1 DEF Donation
<1>4. Advanced(k) = rows
  BY <1>2 DEF Advanced, Asks, Donation
<1> HIDE DEF task, disposition
<1>5. /\ row \in Donation /\ row.session = inbox[k].session /\ row.action = inbox[k].action
      /\ row.progress = inbox[k].progress + 1 /\ row.task = task
      /\ row.disposition = disposition
  BY <1>2, <1>3 DEF Donation
<1> HIDE DEF row
<1>6. /\ rows \in Seq(Donation) /\ Len(rows) = Len(inbox)
      /\ \A j \in DOMAIN inbox : rows[j] = IF j = k THEN row ELSE inbox[j]
  BY <1>1, <1>5, ExceptSeq
<1>7. DOMAIN rows = DOMAIN inbox
  OBVIOUS
<1> HIDE DEF rows
<1> DEFINE Same(s) ==
      /\ s \in Seq(Donation) /\ Len(s) = Len(inbox) /\ DOMAIN s = DOMAIN inbox
      /\ \A j \in DOMAIN inbox :
           /\ s[j].session = rows[j].session /\ s[j].action = rows[j].action
           /\ s[j].progress = rows[j].progress /\ s[j].task = rows[j].task
           /\ s[j].disposition = rows[j].disposition
<1>8. Same(rows)
  BY <1>6, <1>7
<1>9. Same(Postponed(rows))
  <2>1. \A r \in Donation :
          LET s == [r EXCEPT !.due = FALSE] IN
          /\ s \in Donation /\ s.session = r.session /\ s.action = r.action
          /\ s.progress = r.progress /\ s.task = r.task /\ s.disposition = r.disposition
    BY DEF Donation
  <2> DEFINE s == Postponed(rows)
  <2>2. /\ DOMAIN s = DOMAIN rows /\ s = [j \in 1 .. Len(rows) |-> s[j]]
        /\ \A j \in DOMAIN rows : s[j] = rows[j] \/ s[j] = [rows[j] EXCEPT !.due = FALSE]
    BY <1>6 DEF Postponed
  <2> HIDE DEF s
  <2>3. \A j \in DOMAIN rows :
          /\ s[j] \in Donation /\ s[j].session = rows[j].session /\ s[j].action = rows[j].action
          /\ s[j].progress = rows[j].progress /\ s[j].task = rows[j].task
          /\ s[j].disposition = rows[j].disposition
    <3> TAKE j \in DOMAIN rows
    <3>1. rows[j] \in Donation
      BY <1>6
    <3>2. QED BY <2>1, <2>2, <3>1
  <2>4. s \in Seq(Donation) /\ Len(s) = Len(rows)
    <3>1. Len(rows) \in Nat /\ DOMAIN rows = 1 .. Len(rows)
      BY <1>6
    <3>2. \A j \in 1 .. Len(rows) : s[j] \in Donation
      BY <2>3, <3>1
    <3>3. QED BY <2>2, <3>1, <3>2
  <2>5. QED BY <1>6, <1>7, <2>2, <2>3, <2>4 DEF s
<1>10. Same(inbox')
  BY <1>4, <1>8, <1>9
<1>11. RowAdvanced(k)
  BY <1>5, <1>6, <1>10 DEF RowAdvanced, task, disposition
<1>12. QED BY <1>10, <1>11

(* The session after a commit: one request may be asked or resolved.       *)
LEMMA SessionAfterCommit ==
  ASSUME DonationsInv, NEW p \in Drainers, Committed(p)
  PROVE  /\ db' \in SessionState /\ db'.session = db.session /\ TasksFollow(db, db')
         /\ \A n \in DOMAIN db.tasks : IsResolved(db', n) /\ ~IsResolved(db, n) =>
              Asked(Row(p)) /\ n = inbox[Row(p)].task
         /\ Asks(Row(p)) =>
              /\ Len(tx.d.tasks) \in DOMAIN db'.tasks \ DOMAIN db.tasks
              /\ db'.tasks[Len(tx.d.tasks)].kind = "donation_destination"
              /\ ~IsResolved(db', Len(tx.d.tasks))
<1> DEFINE k == Row(p)
           last == [type |-> tx.type, movement |-> tx.movement, travel |-> tx.travel]
<1>1. Executor(p) /\ tx # Idle
  BY DEF Committed, Finished, Executor
<1>2. PICK d : d = Committing(k)
  OBVIOUS
<1>3. db' = [d EXCEPT !.revision = @ + 1, !.tasks = @ \o tx.travels, !.last = last]
  BY <1>2 DEF Committed, Committing, Asks
<1>4. /\ tx \in Transaction /\ tx.d \in SessionState /\ tx.travels \in Seq(Task)
      /\ OnlyTravels(tx.travels)
  BY <1>1, ExecutorOf
<1>5. /\ d \in SessionState /\ d.session = db.session /\ TasksFollow(db, d)
      /\ \A n \in Settled(db, d) : Asked(k) /\ n = inbox[k].task
      /\ Asks(k) => /\ Len(tx.d.tasks) \in DOMAIN d.tasks \ DOMAIN db.tasks
                    /\ d.tasks[Len(tx.d.tasks)].kind = "donation_destination"
                    /\ ~IsResolved(d, Len(tx.d.tasks))
  <2>1. CASE Asks(k)
    BY <1>1, <1>2, <2>1, CommittingAsk
  <2>2. CASE ~Asks(k)
    <3>1. d = tx.d
      BY <1>2, <2>2 DEF Committing
    <3>2. QED BY <1>1, <2>2, <3>1, ExecutorOf
  <2>3. QED BY <2>1, <2>2
<1>6. last \in Result
  BY <1>4 DEF Transaction, Result
<1>7. /\ db' \in SessionState /\ db'.session = d.session /\ db'.tasks = d.tasks \o tx.travels
  <2>1. d.revision + 1 \in Nat /\ d.tasks \o tx.travels \in Seq(Task)
    BY <1>4, <1>5 DEF SessionState
  <2> HIDE DEF last
  <2>2. QED BY <1>3, <1>5, <1>6, <2>1 DEF SessionState
<1>8. Extends(d, db', tx.travels)
  BY <1>7 DEF Extends
<1>9. TasksFollow(db, db') /\ SameResolved(d, db') /\ SameTasks(d, db')
  BY <1>4, <1>5, <1>8, ExtendedFollows
<1>10. ASSUME NEW n \in DOMAIN db.tasks, IsResolved(db', n), ~IsResolved(db, n)
       PROVE  Asked(k) /\ n = inbox[k].task
  <2>1. IsResolved(d, n) /\ n \in DOMAIN d.tasks
    BY <1>5, <1>9, <1>10 DEF SameResolved, TasksFollow
  <2>2. n \in Settled(db, d)
    BY <1>10, <2>1 DEF Settled
  <2>3. QED BY <1>5, <2>2
<1>11. Asks(k) => /\ Len(tx.d.tasks) \in DOMAIN db'.tasks \ DOMAIN db.tasks
                 /\ db'.tasks[Len(tx.d.tasks)].kind = "donation_destination"
                 /\ ~IsResolved(db', Len(tx.d.tasks))
  BY <1>5, <1>9 DEF SameResolved, SameTasks
<1>12. QED BY <1>5, <1>7, <1>9, <1>10, <1>11

(* The chat that answers a new request is marked, and no other.            *)
LEMMA MatchedType ==
  ASSUME chats \in Seq(Chat), NEW k
  PROVE  Matched(k) \in Seq(Chat)
<1>1. CASE Earlier(k) = {}
  BY <1>1 DEF Matched
<1>2. CASE Earlier(k) # {}
  <2> DEFINE n == Earliest(Earlier(k))
             chat == [chats[n] EXCEPT !.matched = TRUE]
  <2>1. Earlier(k) \subseteq DOMAIN chats /\ DOMAIN chats \subseteq Nat
    BY DEF Earlier
  <2>2. n \in DOMAIN chats
    BY <1>2, <2>1, EarliestOf
  <2> HIDE DEF n
  <2>3. chats[n] \in Chat
    BY <2>2
  <2>4. chat \in Chat
    BY <2>3 DEF Chat
  <2> HIDE DEF chat
  <2>5. [chats EXCEPT ![n] = chat] \in Seq(Chat)
    BY <2>2, <2>4, ExceptSeq
  <2>6. Matched(k) = [chats EXCEPT ![n] = chat]
    BY <1>2 DEF Matched, n, chat
  <2>7. QED BY <2>5, <2>6
<1>3. QED BY <1>1, <1>2

(* A donation's commit, whatever its drain is told of it.                  *)
LEMMA CommitTrue ==
  ASSUME DonationsInv, NEW p \in Drainers, Committed(p),
         NEW stage \in {"process", "fail"}, NEW left \in SUBSET DOMAIN inbox,
         stage = "fail" => left # {}, To(p, stage, left), faults' \in 0 .. MaxFaults
  PROVE  DonationsInv'
<1>1. PICK k : k = Row(p)
  OBVIOUS
<1>2. /\ Executor(p) /\ tx # Idle /\ tx' = Idle /\ log' = Append(log, k)
      /\ inbox' = Advanced(k) \/ inbox' = Postponed(Advanced(k))
      /\ chats' = Matched(k) \/ chats' = chats
      /\ paced' = (paced /\ ~IsMovement(k)) /\ UNCHANGED <<arriving, guard>>
  BY <1>1 DEF Committed, Finished, Executor
<1>3. /\ k \in DOMAIN inbox /\ Pending(k) /\ Bound(k) /\ tx.d \in SessionState
      /\ \A q \in Drainers : Executor(q) => q = p
  BY <1>2, <1>1, ExecutorOf
<1>4. DonationsTypeOK /\ inbox \in Seq(Donation) /\ inbox[k] \in Donation
  <2>1. DonationsTypeOK /\ inbox \in Seq(Donation)
    BY DEF DonationsInv, DonationsTypeOK
  <2>2. QED BY <1>3, <2>1
<1>5. inbox' \in Seq(Donation) /\ Len(inbox') = Len(inbox) /\ RowAdvanced(k)
  BY <1>2, <1>3, RowsAfterCommit
<1>6. /\ db' \in SessionState /\ db'.session = db.session /\ TasksFollow(db, db')
      /\ \A n \in DOMAIN db.tasks : IsResolved(db', n) /\ ~IsResolved(db, n) =>
           Asked(k) /\ n = inbox[k].task
      /\ Asks(k) =>
           /\ Len(tx.d.tasks) \in DOMAIN db'.tasks \ DOMAIN db.tasks
           /\ db'.tasks[Len(tx.d.tasks)].kind = "donation_destination"
           /\ ~IsResolved(db', Len(tx.d.tasks))
  BY <1>1, SessionAfterCommit
<1>7. /\ drains' \in [Drainers -> Drain]
      /\ drains'[p].stage = stage /\ drains'[p].left = left
      /\ \A q \in Drainers \ {p} : drains'[q] = drains[q]
  BY LeftInRange, DrainMoves DEF Stages
<1>8. DonationsTypeOK'
  <2>1. log' \in Seq(DOMAIN inbox')
    <3>1. log \in Seq(DOMAIN inbox) /\ DOMAIN inbox' = DOMAIN inbox
      BY <1>4, <1>5 DEF DonationsTypeOK, RowAdvanced
    <3>2. QED BY <1>2, <1>3, <3>1
  <2>2. paced' \in BOOLEAN
    BY <1>2, <1>4 DEF DonationsTypeOK
  <2>3. chats' \in Seq(Chat)
    BY <1>2, <1>4, MatchedType DEF DonationsTypeOK
  <2>4. QED BY <1>2, <1>4, <1>5, <1>6, <1>7, <2>1, <2>2, <2>3 DEF DonationsTypeOK
<1>9. DrainsTrue' /\ CopyTrue'
  <2>1. \A q \in Drainers : ~Executor(q)'
    BY <1>3, <1>7 DEF Executor
  <2>2. \A q \in Drainers : /\ drains'[q].left \subseteq DOMAIN inbox'
                            /\ drains'[q].stage \in {"execute", "fail"} => drains'[q].left # {}
    <3> TAKE q \in Drainers
    <3>1. DOMAIN inbox' = DOMAIN inbox
      BY <1>5 DEF RowAdvanced
    <3>2. CASE q = p
      BY <1>7, <3>1, <3>2
    <3>3. CASE q # p
      BY <1>7, <3>1, <3>3 DEF DonationsInv, DrainsTrue
    <3>4. QED BY <3>2, <3>3
  <2>3. QED BY <1>2, <2>1, <2>2 DEF DrainsTrue, CopyTrue
<1>10. RowsTrue'
  <2>1. Commands(k)' = Commands(k) + 1 /\ \A j \in DOMAIN inbox \ {k} : Commands(j)' = Commands(j)
    BY <1>2, <1>3, <1>4, CountOneMore
  <2>2. StepsOf(inbox[k].action) \in Nat /\ inbox[k].progress \in Nat
    BY <1>4, StepsType DEF Donation
  <2>3. ASSUME NEW j \in DOMAIN inbox
        PROVE  /\ Commands(j)' = inbox'[j].progress
               /\ inbox'[j].progress <= StepsOf(inbox'[j].action)
               /\ inbox'[j].disposition = "pending"
                    => inbox'[j].progress < StepsOf(inbox'[j].action)
               /\ inbox'[j].disposition = "executed"
                    => inbox'[j].progress = StepsOf(inbox'[j].action)
               /\ inbox'[j].session <= db'.session
    <3>1. inbox'[j].session <= db'.session /\ inbox'[j].action = inbox[j].action
      BY <1>5, <1>6 DEF DonationsInv, RowsTrue, RowAdvanced
    <3>2. CASE j = k
      <4>1. /\ Commands(k) = inbox[k].progress /\ inbox[k].progress < StepsOf(inbox[k].action)
            /\ inbox[k].disposition = "pending"
        BY <1>3 DEF DonationsInv, RowsTrue, Pending
      <4>2. /\ inbox'[k].progress = inbox[k].progress + 1
            /\ inbox'[k].disposition = IF inbox[k].progress + 1 = StepsOf(inbox[k].action)
                                       THEN "executed" ELSE inbox[k].disposition
        BY <1>5 DEF RowAdvanced
      <4>3. QED BY <2>1, <2>2, <3>1, <3>2, <4>1, <4>2
    <3>3. CASE j # k
      <4>1. /\ inbox'[j].progress = inbox[j].progress
            /\ inbox'[j].disposition = inbox[j].disposition
        BY <1>5, <3>3 DEF RowAdvanced
      <4>2. QED BY <2>1, <3>1, <3>3, <4>1 DEF DonationsInv, RowsTrue, Pending
    <3>4. QED BY <3>2, <3>3
  <2>4. QED BY <1>5, <2>3 DEF RowsTrue, Pending, RowAdvanced
<1>11. RequestsOwned'
  <2>1. DOMAIN inbox' = DOMAIN inbox
    BY <1>5 DEF RowAdvanced
  <2>2. inbox[k].progress \in Nat /\ inbox'[k].progress = inbox[k].progress + 1
    BY <1>4, <1>5 DEF Donation, RowAdvanced
  <2>3. ASSUME NEW j \in DOMAIN inbox, j # k
        PROVE  /\ (Owns(j)' <=> Owns(j)) /\ inbox'[j].task = inbox[j].task
               /\ inbox'[j].progress = inbox[j].progress
    BY <1>5, <1>6, <2>3 DEF RowAdvanced, Owns, Asked
  <2>4. Owns(k)' => Owns(k) \/ Asks(k)
    <3>1. inbox'[k].session = inbox[k].session /\ inbox'[k].action = inbox[k].action
      BY <1>3, <1>5 DEF RowAdvanced
    <3>2. inbox[k].progress = 0 \/ inbox[k].progress > 0
      BY <2>2
    <3>3. QED BY <1>6, <3>1, <3>2 DEF Owns, Asked, Asks
  <2>5. Asked(k) => ~Asks(k) /\ inbox'[k].progress # 1 /\ inbox'[k].task = inbox[k].task /\ Owns(k)
    <3>1. Asked(k) => Owns(k)
      BY <1>3 DEF Owns, Bound
    <3>2. QED BY <1>5, <2>2, <3>1 DEF RowAdvanced, Asked, Asks
  <2>6. Asks(k) => inbox'[k].task = Len(tx.d.tasks)
    BY <1>5 DEF RowAdvanced
  <2>7. ASSUME NEW j \in DOMAIN inbox, Owns(j)
        PROVE  /\ inbox[j].task \in DOMAIN db.tasks /\ inbox[j].task \in DOMAIN db'.tasks
               /\ db'.tasks[inbox[j].task].kind = "donation_destination"
    BY <1>6, <2>7 DEF DonationsInv, RequestsOwned, Request, TasksFollow, TaskFollows
  <2>8. ASSUME NEW j \in DOMAIN inbox, Owns(j), j # k, inbox[j].progress = 1
        PROVE  db'.tasks[inbox[j].task].status # "resolved"
    <3>1. ~IsResolved(db, inbox[j].task)
      BY <2>8 DEF DonationsInv, RequestsOwned, Request, IsResolved
    <3>2. ~IsResolved(db', inbox[j].task)
      <4>1. SUFFICES ASSUME IsResolved(db', inbox[j].task) PROVE FALSE
        OBVIOUS
      <4>2. Asked(k) /\ inbox[j].task = inbox[k].task
        BY <1>6, <2>7, <2>8, <3>1, <4>1
      <4>3. Owns(k)
        BY <2>5, <4>2
      <4>4. QED BY <1>3, <2>8, <4>2, <4>3 DEF DonationsInv, RequestsOwned
    <3>3. QED BY <2>7, <2>8, <3>2 DEF IsResolved
  <2>9. ASSUME NEW j \in DOMAIN inbox, Owns(j)'
        PROVE  /\ inbox'[j].task \in DOMAIN db'.tasks
               /\ db'.tasks[inbox'[j].task].kind = "donation_destination"
               /\ inbox'[j].progress = 1 => db'.tasks[inbox'[j].task].status # "resolved"
    <3>1. CASE j # k
      BY <2>3, <2>7, <2>8, <2>9, <3>1
    <3>2. CASE j = k /\ Asks(k)
      BY <1>6, <2>6, <3>2 DEF IsResolved
    <3>3. CASE j = k /\ ~Asks(k)
      <4>1. Owns(k)
        BY <2>4, <2>9, <3>3
      <4>2. Asked(k)
        BY <4>1 DEF Owns
      <4>3. QED BY <2>5, <2>7, <3>3, <4>1, <4>2
    <3>4. QED BY <3>1, <3>2, <3>3
  <2>10. ASSUME NEW i \in DOMAIN inbox, NEW j \in DOMAIN inbox, Owns(i)', Owns(j)',
                inbox'[i].task = inbox'[j].task
         PROVE  i = j
    <3>1. \A m \in DOMAIN inbox : Owns(m)' =>
            \/ Owns(m) /\ inbox'[m].task = inbox[m].task
            \/ m = k /\ Asks(k) /\ inbox'[k].task \notin DOMAIN db.tasks
      <4> TAKE m \in DOMAIN inbox
      <4>1. CASE m # k
        BY <2>3, <4>1
      <4>2. CASE m = k /\ Asks(k)
        BY <1>6, <2>6, <4>2
      <4>3. CASE m = k /\ ~Asks(k)
        <5>1. Owns(k)' => Owns(k)
          BY <2>4, <4>3
        <5>2. Owns(k) => Asked(k)
          BY DEF Owns
        <5>3. QED BY <2>5, <4>3, <5>1, <5>2
      <4>4. QED BY <4>1, <4>2, <4>3
    <3>2. \A m \in DOMAIN inbox : Owns(m) => inbox[m].task \in DOMAIN db.tasks
      BY <2>7
    <3>3. \A m, n \in DOMAIN inbox :
            Owns(m) /\ Owns(n) /\ inbox[m].task = inbox[n].task => m = n
      BY DEF DonationsInv, RequestsOwned
    <3>4. QED BY <2>10, <3>1, <3>2, <3>3
  <2>11. QED BY <2>1, <2>9, <2>10 DEF RequestsOwned, Request
<1>12. QED BY <1>8, <1>9, <1>10, <1>11 DEF DonationsInv

(* The two ways a commit can end for its drain.                            *)
LEMMA CommitsTrue ==
  ASSUME DonationsInv, NEW p \in Drainers, CommitDonation(p) \/ CommitUnknown(p)
  PROVE  DonationsInv' /\ TasksMove /\ Committed(p)
<1>1. Committed(p) /\ Executor(p)
  BY DEF CommitDonation, CommitUnknown, Committed, Executor
<1>2. /\ drains[p].left \subseteq DOMAIN inbox /\ drains[p].left # {}
      /\ DonationsTypeOK /\ faults \in 0 .. MaxFaults
  BY <1>1 DEF DonationsInv, DonationsTypeOK, DrainsTrue, Executor
<1>3. CASE CommitDonation(p)
  <2>1. /\ To(p, "process", drains[p].left \ {Row(p)})
        /\ drains[p].left \ {Row(p)} \in SUBSET DOMAIN inbox /\ faults' \in 0 .. MaxFaults
    BY <1>2, <1>3 DEF CommitDonation, NextRow
  <2>2. QED BY <1>1, <2>1, CommitTrue, SessionAfterCommit DEF TasksMove
<1>4. CASE CommitUnknown(p)
  <2>1. To(p, "fail", drains[p].left) /\ faults' \in 0 .. MaxFaults
    BY <1>2, <1>4, FaultType DEF CommitUnknown
  <2>2. drains[p].left \in SUBSET DOMAIN inbox
    BY <1>2
  <2>3. QED BY <1>1, <1>2, <2>1, <2>2, CommitTrue, SessionAfterCommit DEF TasksMove
<1>5. QED BY <1>3, <1>4

(* ------------------------------ Every step ------------------------------- *)
LEMMA DonationsStart == DonationsInit => DonationsInv
<1> SUFFICES ASSUME DonationsInit PROVE DonationsInv
  OBVIOUS
<1>1. /\ Init /\ inbox = <<>> /\ chats = <<>> /\ arriving = NoChat /\ paced = TRUE
      /\ log = <<>> /\ drains = [p \in Drainers |-> Resting] /\ guard = NoDrainer
      /\ faults = 0
  BY DEF DonationsInit
<1>2. TypeOK /\ tx = Idle
  BY <1>1, InitType DEF Init
<1>3. \A p \in Drainers : drains[p].stage = "idle" /\ drains[p].left = {}
  BY <1>1 DEF Resting
<1>4. Resting \in Drain
  BY DEF Resting, Drain, Stages
<1>5. DonationsTypeOK
  BY <1>1, <1>2, <1>4, DonationAssumption DEF DonationsTypeOK, TypeOK
<1>6. DOMAIN inbox = {}
  BY <1>1
<1>7. RowsTrue /\ RequestsOwned
  BY <1>6 DEF RowsTrue, RequestsOwned
<1>8. DrainsTrue
  BY <1>3 DEF DrainsTrue, Executor
<1>9. CopyTrue
  BY <1>2 DEF CopyTrue
<1>10. QED BY <1>5, <1>7, <1>8, <1>9 DEF DonationsInv

(* Every step keeps the invariant and moves the tasks on; only the commit  *)
(* of a donation counts a command of one.                                  *)
LEMMA DonationsSteps ==
  ASSUME DonationsInv, [DonationsNext]_donationVars
  PROVE  DonationsInv' /\ TasksMove /\ (log' = log \/ \E p \in Drainers : Committed(p))
<1> DEFINE Goal ==
             DonationsInv' /\ TasksMove /\ (log' = log \/ \E p \in Drainers : Committed(p))
<1>1. ASSUME db' = db \/ db'.session # db.session PROVE TasksMove
  BY <1>1, FollowsItself DEF TasksMove
<1>2. ASSUME NEW p \in Drainers, DrainStep(p) PROVE Goal
  <2>1. CASE RequestOver(p)
    BY <2>1, RequestOverTrue DEF RequestOver
  <2>2. CASE Execute(p)
    <3>1. db' = db /\ log' = log
      BY <2>2 DEF Execute, Begin, intake
    <3>2. QED BY <1>1, <2>2, <3>1, ExecuteTrue
  <2>3. CASE CommitDonation(p)
    BY <2>3, CommitsTrue
  <2>4. CASE \/ BeginDrain(p) \/ SelectRows(p) \/ EndDrain(p) \/ AlreadyDecided(p)
             \/ LeaveWaiting(p) \/ Refused(p) \/ MarkEnded(p) \/ SessionOver(p)
             \/ MarkFailed(p) \/ RollbackDonation(p)
    <3>1. db' = db /\ log' = log
      BY <2>4 DEF BeginDrain, SelectRows, EndDrain, AlreadyDecided, LeaveWaiting, Refused,
                  MarkEnded, SessionOver, MarkFailed, RollbackDonation, Rollback, intake
    <3>2. QED BY <1>1, <2>4, <3>1, DrainStepsTrue
  <2>5. QED BY <1>2, <2>1, <2>2, <2>3, <2>4 DEF DrainStep
<1>3. ASSUME NEW p \in Drainers,
             CommitUnknown(p) \/ TransientError(p) \/ ConnectionLost(p) \/ Crash(p)
      PROVE  Goal
  <2>1. CASE CommitUnknown(p)
    BY <2>1, CommitsTrue
  <2>2. CASE TransientError(p) \/ ConnectionLost(p) \/ Crash(p)
    <3>1. db' = db /\ log' = log
      BY <2>2 DEF TransientError, ConnectionLost, Crash, intake
    <3>2. QED BY <1>1, <2>2, <3>1, FailuresTrue
  <2>3. QED BY <1>3, <2>1, <2>2
<1>4. ASSUME GuardLost PROVE Goal
  <2>1. db' = db /\ log' = log
    BY <1>4 DEF GuardLost, intake
  <2>2. QED BY <1>1, <1>4, <2>1, FailuresTrue
<1>5. ASSUME NEW donor \in Donors, NEW a \in DonationActions, AcceptDonation(donor, a)
      PROVE  Goal
  <2>1. db' = db /\ log' = log
    BY <1>5 DEF AcceptDonation
  <2>2. QED BY <1>1, <1>5, <2>1, AcceptTrue
<1>6. ASSUME NEW chat \in NewChat, AnswerRequest(chat) \/ FindNoRequest(chat) PROVE Goal
  <2>1. CASE AnswerRequest(chat)
    BY <2>1, AnswerTrue DEF AnswerRequest
  <2>2. CASE FindNoRequest(chat)
    BY <1>1, <2>2, ChatsTrue DEF FindNoRequest
  <2>3. QED BY <1>6, <2>1, <2>2
<1>7. ASSUME StoreChat PROVE Goal
  BY <1>1, <1>7, ChatsTrue DEF StoreChat
<1>8. ASSUME NotBeforePassed \/ PresentationOver PROVE Goal
  BY <1>1, <1>8, FlagsTrue DEF NotBeforePassed, PresentationOver
<1>9. ASSUME NEW k \in DOMAIN inbox, RequestExpires(k) PROVE Goal
  <2>1. db' = db /\ log' = log
    BY <1>9 DEF RequestExpires
  <2>2. QED BY <1>1, <1>9, <2>1, FlagsTrue
<1>10. ASSUME StartSession PROVE Goal
  <2>1. db'.session = db.session + 1 /\ log' = log
    BY <1>10 DEF StartSession, createSession, Fresh, intake
  <2>2. db.session \in Nat
    BY DEF DonationsInv, DonationsTypeOK, SessionState
  <2>3. db'.session # db.session
    BY <2>1, <2>2
  <2>4. QED BY <1>1, <1>10, <2>1, <2>3, StartTrue
<1>11. ASSUME PublishCatalog PROVE Goal
  BY <1>11, PublishTrue DEF PublishCatalog, intake
<1>12. ASSUME OperatorCommand PROVE Goal
  <2>1. db' = db
    <3>1. TypeOK
      BY DEF DonationsInv, DonationsTypeOK, TypeOK
    <3>2. \E type : Begins(type)
      BY <1>12, <3>1, MovementBegins, ResourceBegins, RequestCommandsBegin
         DEF OperatorCommand
    <3>3. QED BY <3>2 DEF Begins
  <2>2. log' = log
    BY <1>12 DEF OperatorCommand, intake
  <2>3. QED BY <1>1, <1>12, <2>1, <2>2, CommandTrue
<1>13. ASSUME CommandWork PROVE Goal
  BY <1>13, WorkTrue DEF CommandWork, CommitCommand, intake
<1>14. CASE UNCHANGED donationVars
  <2>1. db' = db /\ UNCHANGED <<tx, inbox, chats, arriving, paced, log, drains, guard, faults>>
    BY <1>14 DEF donationVars, intake, polls
  <2>2. DonationsTypeOK' /\ SameRows
    BY <2>1 DEF DonationsInv, DonationsTypeOK, SameRows
  <2>3. QED BY <1>1, <2>1, <2>2, DrainsRest
<1>15. CASE DonationsNext
  BY <1>2, <1>3, <1>4, <1>5, <1>6, <1>7, <1>8, <1>9, <1>10, <1>11, <1>12, <1>13, <1>15
     DEF DonationsNext
<1>16. QED BY <1>14, <1>15

(* So the invariant holds always.                                          *)
LEMMA DonationsInvHolds == DonationsSpec => []DonationsInv
<1>1. DonationsInv /\ [DonationsNext]_donationVars => DonationsInv'
  BY DonationsSteps
<1>2. QED BY <1>1, DonationsStart, PTL DEF DonationsSpec

(* ------------------------------ The promises ----------------------------- *)
(* The session, its inbox, its chats and the drains are always well formed.*)
THEOREM DonationsTyped == DonationsSpec => []DonationsTypeOK
<1>1. DonationsInv => DonationsTypeOK
  BY DEF DonationsInv
<1>2. QED BY <1>1, DonationsInvHolds, PTL

(* A donation makes the commands its rule asks for and none twice: however *)
(* many drains processInbox runs in, and whatever fails in them.           *)
THEOREM DonationsExecuteExactly == DonationsSpec => []ExecutedExactly
<1>1. DonationsInv => ExecutedExactly
  BY DEF DonationsInv, RowsTrue, ExecutedExactly
<1>2. QED BY <1>1, DonationsInvHolds, PTL

(* A donation's command is committed in the session that it was accepted   *)
(* in, and only while that is open.                                        *)
THEOREM DonationsKeepTheirSession == DonationsSpec => DonationsStayInSession
<1>1. ASSUME DonationsInv, [DonationsNext]_donationVars, log' # log
      PROVE  LET k == log'[Len(log')] IN inbox[k].session = db.session /\ db.status # "ended"
  <2>1. PICK p \in Drainers : Committed(p)
    BY <1>1, DonationsSteps
  <2>2. Executor(p) /\ log' = Append(log, Row(p)) /\ tx # Idle
    BY <2>1 DEF Committed, Executor, Finished
  <2>3. Bound(Row(p)) /\ Row(p) \in DOMAIN inbox
    BY <1>1, <2>2, ExecutorOf
  <2>4. log'[Len(log')] = Row(p)
    <3>1. log \in Seq(DOMAIN inbox)
      BY <1>1 DEF DonationsInv, DonationsTypeOK
    <3>2. QED BY <2>2, <2>3, <3>1
  <2>5. QED BY <2>3, <2>4 DEF Bound
<1>2. QED BY <1>1, DonationsInvHolds, PTL DEF DonationsSpec, DonationsStayInSession

(* A destination that is there, the operator's or the donor's, is not      *)
(* chosen again, in whatever order their choices and the commits come.     *)
THEOREM DestinationsAreSettledOnce == DonationsSpec => DestinationSettledOnce
<1>1. ASSUME DonationsInv, [DonationsNext]_donationVars, SameSession
      PROVE  \A k \in DOMAIN db.tasks :
               LET r == db.tasks[k] IN
               r.kind = "donation_destination" /\ r.selected # NoCell =>
                 db'.tasks[k].selected = r.selected
  <2>1. TasksFollow(db, db')
    BY <1>1, DonationsSteps DEF TasksMove, SameSession
  <2>2. QED BY <2>1 DEF TasksFollow, TaskFollows
<1>2. QED BY <1>1, DonationsInvHolds, PTL DEF DonationsSpec, DestinationSettledOnce

(* What is resolved or cancelled of a session stays so, and the donation of*)
(* a request that is closed makes no command: whoever makes one found the  *)
(* request open under the lock of the session, and nobody closes it before *)
(* the commit.                                                             *)
THEOREM RequestsStayClosed == DonationsSpec => RequestsClose
<1>1. ASSUME DonationsInv, [DonationsNext]_donationVars, SameSession
      PROVE  \A n \in DOMAIN db.tasks :
               db.tasks[n].status # "pending" => db'.tasks[n].status = db.tasks[n].status
  <2>1. TasksFollow(db, db')
    BY <1>1, DonationsSteps DEF TasksMove, SameSession
  <2>2. QED BY <2>1 DEF TasksFollow, TaskFollows
<1>2. ASSUME DonationsInv, [DonationsNext]_donationVars, NEW k \in DOMAIN inbox,
             Asked(k), Request(k).status # "pending"
      PROVE  Commands(k)' = Commands(k)
  <2>1. CASE log' = log
    BY <2>1 DEF Commands
  <2>2. CASE log' # log
    <3>1. PICK p \in Drainers : Committed(p)
      BY <1>2, <2>2, DonationsSteps
    <3>2. Executor(p) /\ log' = Append(log, Row(p)) /\ tx # Idle
      BY <3>1 DEF Committed, Executor, Finished
    <3>3. Row(p) \in DOMAIN inbox
      BY <1>2, <3>2, ExecutorOf
    <3>4. Row(p) # k
      <4>1. Asked(Row(p)) => Request(Row(p)).status = "pending"
        BY <1>2, <3>2, Zenon DEF DonationsInv, DrainsTrue
      <4>2. QED BY <1>2, <4>1
    <3>5. QED BY <1>2, <3>2, <3>3, <3>4, CountOneMore DEF DonationsInv
  <2>3. QED BY <2>1, <2>2
<1>3. ASSUME DonationsInv, [DonationsNext]_donationVars, SameSession
      PROVE  /\ \A n \in DOMAIN db.tasks :
                  db.tasks[n].status # "pending" => db'.tasks[n].status = db.tasks[n].status
             /\ \A k \in DOMAIN inbox :
                  inbox[k].session = db.session /\ Asked(k) /\ Request(k).status # "pending" =>
                    Commands(k)' = Commands(k)
  BY <1>1, <1>2, <1>3
<1>4. QED BY <1>3, DonationsInvHolds, PTL DEF DonationsSpec, RequestsClose
=============================================================================
