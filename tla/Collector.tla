------------------------------ MODULE Collector -----------------------------
(***************************************************************************)
(* Receiving donations: the poll loop of collector.service.ts and the      *)
(* acceptance transaction of donation-ingestion.service.ts, against the    *)
(* journal of the external collector.                                      *)
(*                                                                         *)
(* Every API process runs the loop.  A session-level advisory lock keeps   *)
(* two of them from polling at once, but only while the connection that    *)
(* holds it lives: when the database gives it up, its owner goes on        *)
(* without knowing.  What must not happen twice is therefore guarded again *)
(* inside the acceptance transaction.                                      *)
(*                                                                         *)
(* The journal is external, modelled by what the loop relies on.  It has   *)
(* an incarnation: a generation, and a recovery revision that changes when *)
(* its history is rewritten.  It may forget old entries.                   *)
(***************************************************************************)
EXTENDS Integers, Sequences

CONSTANTS
  Processes,      (* API processes that poll                                *)
  Events,         (* ids of donation events                                 *)
  HeldEvents,     (* events of a kind or identity that is held for a person *)
  Rules,          (* published versions of the donation rules               *)
  Matching,       (* Rules -> the events a version has a rule for           *)
  BatchLimit,     (* entries per listing: 100                               *)
  Repeats,        (* the journal may carry an event twice                   *)
  LossyRetention, (* the journal may forget entries not acknowledged yet    *)
  MaxJournal,     (* bound of the model: entries of a journal               *)
  MaxGeneration, MaxRecovery, (* bounds of the model: incarnations          *)
  MaxSessions,    (* bound of the model: game sessions                      *)
  MaxFaults,      (* bound of the model: failures and crashes               *)
  NoProcess, NoCursor, NoRules

ASSUME CollectorAssumption ==
  /\ NoProcess \notin Processes /\ NoRules \notin Rules
  /\ HeldEvents \subseteq Events /\ Matching \in [Rules -> SUBSET Events]
  /\ BatchLimit \in Nat \ {0}
  /\ Repeats \in BOOLEAN /\ LossyRetention \in BOOLEAN
  /\ MaxGeneration \in Nat \ {0} /\ MaxRecovery \in Nat
  /\ MaxJournal \in Nat /\ MaxSessions \in Nat /\ MaxFaults \in Nat

Incarnation == [gen : 1 .. MaxGeneration, rev : 0 .. MaxRecovery]
Cursor      == [at : Incarnation, offset : Nat]

(* An entry carries the time it was observed at, as the number of game     *)
(* sessions that had been opened by then.                                  *)
Entry == [event : Events, observed : Nat]
Item  == [at : Incarnation, offset : Nat, event : Events, observed : Nat]

ASSUME CursorAssumption == NoCursor \notin Cursor

(* A row of collector_donation_inbox, as it is inserted.                   *)
Row == [at : Incarnation, offset : Nat, event : Events, observed : Nat,
        disposition : {"held", "ignored", "pending"}, session : Nat,
        rules : Rules \cup {NoRules}]

(* The current incarnation, and the offset before its first entry; what    *)
(* getStatus answers; the channel's sessions and published rules.          *)
Upstream == [at : Incarnation, earliest : Nat]
Status   == [at : Incarnation, earliest : Nat, current : Nat]
Game     == [opened : Nat, open : BOOLEAN, rules : Rules \cup {NoRules}]

VARIABLES
  journal,  (* Incarnation -> Seq(Entry)                                    *)
  upstream, (* where the journal is                                         *)
  acked,    (* Incarnation -> the offset acknowledged                       *)
  cursor,   (* the row of collector_consumer_cursors                        *)
  inbox,    (* the rows of collector_donation_inbox                         *)
  game,     (* the sessions and rules                                       *)
  guard,    (* who holds the advisory lock collector-poll                   *)
  alerts,   (* Events -> alerts published to the overlay                    *)
  pc, local, batch, remote, (* of each process: where its tick is, its copy *)
            (* of the cursor, the entries left of its listing, the status   *)
  faults
external == <<journal, upstream, game>>
process  == <<pc, local, batch, remote>>
vars == <<journal, upstream, acked, cursor, inbox, game, guard, alerts, process, faults>>

Steps == {"off", "idle", "status", "cursor", "initialize", "list", "accept",
          "alert", "ack", "ack_durable", "finally"}

TypeOK ==
  /\ journal \in [Incarnation -> Seq(Entry)]
  /\ upstream \in Upstream
  /\ acked \in [Incarnation -> Nat]
  /\ cursor \in Cursor \cup {NoCursor}
  /\ inbox \in Seq(Row)
  /\ game \in Game
  /\ guard \in Processes \cup {NoProcess}
  /\ alerts \in [Events -> Nat]
  /\ pc \in [Processes -> Steps]
  /\ local \in [Processes -> Cursor \cup {NoCursor}]
  /\ batch \in [Processes -> Seq(Item)]
  /\ remote \in [Processes -> Status]
  /\ faults \in 0 .. MaxFaults

First == [gen |-> 1, rev |-> 0]
NoStatus == [at |-> First, earliest |-> 0, current |-> 0]
Init ==
  /\ journal = [j \in Incarnation |-> <<>>]
  /\ upstream = [at |-> First, earliest |-> 0]
  /\ acked = [j \in Incarnation |-> 0]
  /\ cursor = NoCursor
  /\ inbox = <<>>
  /\ game = [opened |-> 0, open |-> FALSE, rules |-> NoRules]
  /\ guard = NoProcess
  /\ alerts = [e \in Events |-> 0]
  /\ pc = [p \in Processes |-> "idle"]
  /\ local = [p \in Processes |-> NoCursor]
  /\ batch = [p \in Processes |-> <<>>]
  /\ remote = [p \in Processes |-> NoStatus]
  /\ faults = 0

Current == journal[upstream.at]

(* --------------------------- The external collector --------------------- *)
Journalled(e) == \E n \in DOMAIN Current : Current[n].event = e

Emit(e) ==
  /\ Repeats \/ ~Journalled(e)
  /\ Len(Current) < MaxJournal
  /\ journal' = [journal EXCEPT ![upstream.at] =
                   Append(@, [event |-> e, observed |-> game.opened])]
  /\ UNCHANGED <<upstream, acked, cursor, inbox, game, guard, alerts, process, faults>>

Reincarnate(at, entries, earliest) ==
  /\ at \in Incarnation
  /\ upstream' = [at |-> at, earliest |-> earliest]
  /\ journal' = [journal EXCEPT ![at] = entries]
  /\ UNCHANGED <<acked, cursor, inbox, game, guard, alerts, process, faults>>

NewGeneration == Reincarnate([upstream.at EXCEPT !.gen = @ + 1], <<>>, 0)

(* The journal is restored as it was after n entries.                      *)
Recover ==
  \E n \in upstream.earliest .. Len(Current) :
    Reincarnate([upstream.at EXCEPT !.rev = @ + 1], SubSeq(Current, 1, n), upstream.earliest)

Forget(n) ==
  /\ n \in upstream.earliest + 1 .. Len(Current)
  /\ LossyRetention \/ n <= acked[upstream.at]
  /\ upstream' = [upstream EXCEPT !.earliest = n]
  /\ UNCHANGED <<journal, acked, cursor, inbox, game, guard, alerts, process, faults>>

External ==
  (\E e \in Events : Emit(e)) \/ NewGeneration \/ Recover \/ \E n \in 1 .. MaxJournal : Forget(n)

(* --------------------------- The rest of the game ------------------------ *)
Playing(new) ==
  /\ game' = new
  /\ UNCHANGED <<journal, upstream, acked, cursor, inbox, guard, alerts, process, faults>>

OpenSession ==
  /\ ~game.open /\ game.opened < MaxSessions
  /\ Playing([game EXCEPT !.open = TRUE, !.opened = @ + 1])
EndSession == game.open /\ Playing([game EXCEPT !.open = FALSE])
PublishRules(r) == r # game.rules /\ Playing([game EXCEPT !.rules = r])

(* ------------------------- Accepting one donation ------------------------ *)
RowOf(i, disposition, session, rules) ==
  [at |-> i.at, offset |-> i.offset, event |-> i.event, observed |-> i.observed,
   disposition |-> disposition, session |-> session, rules |-> rules]

(* mutant: a donation counts for whatever session is open when it arrives *)
ingestionContextWhenever(i) ==
  IF i.event \in HeldEvents \/ game.rules = NoRules
    THEN RowOf(i, "held", 0, NoRules)
  ELSE IF i.event \notin Matching[game.rules] \/ ~game.open
    THEN RowOf(i, "ignored", 0, game.rules)
  ELSE RowOf(i, "pending", game.opened, game.rules)

(* A donation acts on the session that was open when it was observed, by   *)
(* the rules published when it is accepted.                                *)
ingestionContext(i) ==
  LET belongs == game.open /\ i.observed >= game.opened IN
  IF i.event \in HeldEvents \/ game.rules = NoRules
    THEN RowOf(i, "held", 0, NoRules)
  ELSE IF i.event \notin Matching[game.rules] \/ ~belongs
    THEN RowOf(i, "ignored", 0, game.rules)
  ELSE RowOf(i, "pending", game.opened, game.rules)

Saved(i) == {k \in DOMAIN inbox : inbox[k].event = i.event}

(* The hash of an accepted donation covers all of it, its cursor included. *)
Duplicate(i) ==
  \E k \in Saved(i) : /\ inbox[k].at = i.at /\ inbox[k].offset = i.offset
                      /\ inbox[k].observed = i.observed

NextCursorOfAnyJournal(i) ==               \* mutant: the journal is not compared
  /\ cursor # NoCursor
  /\ i.offset = cursor.offset + 1
assertNextCursor(i) ==
  /\ cursor # NoCursor
  /\ i.at = cursor.at
  /\ i.offset = cursor.offset + 1

Acceptable(i) == Saved(i) = {} /\ assertNextCursor(i)

(* The acceptance transaction: the row and the cursor, together.           *)
Store(i) ==
  /\ Acceptable(i)
  /\ inbox' = Append(inbox, ingestionContext(i))
  /\ cursor' = [at |-> i.at, offset |-> i.offset]

(* ------------------------------- One tick -------------------------------- *)
At(p, step) == pc[p] = step
Goto(p, step) == pc' = [pc EXCEPT ![p] = step]
Keep == UNCHANGED <<journal, upstream, game, faults>>

TryLock(p) ==
  /\ At(p, "idle") /\ guard = NoProcess
  /\ guard' = p /\ Goto(p, "status")
  /\ Keep /\ UNCHANGED <<acked, cursor, inbox, alerts, local, batch, remote>>

GetStatus(p) ==
  /\ At(p, "status")
  /\ remote' = [remote EXCEPT ![p] = [at |-> upstream.at, earliest |-> upstream.earliest,
                                      current |-> Len(Current)]]
  /\ Goto(p, "cursor")
  /\ Keep /\ UNCHANGED <<acked, cursor, inbox, guard, alerts, local, batch>>

(* A durable subscription goes on only in the journal it knows, and only   *)
(* if that journal still has what comes next.                              *)
Followable(r) ==
  /\ cursor.at = r.at
  /\ r.earliest <= cursor.offset /\ cursor.offset <= r.current

ReadCursor(p) ==
  /\ At(p, "cursor")
  /\ local' = [local EXCEPT ![p] = cursor]
  /\ Goto(p, IF cursor = NoCursor THEN "initialize"
             ELSE IF Followable(remote[p]) THEN "list" ELSE "finally")
  /\ Keep /\ UNCHANGED <<acked, cursor, inbox, guard, alerts, batch, remote>>

(* mutant: as if a listing began with the cursor's own entry *)
initializeCursorBefore(p) ==
  LET start == [at |-> remote[p].at, offset |-> remote[p].earliest - 1] IN
  /\ At(p, "initialize")
  /\ cursor' = IF cursor = NoCursor THEN start ELSE cursor
  /\ Goto(p, IF cursor \in {NoCursor, start} THEN "cursor" ELSE "finally")
  /\ Keep /\ UNCHANGED <<acked, inbox, guard, alerts, local, batch, remote>>

(* A first subscription starts where the journal's memory starts.          *)
initializeCursor(p) ==
  LET start == [at |-> remote[p].at, offset |-> remote[p].earliest] IN
  /\ At(p, "initialize")
  /\ cursor' = IF cursor = NoCursor THEN start ELSE cursor
  /\ Goto(p, IF cursor \in {NoCursor, start} THEN "cursor" ELSE "finally")
  /\ Keep /\ UNCHANGED <<acked, inbox, guard, alerts, local, batch, remote>>

(* What the journal still has after offset n, as the loop reads it: with   *)
(* the recovery revision of its own cursor.                                *)
Listed(n, rev) ==
  LET from == IF n < upstream.earliest THEN upstream.earliest ELSE n
      size == IF Len(Current) - from > BatchLimit THEN BatchLimit ELSE Len(Current) - from
  IN [m \in 1 .. size |->
        [at |-> [gen |-> upstream.at.gen, rev |-> rev], offset |-> from + m,
         event |-> Current[from + m].event, observed |-> Current[from + m].observed]]

ListDonations(p) ==
  LET c == local[p] IN
  /\ At(p, "list")
  /\ IF upstream.at.rev = c.at.rev /\ c.offset <= Len(Current)
     THEN /\ batch' = [batch EXCEPT ![p] = Listed(c.offset, c.at.rev)]
          /\ Goto(p, "accept")
     ELSE Goto(p, "finally") /\ UNCHANGED batch
  /\ Keep /\ UNCHANGED <<acked, cursor, inbox, guard, alerts, local, remote>>

acceptDonationShownAgain(p) ==              \* mutant: a duplicate is shown too
  /\ At(p, "accept") /\ batch[p] # <<>>
  /\ LET i == Head(batch[p]) IN
     \/ Store(i) /\ Goto(p, "alert")
     \/ Duplicate(i) /\ Goto(p, "alert") /\ UNCHANGED <<inbox, cursor>>
  /\ Keep /\ UNCHANGED <<acked, guard, alerts, local, batch, remote>>
acceptDonation(p) ==
  /\ At(p, "accept") /\ batch[p] # <<>>
  /\ LET i == Head(batch[p]) IN
     \/ Store(i) /\ Goto(p, "alert")
     \/ Duplicate(i) /\ Goto(p, "ack") /\ UNCHANGED <<inbox, cursor>>
     \/ ~Acceptable(i) /\ ~Duplicate(i) /\ Goto(p, "finally") /\ UNCHANGED <<inbox, cursor>>
  /\ Keep /\ UNCHANGED <<acked, guard, alerts, local, batch, remote>>

(* Only who stored a donation shows it.                                    *)
PublishAlert(p) ==
  /\ At(p, "alert")
  /\ alerts' = [alerts EXCEPT ![Head(batch[p]).event] = @ + 1]
  /\ Goto(p, "ack")
  /\ Keep /\ UNCHANGED <<acked, cursor, inbox, guard, local, batch, remote>>

(* The journal takes an acknowledgement of its present incarnation.        *)
Acknowledged(c) ==
  /\ c.at = upstream.at
  /\ acked' = [acked EXCEPT ![c.at] = IF c.offset > @ THEN c.offset ELSE @]

AckDonation(p) ==
  /\ At(p, "ack")
  /\ LET i == Head(batch[p]) IN
     \/ /\ Acknowledged(i) /\ Goto(p, "accept")
        /\ batch' = [batch EXCEPT ![p] = Tail(@)]
     \/ i.at # upstream.at /\ Goto(p, "finally") /\ UNCHANGED <<acked, batch>>
  /\ Keep /\ UNCHANGED <<cursor, inbox, guard, alerts, local, remote>>

(* mutant: what a lost acknowledgement said is never said again *)
BatchDone(p) ==
  /\ At(p, "accept") /\ batch[p] = <<>>
  /\ Goto(p, "finally")
  /\ Keep /\ UNCHANGED <<acked, cursor, inbox, guard, alerts, local, batch, remote>>
(* What is durable is acknowledged again, for an answer that was lost.     *)
ReadDurable(p) ==
  /\ At(p, "accept") /\ batch[p] = <<>>
  /\ local' = [local EXCEPT ![p] = cursor]
  /\ Goto(p, IF cursor.offset = 0 THEN "finally" ELSE "ack_durable")
  /\ Keep /\ UNCHANGED <<acked, cursor, inbox, guard, alerts, batch, remote>>

AckDurable(p) ==
  /\ At(p, "ack_durable")
  /\ Acknowledged(local[p]) \/ (local[p].at # upstream.at /\ UNCHANGED acked)
  /\ Goto(p, "finally")
  /\ Keep /\ UNCHANGED <<cursor, inbox, guard, alerts, local, batch, remote>>

(* A tick ends: its lock is free, its variables are gone.                  *)
TickOver(p) ==
  /\ guard' = IF guard = p THEN NoProcess ELSE guard
  /\ local' = [local EXCEPT ![p] = NoCursor]
  /\ batch' = [batch EXCEPT ![p] = <<>>]
  /\ remote' = [remote EXCEPT ![p] = NoStatus]

Unlock(p) ==
  /\ At(p, "finally")
  /\ TickOver(p) /\ Goto(p, "idle")
  /\ Keep /\ UNCHANGED <<acked, cursor, inbox, alerts>>

Tick(p) ==
  \/ TryLock(p) \/ GetStatus(p) \/ ReadCursor(p) \/ initializeCursor(p)
  \/ ListDonations(p) \/ acceptDonation(p) \/ PublishAlert(p) \/ AckDonation(p)
  \/ ReadDurable(p) \/ AckDurable(p) \/ Unlock(p)

(* -------------------------------- Failures ------------------------------- *)
Fault == faults < MaxFaults /\ faults' = faults + 1

(* A call fails: it had no effect, or its effect is unknown to the caller. *)
CallFails(p) ==
  /\ Fault
  /\ pc[p] \in {"status", "cursor", "initialize", "list", "accept", "ack", "ack_durable"}
  /\ Goto(p, "finally")
  /\ UNCHANGED <<external, acked, cursor, inbox, guard, alerts, local, batch, remote>>

AcceptedUnknown(p) ==
  /\ Fault
  /\ At(p, "accept") /\ batch[p] # <<>> /\ Store(Head(batch[p]))
  /\ Goto(p, "finally")
  /\ UNCHANGED <<external, acked, guard, alerts, local, batch, remote>>

AckUnknown(p) ==
  /\ Fault
  /\ At(p, "ack") /\ Acknowledged(Head(batch[p]))
  /\ Goto(p, "finally")
  /\ UNCHANGED <<external, cursor, inbox, guard, alerts, local, batch, remote>>

(* The database drops the connection that holds the advisory lock.         *)
GuardLost ==
  /\ Fault
  /\ guard # NoProcess /\ guard' = NoProcess
  /\ UNCHANGED <<external, acked, cursor, inbox, alerts, process>>

(* A process stops, on request or not; its calls in flight are cut off.    *)
Stop(p) ==
  /\ Fault
  /\ ~At(p, "off")
  /\ Goto(p, "off") /\ TickOver(p)
  /\ UNCHANGED <<external, acked, cursor, inbox, alerts>>

Start(p) ==
  /\ At(p, "off")
  /\ Goto(p, "idle")
  /\ Keep /\ UNCHANGED <<acked, cursor, inbox, guard, alerts, local, batch, remote>>

Failures ==
  GuardLost \/ \E p \in Processes :
    CallFails(p) \/ AcceptedUnknown(p) \/ AckUnknown(p) \/ Stop(p)

Next ==
  \/ \E p \in Processes : Tick(p) \/ Start(p)
  \/ External \/ OpenSession \/ EndSession \/ (\E r \in Rules : PublishRules(r))
  \/ Failures

(* The timer of a process that runs always sets the next tick, and a       *)
(* stopped process is started again; nothing makes the others act.         *)
Spec == Init /\ [][Next]_vars /\ \A p \in Processes : WF_vars(Tick(p) \/ Start(p))
=============================================================================
