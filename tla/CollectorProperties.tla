------------------------- MODULE CollectorProperties ------------------------
(* What receiving donations promises, and that it keeps what the abstract  *)
(* intake promises.                                                        *)
EXTENDS Collector

(* The intake as DonationIntake describes it: the entries stored are the   *)
(* rows of the inbox, each at the place it was taken from.                 *)
EntryOf(row) == [at |-> row.at, offset |-> row.offset,
                 entry |-> [event |-> row.event, observed |-> row.observed]]
StoredEntries == [k \in DOMAIN inbox |-> EntryOf(inbox[k])]
Intake == INSTANCE DonationIntake WITH
  Entries <- Entry, Journals <- Incarnation, Nowhere <- NoCursor, position <- cursor,
  stored <- StoredEntries

(* Every donation is stored once, in the order of the journal, with none   *)
(* skipped, and nothing is acknowledged before it is stored; whatever the  *)
(* processes, their lock, their calls and the journal's incarnations do.   *)
IntakeKept == Intake!Spec

Stored(e) == \E k \in DOMAIN inbox : inbox[k].event = e

(* The overlay shows an alert at most once for a donation, and only for one*)
(* that is stored (the comment of tick: feeds are told when the acceptance *)
(* was not a duplicate).                                                   *)
AlertedOnce == \A e \in Events : alerts[e] <= IF Stored(e) THEN 1 ELSE 0

(* A donation acts on nothing but the session during which it was observed:*)
(* not on one opened while it waited in the journal, and not on one that   *)
(* had ended when it was observed.                                         *)
DonationsBelong ==
  [][\A k \in DOMAIN inbox' \ DOMAIN inbox :
       inbox'[k].disposition = "pending" =>
         game.open /\ inbox'[k].session = game.opened /\ inbox'[k].observed = game.opened]_vars

(* A donation that the collector has journalled is stored and acknowledged *)
(* in the end, through lost answers, stopped processes and lost locks, as  *)
(* long as the journal keeps its incarnation and its unread entries.       *)
Delivered ==
  \A e \in Events :
    Journalled(e) ~> \E n \in DOMAIN Current :
                       Current[n].event = e /\ Stored(e) /\ acked[upstream.at] >= n

(* ---------------------------- Why they hold ------------------------------ *)
(* Journals are written only in the current incarnation, and no later one  *)
(* has been used; what they say was observed before now.                   *)
JournalsKnown ==
  /\ upstream.earliest <= Len(Current)
  /\ \A j \in Incarnation :
       /\ journal[j] # <<>> => j.gen <= upstream.at.gen /\ j.rev <= upstream.at.rev
       /\ \A n \in DOMAIN journal[j] : journal[j][n].observed <= game.opened

(* What a process has read of the journals is still so.                    *)
EntryAt(i) == [event |-> i.event, observed |-> i.observed]
Real(i) == i.offset \in DOMAIN journal[i.at] /\ journal[i.at][i.offset] = EntryAt(i)
ReadingsTrue ==
  \A p \in Processes :
    /\ remote[p].earliest <= Len(journal[remote[p].at])
    /\ \A n \in DOMAIN batch[p] : Real(batch[p][n])

(* A place at or before the cursor, in the journal it follows.             *)
Behind(c) == cursor # NoCursor /\ c.at = cursor.at /\ c.offset <= cursor.offset

(* What is stored or acknowledged, and what a process acknowledges next,   *)
(* is behind the cursor, and the cursor is within its journal.             *)
Tracking(p) ==
  /\ pc[p] \in {"list", "accept", "alert", "ack"} => cursor # NoCursor /\ local[p] # NoCursor
  /\ pc[p] \in {"alert", "ack"} => batch[p] # <<>> /\ Behind(Head(batch[p]))
  /\ pc[p] = "ack_durable" => local[p] # NoCursor /\ Behind(local[p])
CursorAhead ==
  /\ cursor # NoCursor => cursor.offset <= Len(journal[cursor.at])
  /\ \A k \in DOMAIN inbox : Behind(inbox[k])
  /\ \A j \in Incarnation : acked[j] > 0 => Behind([at |-> j, offset |-> acked[j]])
  /\ \A p \in Processes : Tracking(p)

(* Who is about to show an alert is alone with it.                         *)
Showing(p, e) == pc[p] = "alert" /\ Head(batch[p]).event = e
AlertsDue ==
  \A p \in Processes, e \in Events :
    Showing(p, e) => /\ Stored(e) /\ alerts[e] = 0
                     /\ \A q \in Processes \ {p} : ~Showing(q, e)

(* The inductive invariant of the intake. *)
IntakeInv == JournalsKnown /\ ReadingsTrue /\ CursorAhead /\ AlertsDue /\ AlertedOnce
=============================================================================
