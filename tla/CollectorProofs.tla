---------------------------- MODULE CollectorProofs -------------------------
(***************************************************************************)
(* That receiving donations keeps what the abstract intake promises, for   *)
(* every set of processes and events and every bound.                      *)
(*                                                                         *)
(* The argument: what a process holds in its batch is what the journal     *)
(* says at that place (journals only grow), so a row that passes the check *)
(* of the next cursor is the next entry of the journal; and what a process *)
(* is about to acknowledge is never ahead of the durable cursor.           *)
(***************************************************************************)
EXTENDS CollectorProperties, TLAPS, SequenceTheorems

(* ---------------------------------- Types ------------------------------- *)
(* A listing is a sequence of entries, each as the journal has it.         *)
LEMMA ListedType ==
  ASSUME TypeOK, NEW n \in Nat, NEW rev \in 0 .. MaxRecovery
  PROVE  /\ Listed(n, rev) \in Seq(Item)
         /\ \A m \in DOMAIN Listed(n, rev) :
              LET i == Listed(n, rev)[m] IN
              /\ i.at = [gen |-> upstream.at.gen, rev |-> rev]
              /\ i.offset \in DOMAIN Current /\ Current[i.offset] = EntryAt(i)
<1> DEFINE from == IF n < upstream.earliest THEN upstream.earliest ELSE n
           size == IF Len(Current) - from > BatchLimit THEN BatchLimit ELSE Len(Current) - from
           item(m) == [at |-> [gen |-> upstream.at.gen, rev |-> rev], offset |-> from + m,
                       event |-> Current[from + m].event,
                       observed |-> Current[from + m].observed]
<1>1. upstream.at \in Incarnation /\ upstream.earliest \in Nat /\ Current \in Seq(Entry)
  BY DEF TypeOK, Current, Upstream
<1>2. from \in Nat /\ Len(Current) \in Nat
  BY <1>1
<1>3. size \in Int /\ (size > 0 => from + size <= Len(Current))
  BY <1>2, CollectorAssumption
<1>4. ASSUME NEW m \in 1 .. size
      PROVE  /\ item(m) \in Item /\ from + m \in DOMAIN Current
             /\ Current[from + m] = EntryAt(item(m))
  <2>1. from + m \in 1 .. Len(Current)
    BY <1>2, <1>3
  <2>2. Current[from + m] \in Entry
    BY <1>1, <2>1
  <2>3. item(m) \in Item
    BY <1>1, <1>2, <2>2 DEF Item, Entry, Incarnation
  <2>4. Current[from + m] = EntryAt(item(m))
    BY <2>2 DEF Entry, EntryAt
  <2>5. QED BY <1>1, <2>1, <2>3, <2>4
<1>5. Listed(n, rev) = [m \in 1 .. size |-> item(m)]
  BY DEF Listed
<1>6. CASE size >= 0
  <2>1. Listed(n, rev) \in Seq(Item)
    <3> SUFFICES [m \in 1 .. size |-> item(m)] \in Seq(Item)
      BY <1>5
    <3>1. size \in Nat /\ \A m \in 1 .. size : item(m) \in Item
      BY <1>3, <1>4, <1>6
    <3> HIDE DEF item, size
    <3>2. QED BY <3>1
  <2>2. DOMAIN Listed(n, rev) = 1 .. size /\ \A m \in 1 .. size : Listed(n, rev)[m] = item(m)
    BY <1>5
  <2>3. \A m \in 1 .. size : /\ item(m).at = [gen |-> upstream.at.gen, rev |-> rev]
                             /\ item(m).offset = from + m
    OBVIOUS
  <2> HIDE DEF item, size, from
  <2>4. QED BY <1>4, <2>1, <2>2, <2>3
<1>7. CASE size < 0
  <2>1. 1 .. size = {}
    BY <1>3, <1>7
  <2> HIDE DEF item, size
  <2>2. Listed(n, rev) = [m \in 1 .. 0 |-> item(m)]
    BY <1>5, <2>1
  <2>3. QED BY <2>2
<1>8. QED BY <1>3, <1>6, <1>7

LEMMA ContextType ==
  ASSUME TypeOK, NEW i \in Item
  PROVE  ingestionContext(i) \in Row
<1>1. \A disposition \in {"held", "ignored", "pending"}, session \in Nat,
         rules \in Rules \cup {NoRules} : RowOf(i, disposition, session, rules) \in Row
  BY DEF Item, Row, RowOf
<1>2. game.opened \in Nat /\ game.rules \in Rules \cup {NoRules}
  BY DEF TypeOK, Game
<1>3. QED BY <1>1, <1>2 DEF ingestionContext

LEMMA NoStatusType == NoStatus \in Status
BY CollectorAssumption DEF NoStatus, First, Incarnation, Status

LEMMA FaultType == TypeOK /\ Fault => faults' \in 0 .. MaxFaults
BY CollectorAssumption DEF TypeOK, Fault

(* The invariant as the proofs use it. *)
IInv == TypeOK /\ IntakeInv

LEMMA TickType ==
  ASSUME IInv, NEW p \in Processes, Tick(p)
  PROVE  TypeOK'
<1> USE DEF Keep, Goto, At, Steps, IInv
<1>1. CASE TryLock(p)
  BY <1>1 DEF TypeOK, TryLock
<1>2. CASE GetStatus(p)
  <2>1. [at |-> upstream.at, earliest |-> upstream.earliest, current |-> Len(Current)]
          \in Status
    BY DEF TypeOK, Current, Upstream, Status
  <2>2. QED BY <1>2, <2>1 DEF TypeOK, GetStatus
<1>3. CASE ReadCursor(p)
  BY <1>3 DEF TypeOK, ReadCursor
<1>4. CASE initializeCursor(p)
  <2>1. [at |-> remote[p].at, offset |-> remote[p].earliest] \in Cursor
    BY DEF TypeOK, Status, Cursor
  <2>2. QED BY <1>4, <2>1 DEF TypeOK, initializeCursor
<1>5. CASE ListDonations(p)
  <2>1. CASE batch' = batch
    BY <1>5, <2>1 DEF TypeOK, ListDonations
  <2>2. CASE batch' = [batch EXCEPT ![p] = Listed(local[p].offset, local[p].at.rev)]
    <3>1. local[p] \in Cursor
      BY <1>5 DEF TypeOK, IntakeInv, CursorAhead, Tracking, ListDonations
    <3>2. local[p].offset \in Nat /\ local[p].at.rev \in 0 .. MaxRecovery
      BY <3>1 DEF Cursor, Incarnation
    <3>3. Listed(local[p].offset, local[p].at.rev) \in Seq(Item)
      BY <3>2, ListedType
    <3>4. QED BY <1>5, <2>2, <3>3 DEF TypeOK, ListDonations
  <2>3. QED BY <1>5, <2>1, <2>2 DEF ListDonations
<1>6. CASE acceptDonation(p)
  <2>1. Head(batch[p]) \in Item
    BY <1>6, HeadTailProperties DEF acceptDonation, TypeOK
  <2>2. ingestionContext(Head(batch[p])) \in Row
    BY <2>1, ContextType
  <2>3. [at |-> Head(batch[p]).at, offset |-> Head(batch[p]).offset] \in Cursor
    BY <2>1 DEF Item, Cursor
  <2>4. cursor' \in Cursor \cup {NoCursor} /\ inbox' \in Seq(Row)
    <3>1. CASE Store(Head(batch[p]))
      BY <2>2, <2>3, <3>1 DEF Store, TypeOK
    <3>2. CASE UNCHANGED <<inbox, cursor>>
      BY <3>2 DEF TypeOK
    <3>3. QED BY <1>6, <3>1, <3>2 DEF acceptDonation
  <2>5. QED BY <1>6, <2>4 DEF TypeOK, acceptDonation
<1>7. CASE PublishAlert(p)
  <2>1. \A e \in Events : alerts[e] + 1 \in Nat
    BY DEF TypeOK
  <2>2. alerts' \in [Events -> Nat]
    BY <1>7, <2>1 DEF TypeOK, PublishAlert
  <2>3. QED BY <1>7, <2>2 DEF TypeOK, PublishAlert
<1>8. CASE AckDonation(p)
  <2>1. Head(batch[p]) \in Item /\ Tail(batch[p]) \in Seq(Item)
    BY <1>8, HeadTailProperties DEF AckDonation, TypeOK, IntakeInv, CursorAhead, Tracking
  <2>2. acked' \in [Incarnation -> Nat]
    <3>1. Head(batch[p]).at \in Incarnation /\ Head(batch[p]).offset \in Nat
      BY <2>1 DEF Item
    <3>2. QED BY <1>8, <3>1 DEF AckDonation, Acknowledged, TypeOK
  <2>3. QED BY <1>8, <2>1, <2>2 DEF TypeOK, AckDonation
<1>9. CASE ReadDurable(p)
  BY <1>9 DEF TypeOK, ReadDurable
<1>10. CASE AckDurable(p)
  <2>1. local[p] \in Cursor
    BY <1>10 DEF TypeOK, IntakeInv, CursorAhead, Tracking, AckDurable
  <2>2. acked' \in [Incarnation -> Nat]
    BY <1>10, <2>1 DEF AckDurable, Acknowledged, Cursor, TypeOK
  <2>3. QED BY <1>10, <2>2 DEF TypeOK, AckDurable
<1>11. CASE Unlock(p)
  BY <1>11, NoStatusType DEF TypeOK, Unlock, TickOver
<1>12. QED BY <1>1, <1>2, <1>3, <1>4, <1>5, <1>6, <1>7, <1>8, <1>9, <1>10, <1>11 DEF Tick

LEMMA ExternalType == ASSUME IInv, External PROVE TypeOK'
<1>1. CASE \E e \in Events : Emit(e)
  <2>1. PICK e \in Events : Emit(e)
    BY <1>1
  <2>2. [event |-> e, observed |-> game.opened] \in Entry /\ upstream.at \in Incarnation
    BY DEF IInv, TypeOK, Entry, Game, Upstream
  <2>3. Append(Current, [event |-> e, observed |-> game.opened]) \in Seq(Entry)
    BY <2>2 DEF IInv, TypeOK, Current
  <2>4. journal' \in [Incarnation -> Seq(Entry)]
    BY <2>1, <2>2, <2>3 DEF IInv, TypeOK, Emit, Current
  <2>5. QED BY <2>1, <2>4 DEF IInv, TypeOK, Emit, process
<1>2. ASSUME NEW at, NEW entries \in Seq(Entry), NEW earliest \in Nat,
             Reincarnate(at, entries, earliest)
      PROVE  TypeOK'
  <2>1. upstream' \in Upstream
    BY <1>2 DEF Reincarnate, Upstream
  <2>2. QED BY <1>2, <2>1 DEF IInv, TypeOK, Reincarnate, process
<1>3. CASE NewGeneration
  <2>1. <<>> \in Seq(Entry)
    OBVIOUS
  <2>2. QED BY <1>2, <1>3, <2>1 DEF NewGeneration
<1>4. CASE Recover
  <2>1. PICK n \in upstream.earliest .. Len(Current) :
          Reincarnate([upstream.at EXCEPT !.rev = @ + 1], SubSeq(Current, 1, n),
                      upstream.earliest)
    BY <1>4 DEF Recover
  <2>2. Current \in Seq(Entry) /\ upstream.earliest \in Nat
    BY DEF IInv, TypeOK, Current, Upstream
  <2>3. SubSeq(Current, 1, n) \in Seq(Entry)
    BY <2>2
  <2>4. QED BY <1>2, <2>1, <2>2, <2>3
<1>5. CASE \E n \in 1 .. MaxJournal : Forget(n)
  <2>1. PICK n \in 1 .. MaxJournal : Forget(n)
    BY <1>5
  <2>2. upstream' \in Upstream
    <3>1. n \in Nat /\ upstream \in Upstream
      BY CollectorAssumption DEF IInv, TypeOK
    <3>2. upstream' = [upstream EXCEPT !.earliest = n]
      BY <2>1 DEF Forget
    <3>3. QED BY <3>1, <3>2 DEF Upstream
  <2>3. QED BY <2>1, <2>2 DEF IInv, TypeOK, Forget, process
<1>6. QED BY <1>1, <1>3, <1>4, <1>5 DEF External

LEMMA OtherType ==
  ASSUME IInv,
         \/ \E p \in Processes : Start(p)
         \/ OpenSession \/ EndSession \/ (\E r \in Rules : PublishRules(r))
         \/ Failures \/ UNCHANGED vars
  PROVE  TypeOK'
<1> USE DEF IInv, Goto, At, Steps, Keep, process, external
<1>1. CASE OpenSession \/ EndSession \/ \E r \in Rules : PublishRules(r)
  <2>1. game' \in Game
    <3>1. game \in Game
      BY DEF TypeOK
    <3>2. CASE OpenSession
      <4>1. game.opened + 1 \in Nat
        BY <3>1 DEF Game
      <4>2. game' = [game EXCEPT !.open = TRUE, !.opened = game.opened + 1]
        BY <3>2 DEF OpenSession, Playing
      <4>3. QED BY <3>1, <4>1, <4>2 DEF Game
    <3>3. CASE EndSession
      BY <3>1, <3>3 DEF EndSession, Playing, Game
    <3>4. CASE \E r \in Rules : PublishRules(r)
      BY <3>1, <3>4 DEF PublishRules, Playing, Game
    <3>5. QED BY <1>1, <3>2, <3>3, <3>4
  <2>2. QED BY <1>1, <2>1 DEF TypeOK, OpenSession, EndSession, PublishRules, Playing
<1>2. CASE \E p \in Processes : Start(p)
  BY <1>2 DEF TypeOK, Start
<1>3. CASE Failures
  <2>1. CASE GuardLost
    BY <2>1, FaultType DEF TypeOK, GuardLost
  <2>2. ASSUME NEW p \in Processes, CallFails(p) PROVE TypeOK'
    BY <2>2, FaultType DEF TypeOK, CallFails
  <2>3. ASSUME NEW p \in Processes, AcceptedUnknown(p) PROVE TypeOK'
    <3>1. Head(batch[p]) \in Item
      BY <2>3, HeadTailProperties DEF AcceptedUnknown, TypeOK
    <3>2. ingestionContext(Head(batch[p])) \in Row
      BY <3>1, ContextType
    <3>3. [at |-> Head(batch[p]).at, offset |-> Head(batch[p]).offset] \in Cursor
      BY <3>1 DEF Item, Cursor
    <3>4. cursor' \in Cursor \cup {NoCursor} /\ inbox' \in Seq(Row)
      BY <2>3, <3>2, <3>3 DEF AcceptedUnknown, Store, TypeOK
    <3>5. QED BY <2>3, <3>4, FaultType DEF TypeOK, AcceptedUnknown
  <2>4. ASSUME NEW p \in Processes, AckUnknown(p) PROVE TypeOK'
    <3>1. Head(batch[p]) \in Item
      BY <2>4, HeadTailProperties DEF AckUnknown, TypeOK, IntakeInv, CursorAhead, Tracking
    <3>2. acked' \in [Incarnation -> Nat]
      BY <2>4, <3>1 DEF AckUnknown, Acknowledged, Item, TypeOK
    <3>3. QED BY <2>4, <3>2, FaultType DEF TypeOK, AckUnknown
  <2>5. ASSUME NEW p \in Processes, Stop(p) PROVE TypeOK'
    BY <2>5, NoStatusType, FaultType DEF TypeOK, Stop, TickOver
  <2>6. QED BY <1>3, <2>1, <2>2, <2>3, <2>4, <2>5 DEF Failures
<1>4. CASE UNCHANGED vars
  BY <1>4 DEF TypeOK, vars
<1>5. QED BY <1>1, <1>2, <1>3, <1>4

(* --------------------------- The journals grow --------------------------- *)
(* An incarnation that has not been used has no entries.                   *)
LEMMA FreshJournal ==
  ASSUME IInv, NEW at \in Incarnation,
         at.gen > upstream.at.gen \/ at.rev > upstream.at.rev
  PROVE  journal[at] = <<>>
<1>1. at.gen \in Nat /\ at.rev \in Nat /\ upstream.at.gen \in Nat /\ upstream.at.rev \in Nat
  BY CollectorAssumption DEF IInv, TypeOK, Upstream, Incarnation
<1>2. QED BY <1>1 DEF IInv, IntakeInv, JournalsKnown

LEMMA ReincarnateKeeps ==
  ASSUME IInv, NEW at, NEW entries \in Seq(Entry), NEW earliest \in Nat,
         Reincarnate(at, entries, earliest),
         at.gen > upstream.at.gen \/ at.rev > upstream.at.rev,
         at.gen >= upstream.at.gen, at.rev >= upstream.at.rev,
         earliest <= Len(entries),
         \A n \in DOMAIN entries : entries[n].observed <= game.opened
  PROVE  /\ \A j \in Incarnation : Intake!Continues(journal[j], journal'[j])
         /\ JournalsKnown'
<1>1. at \in Incarnation /\ journal[at] = <<>>
  BY FreshJournal DEF Reincarnate
<1>2. /\ journal' = [journal EXCEPT ![at] = entries]
      /\ upstream' = [at |-> at, earliest |-> earliest] /\ game' = game
  BY DEF Reincarnate
<1>3. journal \in [Incarnation -> Seq(Entry)]
  BY DEF IInv, TypeOK
<1>4. \A j \in Incarnation : Intake!Continues(journal[j], journal'[j])
  BY <1>1, <1>2, <1>3 DEF Intake!Continues
<1>5. ASSUME NEW j \in Incarnation, journal'[j] # <<>>
      PROVE  j.gen <= at.gen /\ j.rev <= at.rev
  <2>1. CASE j = at
    BY <1>1, <2>1, CollectorAssumption DEF Incarnation
  <2>2. CASE j # at
    <3>1. j.gen <= upstream.at.gen /\ j.rev <= upstream.at.rev
      BY <1>2, <1>3, <1>5, <2>2 DEF IInv, IntakeInv, JournalsKnown
    <3>2. /\ j.gen \in Int /\ j.rev \in Int /\ at.gen \in Int /\ at.rev \in Int
          /\ upstream.at.gen \in Int /\ upstream.at.rev \in Int
      BY <1>1, CollectorAssumption DEF IInv, TypeOK, Upstream, Incarnation
    <3>3. QED BY <3>1, <3>2
  <2>3. QED BY <2>1, <2>2
<1>6. ASSUME NEW j \in Incarnation, NEW n \in DOMAIN journal'[j]
      PROVE  journal'[j][n].observed <= game.opened
  BY <1>1, <1>2, <1>3, <1>6 DEF IInv, IntakeInv, JournalsKnown
<1>7. upstream'.earliest <= Len(Current')
  BY <1>1, <1>2, <1>3 DEF Current
<1>8. QED BY <1>2, <1>4, <1>5, <1>6, <1>7 DEF JournalsKnown

LEMMA ExternalKeeps ==
  ASSUME IInv, External
  PROVE  /\ \A j \in Incarnation : Intake!Continues(journal[j], journal'[j])
         /\ JournalsKnown'
         /\ UNCHANGED <<acked, cursor, inbox, game, guard, alerts, process, faults>>
<1>1. /\ journal \in [Incarnation -> Seq(Entry)] /\ Current \in Seq(Entry)
      /\ upstream.at \in Incarnation /\ upstream.earliest \in Nat /\ game.opened \in Nat
      /\ Current = journal[upstream.at]
  BY DEF IInv, TypeOK, Current, Upstream, Game
<1>2. upstream.at.gen \in Nat /\ upstream.at.rev \in Nat
  BY <1>1, CollectorAssumption DEF Incarnation
<1>3. JournalsKnown
  BY DEF IInv, IntakeInv
<1>4. CASE \E e \in Events : Emit(e)
  <2>1. PICK e \in Events : Emit(e)
    BY <1>4
  <2> DEFINE entry == [event |-> e, observed |-> game.opened]
  <2>2. /\ journal' = [journal EXCEPT ![upstream.at] = Append(Current, entry)]
        /\ UNCHANGED <<upstream, acked, cursor, inbox, game, guard, alerts, process, faults>>
    BY <2>1 DEF Emit, Current
  <2>3. entry \in Entry /\ entry.observed = game.opened
    BY <1>1 DEF Entry
  <2> HIDE DEF entry
  <2>4. /\ Len(Append(Current, entry)) = Len(Current) + 1
        /\ \A n \in 1 .. Len(Current) : Append(Current, entry)[n] = Current[n]
        /\ Append(Current, entry)[Len(Current) + 1] = entry
        /\ DOMAIN Append(Current, entry) = 1 .. Len(Current) + 1
    BY <1>1, <2>3
  <2>5. \A j \in Incarnation : Intake!Continues(journal[j], journal'[j])
    BY <1>1, <2>2, <2>4 DEF Intake!Continues
  <2>6. ASSUME NEW j \in Incarnation, NEW n \in DOMAIN journal'[j]
        PROVE  journal'[j][n].observed <= game.opened
    <3>1. CASE j # upstream.at
      BY <1>1, <1>3, <2>2, <3>1 DEF JournalsKnown
    <3>2. CASE j = upstream.at /\ n = Len(Current) + 1
      BY <1>1, <2>2, <2>3, <2>4, <3>2
    <3>3. CASE j = upstream.at /\ n # Len(Current) + 1
      <4>1. n \in DOMAIN Current /\ journal'[j][n] = Current[n]
        BY <1>1, <2>2, <2>4, <3>3
      <4>2. QED BY <1>1, <1>3, <4>1 DEF JournalsKnown
    <3>4. QED BY <3>1, <3>2, <3>3
  <2>7. upstream.earliest <= Len(Current')
    BY <1>1, <1>3, <2>2, <2>4 DEF JournalsKnown, Current
  <2>8. \A j \in Incarnation : journal'[j] # <<>> =>
          j.gen <= upstream.at.gen /\ j.rev <= upstream.at.rev
    BY <1>1, <1>2, <1>3, <2>2 DEF JournalsKnown
  <2>9. QED BY <2>2, <2>5, <2>6, <2>7, <2>8 DEF JournalsKnown
<1>5. CASE NewGeneration
  <2>1. PICK at : at = [upstream.at EXCEPT !.gen = @ + 1]
    OBVIOUS
  <2>2. at.gen = upstream.at.gen + 1 /\ at.rev = upstream.at.rev
    BY <1>1, <2>1 DEF Incarnation
  <2>3. Reincarnate(at, <<>>, 0)
    BY <1>5, <2>1 DEF NewGeneration
  <2>4. /\ <<>> \in Seq(Entry) /\ Len(<<>>) = 0 /\ DOMAIN <<>> = {}
        /\ at.gen > upstream.at.gen /\ at.rev >= upstream.at.rev
    BY <1>2, <2>2
  <2>5. /\ \A j \in Incarnation : Intake!Continues(journal[j], journal'[j])
        /\ JournalsKnown'
    <3>1. \A n \in DOMAIN <<>> : <<>>[n].observed <= game.opened
      BY <2>4
    <3>2. 0 <= Len(<<>>) /\ at.gen >= upstream.at.gen
      BY <1>2, <2>2
    <3>3. QED BY <2>3, <2>4, <3>1, <3>2, ReincarnateKeeps
  <2>6. QED BY <2>3, <2>5 DEF Reincarnate
<1>6. CASE Recover
  <2>1. PICK n \in upstream.earliest .. Len(Current) :
          Reincarnate([upstream.at EXCEPT !.rev = @ + 1], SubSeq(Current, 1, n),
                      upstream.earliest)
    BY <1>6 DEF Recover
  <2>2. PICK at, entries : at = [upstream.at EXCEPT !.rev = @ + 1]
                           /\ entries = SubSeq(Current, 1, n)
    OBVIOUS
  <2>3. n \in Nat /\ n <= Len(Current) /\ upstream.earliest <= n
    BY <1>1
  <2>4. at.rev = upstream.at.rev + 1 /\ at.gen = upstream.at.gen
    BY <1>1, <2>2 DEF Incarnation
  <2>5. /\ entries \in Seq(Entry) /\ Len(entries) = n
        /\ \A m \in DOMAIN entries : m \in DOMAIN Current /\ entries[m] = Current[m]
    BY <1>1, <2>2, <2>3
  <2>6. \A m \in DOMAIN entries : entries[m].observed <= game.opened
    BY <1>1, <1>3, <2>5 DEF JournalsKnown
  <2>7. Reincarnate(at, entries, upstream.earliest)
    BY <2>1, <2>2
  <2>8. /\ at.rev > upstream.at.rev /\ at.rev >= upstream.at.rev
        /\ at.gen >= upstream.at.gen /\ upstream.earliest <= Len(entries)
    BY <1>2, <2>3, <2>4, <2>5
  <2>9. /\ \A j \in Incarnation : Intake!Continues(journal[j], journal'[j])
        /\ JournalsKnown'
    BY <1>1, <2>5, <2>6, <2>7, <2>8, ReincarnateKeeps
  <2>10. QED BY <2>7, <2>9 DEF Reincarnate
<1>7. CASE \E n \in 1 .. MaxJournal : Forget(n)
  <2>1. PICK n \in 1 .. MaxJournal : Forget(n)
    BY <1>7
  <2>2. /\ upstream' = [upstream EXCEPT !.earliest = n] /\ journal' = journal
        /\ n <= Len(Current) /\ game' = game
    BY <1>1, <2>1 DEF Forget
  <2>3. upstream'.at = upstream.at /\ upstream'.earliest = n
    BY <2>2 DEF IInv, TypeOK, Upstream
  <2>4. JournalsKnown'
    BY <1>3, <2>2, <2>3 DEF JournalsKnown, Current
  <2>5. \A j \in Incarnation : Intake!Continues(journal[j], journal'[j])
    BY <1>1, <2>2 DEF Intake!Continues
  <2>6. QED BY <2>1, <2>4, <2>5 DEF Forget
<1>8. QED BY <1>4, <1>5, <1>6, <1>7 DEF External

(* A journal that grows leaves every reading true and the cursor where it  *)
(* was.                                                                    *)
LEMMA GrowthKeeps ==
  ASSUME IInv, JournalsKnown',
         \A j \in Incarnation : Intake!Continues(journal[j], journal'[j]),
         journal' \in [Incarnation -> Seq(Entry)],
         UNCHANGED <<acked, cursor, inbox, alerts, process>>
  PROVE  IntakeInv'
<1>1. journal \in [Incarnation -> Seq(Entry)]
  BY DEF IInv, TypeOK
<1>2. UNCHANGED <<acked, cursor, inbox, alerts, pc, local, batch, remote>>
  BY DEF process
<1>3. \A j \in Incarnation : /\ Len(journal[j]) \in Nat /\ Len(journal'[j]) \in Nat
                             /\ Len(journal[j]) <= Len(journal'[j])
                             /\ \A n \in DOMAIN journal[j] : n \in DOMAIN journal'[j]
                                                             /\ journal'[j][n] = journal[j][n]
  <2> SUFFICES ASSUME NEW j \in Incarnation
      PROVE  /\ Len(journal[j]) \in Nat /\ Len(journal'[j]) \in Nat
             /\ Len(journal[j]) <= Len(journal'[j])
             /\ \A n \in DOMAIN journal[j] : n \in DOMAIN journal'[j]
                                             /\ journal'[j][n] = journal[j][n]
    OBVIOUS
  <2>1. journal[j] \in Seq(Entry) /\ journal'[j] \in Seq(Entry)
    BY <1>1
  <2>2. Intake!Continues(journal[j], journal'[j])
    OBVIOUS
  <2>3. QED BY <2>1, <2>2 DEF Intake!Continues
<1>4. ReadingsTrue'
  <2> SUFFICES ASSUME NEW p \in Processes
      PROVE  /\ remote[p].earliest <= Len(journal'[remote[p].at])
             /\ \A n \in DOMAIN batch[p] : Real(batch[p][n])'
    BY <1>2 DEF ReadingsTrue, Real, EntryAt
  <2>1. /\ remote[p].earliest <= Len(journal[remote[p].at])
        /\ remote[p].at \in Incarnation /\ remote[p].earliest \in Nat
    BY DEF IInv, IntakeInv, ReadingsTrue, TypeOK, Status
  <2>2. ASSUME NEW n \in DOMAIN batch[p] PROVE Real(batch[p][n])'
    <3>1. Real(batch[p][n])
      BY DEF IInv, IntakeInv, ReadingsTrue
    <3>2. batch[p][n] \in Item
      BY DEF IInv, TypeOK
    <3>3. batch[p][n].at \in Incarnation
      BY <3>2 DEF Item
    <3>4. QED BY <1>2, <1>3, <3>1, <3>3 DEF Real, EntryAt
  <2>3. QED BY <1>3, <2>1, <2>2
<1>5. CursorAhead'
  <2>1. cursor # NoCursor => cursor.offset <= Len(journal'[cursor.at])
    <3>1. CASE cursor # NoCursor
      <4>1. cursor.at \in Incarnation /\ cursor.offset \in Nat
        BY <3>1 DEF IInv, TypeOK, Cursor
      <4>2. QED BY <1>3, <3>1, <4>1 DEF IInv, IntakeInv, CursorAhead
    <3>2. QED BY <3>1
  <2>2. QED BY <1>2, <2>1 DEF IInv, IntakeInv, CursorAhead, Behind, Tracking
<1>6. AlertsDue' /\ AlertedOnce'
  BY <1>2 DEF IInv, IntakeInv, AlertsDue, AlertedOnce, Showing, Stored
<1>7. QED BY <1>4, <1>5, <1>6 DEF IntakeInv

(* ------------------------- What a process may do ------------------------- *)
(* What a step of a process does to the durable state: nothing, or the     *)
(* first subscription, or one acceptance, or one acknowledgement.          *)
Subscribes(p) ==
  /\ cursor = NoCursor
  /\ cursor' = [at |-> remote[p].at, offset |-> remote[p].earliest]
  /\ UNCHANGED <<inbox, acked>>
Accepts(p) ==
  /\ pc[p] = "accept" /\ batch[p] # <<>> /\ Store(Head(batch[p]))
  /\ UNCHANGED acked
Acks(c) ==
  /\ Behind(c)
  /\ acked' = [acked EXCEPT ![c.at] = IF c.offset > @ THEN c.offset ELSE @]
  /\ UNCHANGED <<cursor, inbox>>
Durable(p) ==
  \/ UNCHANGED <<cursor, inbox, acked>>
  \/ Subscribes(p) \/ Accepts(p) \/ \E c \in Cursor : Acks(c)

(* A step of p leaves the journal, the game and the other processes alone. *)
StepOf(p) ==
  /\ UNCHANGED <<journal, upstream, game>>
  /\ \A q \in Processes \ {p} : /\ pc'[q] = pc[q] /\ local'[q] = local[q]
                                /\ batch'[q] = batch[q] /\ remote'[q] = remote[q]
  /\ Durable(p)

Processing(p) ==
  Tick(p) \/ Start(p) \/ CallFails(p) \/ AcceptedUnknown(p) \/ AckUnknown(p) \/ Stop(p)

(* A duplicate is behind the cursor, where its row is. *)
LEMMA DuplicateBehind ==
  ASSUME IInv, NEW i, Duplicate(i)
  PROVE  Behind(i)
BY DEF Duplicate, Saved, Behind, IInv, IntakeInv, CursorAhead

LEMMA ProcessingSteps ==
  ASSUME IInv, NEW p \in Processes, Processing(p)
  PROVE  StepOf(p)
<1> USE DEF Keep, Goto, At, external
<1>0. /\ pc \in [Processes -> Steps] /\ local \in [Processes -> Cursor \cup {NoCursor}]
      /\ batch \in [Processes -> Seq(Item)] /\ remote \in [Processes -> Status]
  BY DEF IInv, TypeOK
<1>1. ASSUME UNCHANGED <<journal, upstream, game, cursor, inbox, acked>>,
             \A q \in Processes \ {p} : /\ pc'[q] = pc[q] /\ local'[q] = local[q]
                                        /\ batch'[q] = batch[q] /\ remote'[q] = remote[q]
      PROVE  StepOf(p)
  BY <1>1 DEF StepOf, Durable
<1>2. CASE TryLock(p) \/ GetStatus(p) \/ ReadCursor(p)
  BY <1>0, <1>1, <1>2 DEF TryLock, GetStatus, ReadCursor
<1>3. CASE ListDonations(p) \/ PublishAlert(p) \/ ReadDurable(p)
  BY <1>0, <1>1, <1>3 DEF ListDonations, PublishAlert, ReadDurable
<1>4. CASE Unlock(p) \/ Start(p) \/ CallFails(p) \/ Stop(p)
  BY <1>0, <1>1, <1>4 DEF Unlock, TickOver, Start, CallFails, Stop
<1>5. CASE initializeCursor(p)
  BY <1>0, <1>5 DEF initializeCursor, StepOf, Durable, Subscribes
<1>6. CASE acceptDonation(p) \/ AcceptedUnknown(p)
  BY <1>0, <1>6 DEF acceptDonation, AcceptedUnknown, StepOf, Durable, Accepts
<1>7. CASE AckDonation(p) \/ AckUnknown(p)
  <2>1. Head(batch[p]) \in Item /\ Behind(Head(batch[p]))
    BY <1>0, <1>7, HeadTailProperties
    DEF AckDonation, AckUnknown, IInv, IntakeInv, CursorAhead, Tracking
  <2> DEFINE c == [at |-> Head(batch[p]).at, offset |-> Head(batch[p]).offset]
  <2>2. c \in Cursor /\ Behind(c)
    BY <2>1 DEF Item, Cursor, Behind
  <2>3. Acknowledged(Head(batch[p])) /\ UNCHANGED <<cursor, inbox>> => Acks(c)
    BY <2>2 DEF Acknowledged, Acks
  <2>4. QED BY <1>0, <1>7, <2>2, <2>3 DEF AckDonation, AckUnknown, StepOf, Durable
<1>8. CASE AckDurable(p)
  <2>1. local[p] \in Cursor /\ Behind(local[p])
    BY <1>0, <1>8 DEF AckDurable, IInv, IntakeInv, CursorAhead, Tracking
  <2>2. Acknowledged(local[p]) /\ UNCHANGED <<cursor, inbox>> => Acks(local[p])
    BY <2>1 DEF Acknowledged, Acks
  <2>3. QED BY <1>0, <1>8, <2>1, <2>2 DEF AckDurable, StepOf, Durable
<1>9. QED
  BY <1>2, <1>3, <1>4, <1>5, <1>6, <1>7, <1>8 DEF Processing, Tick


(* ------------------------- The cursor only moves on ---------------------- *)
(* An acceptance takes the entry the journal has after the cursor.         *)
LEMMA AcceptedEntry ==
  ASSUME IInv, NEW p \in Processes, Accepts(p)
  PROVE  /\ Head(batch[p]) \in Item /\ Real(Head(batch[p]))
         /\ cursor \in Cursor /\ Head(batch[p]).at = cursor.at
         /\ Head(batch[p]).offset = cursor.offset + 1
         /\ cursor' = [at |-> Head(batch[p]).at, offset |-> Head(batch[p]).offset]
         /\ inbox' = Append(inbox, ingestionContext(Head(batch[p])))
         /\ Saved(Head(batch[p])) = {}
<1>1. batch[p] \in Seq(Item) /\ batch[p] # <<>>
  BY DEF Accepts, IInv, TypeOK
<1>2. Head(batch[p]) \in Item /\ Head(batch[p]) = batch[p][1] /\ 1 \in DOMAIN batch[p]
  BY <1>1
<1>3. Real(Head(batch[p]))
  BY <1>2 DEF IInv, IntakeInv, ReadingsTrue
<1>4. Store(Head(batch[p]))
  BY DEF Accepts
<1>5. QED
  BY <1>2, <1>3, <1>4 DEF Store, Acceptable, assertNextCursor, IInv, TypeOK

(* The row of an accepted donation is at its place in the journal. *)
LEMMA ContextPlace ==
  ASSUME NEW i
  PROVE  /\ ingestionContext(i).at = i.at /\ ingestionContext(i).offset = i.offset
         /\ ingestionContext(i).event = i.event
         /\ ingestionContext(i).observed = i.observed
BY DEF ingestionContext, RowOf

LEMMA CursorMoves ==
  ASSUME IInv, NEW p \in Processes, StepOf(p)
  PROVE  /\ cursor # NoCursor => cursor' # NoCursor
         /\ \A c : c.offset \in Nat /\ Behind(c) => Behind(c)'
         /\ cursor' # NoCursor => cursor'.offset <= Len(journal'[cursor'.at])
<1>1. journal' = journal
  BY DEF StepOf
<1>2. cursor # NoCursor => cursor.offset <= Len(journal[cursor.at])
  BY DEF IInv, IntakeInv, CursorAhead
<1>3. CASE UNCHANGED <<cursor, inbox, acked>> \/ \E c \in Cursor : Acks(c)
  <2>1. cursor' = cursor
    BY <1>3 DEF Acks
  <2>2. QED BY <1>1, <1>2, <2>1 DEF Behind
<1>4. CASE Subscribes(p)
  <2>1. remote[p].earliest <= Len(journal[remote[p].at])
    BY DEF IInv, IntakeInv, ReadingsTrue
  <2>2. QED BY <1>1, <1>4, <2>1 DEF Subscribes, Behind
<1>5. CASE Accepts(p)
  <2> DEFINE i == Head(batch[p])
  <2>1. /\ i \in Item /\ Real(i) /\ cursor \in Cursor /\ i.at = cursor.at
        /\ i.offset = cursor.offset + 1 /\ cursor' = [at |-> i.at, offset |-> i.offset]
    BY <1>5, AcceptedEntry
  <2> HIDE DEF i
  <2>2. cursor' \in Cursor /\ cursor'.at = cursor.at /\ cursor'.offset = cursor.offset + 1
    BY <2>1 DEF Item, Cursor
  <2>3. cursor' # NoCursor /\ cursor.offset \in Nat
    BY <2>1, <2>2, CursorAssumption DEF Cursor
  <2>4. cursor'.offset <= Len(journal[cursor'.at])
    <3>1. journal[i.at] \in Seq(Entry)
      BY <2>1 DEF Item, IInv, TypeOK
    <3>2. i.offset \in DOMAIN journal[i.at]
      BY <2>1 DEF Real
    <3>3. i.offset <= Len(journal[i.at])
      BY <3>1, <3>2
    <3>4. QED BY <2>1, <3>3
  <2>5. QED BY <1>1, <2>2, <2>3, <2>4 DEF Behind
<1>6. QED BY <1>3, <1>4, <1>5 DEF StepOf, Durable

LEMMA RowsStayBehind ==
  ASSUME IInv, NEW p \in Processes, StepOf(p)
  PROVE  (\A k \in DOMAIN inbox : Behind(inbox[k]))'
<1>1. inbox \in Seq(Row)
  BY DEF IInv, TypeOK
<1>2. ASSUME NEW k \in DOMAIN inbox PROVE Behind(inbox[k])'
  <2>1. inbox[k].offset \in Nat /\ Behind(inbox[k])
    <3>1. inbox[k] \in Row
      BY <1>1
    <3>2. QED BY <3>1 DEF Row, IInv, IntakeInv, CursorAhead
  <2>2. /\ inbox'[k] = inbox[k]
    <3>1. CASE UNCHANGED inbox
      BY <3>1
    <3>2. CASE Accepts(p)
      BY <1>1, <3>2, AcceptedEntry
    <3>3. QED BY <3>1, <3>2 DEF StepOf, Durable, Subscribes, Acks
  <2>3. \A c : c.offset \in Nat /\ Behind(c) => Behind(c)'
    BY CursorMoves
  <2>4. QED BY <2>1, <2>2, <2>3 DEF Behind
<1>3. CASE UNCHANGED inbox
  BY <1>2, <1>3
<1>4. CASE Accepts(p)
  <2>1. inbox' = Append(inbox, ingestionContext(Head(batch[p])))
    BY <1>4, AcceptedEntry
  <2>2. PICK n \in Nat : /\ DOMAIN inbox' = DOMAIN inbox \cup {n}
                         /\ inbox'[n] = ingestionContext(Head(batch[p]))
    BY <1>1, <2>1
  <2>3. /\ cursor' = [at |-> Head(batch[p]).at, offset |-> Head(batch[p]).offset]
        /\ Head(batch[p]) \in Item /\ cursor \in Cursor
    BY <1>4, AcceptedEntry
  <2>4. cursor' # NoCursor /\ cursor'.offset \in Nat
    BY <2>3, CursorMoves, CursorAssumption DEF Item
  <2>5. Behind(inbox[n])'
    BY <2>2, <2>3, <2>4, ContextPlace DEF Behind, Item
  <2>6. QED BY <1>2, <2>2, <2>5
<1>5. QED BY <1>3, <1>4 DEF StepOf, Durable, Subscribes, Acks

LEMMA AcksStayBehind ==
  ASSUME IInv, NEW p \in Processes, StepOf(p)
  PROVE  (\A j \in Incarnation : acked[j] > 0 => Behind([at |-> j, offset |-> acked[j]]))'
<1>1. acked \in [Incarnation -> Nat]
  BY DEF IInv, TypeOK
<1>2. ASSUME NEW j \in Incarnation, acked[j] > 0
      PROVE  Behind([at |-> j, offset |-> acked[j]])
  BY <1>2 DEF IInv, IntakeInv, CursorAhead
<1>3. \A c : c.offset \in Nat /\ Behind(c) => Behind(c)'
  BY CursorMoves
<1>4. CASE UNCHANGED acked
  <2> SUFFICES ASSUME NEW j \in Incarnation, acked[j] > 0
      PROVE  Behind([at |-> j, offset |-> acked[j]])'
    BY <1>4
  <2>1. /\ [at |-> j, offset |-> acked[j]].offset \in Nat
        /\ Behind([at |-> j, offset |-> acked[j]])
    BY <1>1, <1>2
  <2>2. QED BY <1>3, <1>4, <2>1 DEF Behind
<1>5. CASE \E c \in Cursor : Acks(c)
  <2>1. PICK c \in Cursor : Acks(c)
    BY <1>5
  <2>2. cursor' = cursor /\ c.at \in Incarnation /\ c.offset \in Nat /\ Behind(c)
    BY <2>1 DEF Acks, Cursor
  <2>3. acked' = [acked EXCEPT ![c.at] = IF c.offset > @ THEN c.offset ELSE @]
    BY <2>1 DEF Acks
  <2> SUFFICES ASSUME NEW j \in Incarnation, acked'[j] > 0
      PROVE  Behind([at |-> j, offset |-> acked'[j]])
    BY <2>2 DEF Behind
  <2>4. CASE j = c.at /\ c.offset > acked[j]
    BY <1>1, <2>2, <2>3, <2>4 DEF Behind
  <2>5. CASE ~(j = c.at /\ c.offset > acked[j])
    BY <1>1, <1>2, <2>2, <2>3, <2>5
  <2>6. QED BY <2>4, <2>5
<1>6. QED BY <1>4, <1>5 DEF StepOf, Durable, Subscribes, Accepts


(* --------------------- What each process knows stays so ------------------ *)
LEMMA ReadingsOfTick ==
  ASSUME IInv, NEW p \in Processes, Processing(p)
  PROVE  /\ remote'[p].earliest <= Len(journal[remote'[p].at])
         /\ \A n \in DOMAIN batch'[p] : Real(batch'[p][n])
<1> USE DEF Keep, Goto, At, external
<1>1. /\ batch \in [Processes -> Seq(Item)] /\ remote \in [Processes -> Status]
      /\ journal \in [Incarnation -> Seq(Entry)] /\ upstream.at \in Incarnation
  BY DEF IInv, TypeOK, Upstream
<1>2. /\ remote[p].earliest <= Len(journal[remote[p].at])
      /\ \A n \in DOMAIN batch[p] : Real(batch[p][n])
  BY DEF IInv, IntakeInv, ReadingsTrue
<1>3. CASE batch'[p] = batch[p] /\ remote'[p] = remote[p]
  BY <1>2, <1>3
<1>4. CASE Unlock(p) \/ Stop(p)
  <2>1. batch'[p] = <<>> /\ remote'[p] = NoStatus
    BY <1>1, <1>4 DEF Unlock, Stop, TickOver
  <2>2. First \in Incarnation /\ NoStatus.at = First /\ NoStatus.earliest = 0
    BY CollectorAssumption DEF First, Incarnation, NoStatus
  <2>3. Len(journal[First]) \in Nat
    BY <1>1, <2>2
  <2>4. DOMAIN <<>> = {}
    OBVIOUS
  <2>5. QED BY <2>1, <2>2, <2>3, <2>4
<1>5. CASE GetStatus(p)
  <2>1. /\ remote'[p].at = upstream.at /\ remote'[p].earliest = upstream.earliest
        /\ batch'[p] = batch[p]
    BY <1>1, <1>5 DEF GetStatus
  <2>2. upstream.earliest <= Len(Current)
    BY DEF IInv, IntakeInv, JournalsKnown
  <2>3. QED BY <1>2, <2>1, <2>2 DEF Current
<1>6. CASE ListDonations(p)
  <2>1. remote'[p] = remote[p]
    BY <1>6 DEF ListDonations
  <2>2. CASE batch' = batch
    BY <1>2, <2>1, <2>2
  <2>3. CASE /\ upstream.at.rev = local[p].at.rev
             /\ batch' = [batch EXCEPT ![p] = Listed(local[p].offset, local[p].at.rev)]
    <3>1. local[p] \in Cursor
      BY <1>6 DEF ListDonations, IInv, TypeOK, IntakeInv, CursorAhead, Tracking
    <3>2. PICK off \in Nat, rev \in 0 .. MaxRecovery :
            off = local[p].offset /\ rev = local[p].at.rev
      BY <3>1 DEF Cursor, Incarnation
    <3>3. batch'[p] = Listed(off, rev)
      BY <1>1, <2>3, <3>2
    <3>4. [gen |-> upstream.at.gen, rev |-> rev] = upstream.at
      BY <1>1, <2>3, <3>2 DEF Incarnation
    <3>5. TypeOK
      BY DEF IInv
    <3>6. ASSUME NEW m \in DOMAIN Listed(off, rev)
          PROVE  Real(Listed(off, rev)[m])
      <4> DEFINE i == Listed(off, rev)[m]
      <4>1. /\ i.at = upstream.at /\ i.offset \in DOMAIN Current
            /\ Current[i.offset] = EntryAt(i)
        BY <3>2, <3>4, <3>5, ListedType
      <4> HIDE DEF i
      <4>2. Real(i)
        BY <4>1 DEF Real, Current
      <4>3. QED BY <4>2 DEF i
    <3>7. QED BY <1>2, <2>1, <3>3, <3>6
  <2>4. QED BY <1>6, <2>2, <2>3 DEF ListDonations
<1>7. CASE AckDonation(p)
  <2>1. remote' = remote
    BY <1>7 DEF AckDonation
  <2>2. CASE batch' = batch
    BY <1>2, <2>1, <2>2
  <2>3. CASE batch' = [batch EXCEPT ![p] = Tail(@)]
    <3>1. batch'[p] = Tail(batch[p]) /\ batch[p] \in Seq(Item) /\ batch[p] # <<>>
      BY <1>1, <1>7, <2>3
      DEF AckDonation, IInv, IntakeInv, CursorAhead, Tracking
    <3>2. \A n \in DOMAIN Tail(batch[p]) : /\ n + 1 \in DOMAIN batch[p]
                                           /\ Tail(batch[p])[n] = batch[p][n + 1]
      BY <3>1
    <3>3. QED BY <1>2, <2>1, <3>1, <3>2
  <2>4. QED BY <1>7, <2>2, <2>3 DEF AckDonation
<1>8. CASE TryLock(p) \/ ReadCursor(p) \/ initializeCursor(p) \/ acceptDonation(p)
  BY <1>3, <1>8 DEF TryLock, ReadCursor, initializeCursor, acceptDonation
<1>9. CASE PublishAlert(p) \/ ReadDurable(p) \/ AckDurable(p)
  BY <1>3, <1>9 DEF PublishAlert, ReadDurable, AckDurable
<1>10. CASE Start(p) \/ CallFails(p) \/ AcceptedUnknown(p) \/ AckUnknown(p)
  BY <1>3, <1>10 DEF Start, CallFails, AcceptedUnknown, AckUnknown
<1>11. QED
  BY <1>4, <1>5, <1>6, <1>7, <1>8, <1>9, <1>10 DEF Processing, Tick

LEMMA ReadingsStayTrue ==
  ASSUME IInv, NEW p \in Processes, Processing(p)
  PROVE  ReadingsTrue'
<1>1. StepOf(p)
  BY ProcessingSteps
<1> SUFFICES ASSUME NEW q \in Processes
    PROVE  /\ remote'[q].earliest <= Len(journal[remote'[q].at])
           /\ \A n \in DOMAIN batch'[q] : Real(batch'[q][n])
  BY <1>1 DEF ReadingsTrue, Real, EntryAt, StepOf
<1>2. CASE q = p
  BY <1>2, ReadingsOfTick
<1>3. CASE q # p
  BY <1>1, <1>3 DEF StepOf, IInv, IntakeInv, ReadingsTrue
<1>4. QED BY <1>2, <1>3

(* Where a process goes next, it knows what it must know there. *)
LEMMA TrackingOfTick ==
  ASSUME IInv, NEW p \in Processes, Processing(p)
  PROVE  Tracking(p)'
<1> USE DEF Keep, Goto, At, external
<1>1. /\ pc \in [Processes -> Steps] /\ local \in [Processes -> Cursor \cup {NoCursor}]
      /\ batch \in [Processes -> Seq(Item)] /\ cursor \in Cursor \cup {NoCursor}
  BY DEF IInv, TypeOK
<1>2. Tracking(p)
  BY DEF IInv, IntakeInv, CursorAhead
<1>3. StepOf(p)
  BY ProcessingSteps
<1>4. /\ cursor # NoCursor => cursor' # NoCursor
      /\ \A c : c.offset \in Nat /\ Behind(c) => Behind(c)'
  BY <1>3, CursorMoves
<1>5. CASE pc'[p] \notin {"list", "accept", "alert", "ack", "ack_durable"}
  BY <1>5 DEF Tracking
<1>6. CASE TryLock(p) \/ GetStatus(p) \/ initializeCursor(p)
  <2>1. pc'[p] \in {"status", "cursor", "finally"}
    BY <1>1, <1>6 DEF TryLock, GetStatus, initializeCursor
  <2>2. QED BY <1>5, <2>1
<1>7. CASE Start(p) \/ CallFails(p) \/ AcceptedUnknown(p) \/ AckUnknown(p) \/ Stop(p)
           \/ Unlock(p) \/ AckDurable(p)
  <2>1. pc'[p] \in {"idle", "off", "finally"}
    BY <1>1, <1>7
    DEF Start, CallFails, AcceptedUnknown, AckUnknown, Stop, Unlock, AckDurable
  <2>2. QED BY <1>5, <2>1
<1>8. CASE ReadCursor(p)
  <2>1. /\ pc'[p] \in {"initialize", "list", "finally"} /\ cursor' = cursor
        /\ local'[p] = cursor /\ (pc'[p] = "list" => cursor # NoCursor)
    BY <1>1, <1>8 DEF ReadCursor
  <2>2. QED BY <2>1 DEF Tracking
<1>9. CASE ListDonations(p)
  <2>1. pc'[p] \in {"accept", "finally"} /\ local'[p] = local[p] /\ cursor' = cursor
        /\ pc[p] = "list"
    BY <1>1, <1>9 DEF ListDonations
  <2>2. QED BY <1>2, <2>1 DEF Tracking
<1>10. CASE acceptDonation(p)
  <2> DEFINE i == Head(batch[p])
  <2>1. /\ pc'[p] \in {"alert", "ack", "finally"} /\ local'[p] = local[p]
        /\ batch'[p] = batch[p] /\ batch[p] # <<>> /\ pc[p] = "accept"
        /\ pc'[p] = "ack" => Duplicate(i)
        /\ pc'[p] = "alert" => Store(i) /\ acked' = acked
    BY <1>1, <1>10 DEF acceptDonation
  <2>2. i \in Item /\ i.offset \in Nat
    <3>1. i \in Item
      BY <1>1, <2>1, HeadTailProperties
    <3>2. QED BY <3>1 DEF Item
  <2>3. pc'[p] = "ack" => Behind(i)'
    BY <1>4, <2>1, <2>2, DuplicateBehind
  <2>4. pc'[p] = "alert" => Behind(i)'
    <3> SUFFICES ASSUME pc'[p] = "alert" PROVE Behind(i)'
      OBVIOUS
    <3>1. Accepts(p)
      BY <2>1 DEF Accepts
    <3>2. cursor' = [at |-> i.at, offset |-> i.offset] /\ cursor # NoCursor
          /\ batch'[p] = batch[p]
      BY <2>1, <3>1, AcceptedEntry, CursorAssumption
    <3>3. QED BY <1>4, <2>2, <3>2 DEF Behind
  <2>5. cursor' # NoCursor /\ local[p] # NoCursor
    BY <1>2, <1>4, <2>1 DEF Tracking
  <2>6. QED BY <2>1, <2>3, <2>4, <2>5 DEF Tracking
<1>11. CASE PublishAlert(p)
  <2>1. /\ pc'[p] = "ack" /\ pc[p] = "alert" /\ cursor' = cursor
        /\ local'[p] = local[p] /\ batch'[p] = batch[p]
    BY <1>1, <1>11 DEF PublishAlert
  <2>2. QED BY <1>2, <2>1 DEF Tracking, Behind
<1>12. CASE AckDonation(p)
  <2>1. /\ pc'[p] \in {"accept", "finally"} /\ pc[p] = "ack" /\ cursor' = cursor
        /\ local'[p] = local[p]
    BY <1>1, <1>12 DEF AckDonation
  <2>2. QED BY <1>2, <2>1 DEF Tracking
<1>13. CASE ReadDurable(p)
  <2>1. /\ pc'[p] \in {"ack_durable", "finally"} /\ pc[p] = "accept" /\ cursor' = cursor
        /\ local'[p] = cursor
    BY <1>1, <1>13 DEF ReadDurable
  <2>2. cursor \in Cursor /\ cursor # NoCursor
    BY <1>1, <1>2, <2>1 DEF Tracking
  <2>3. Behind(local[p])'
    BY <2>1, <2>2 DEF Behind, Cursor
  <2>4. QED BY <2>1, <2>2, <2>3 DEF Tracking
<1>14. QED
  BY <1>6, <1>7, <1>8, <1>9, <1>10, <1>11, <1>12, <1>13 DEF Processing, Tick

LEMMA CursorStaysAhead ==
  ASSUME IInv, NEW p \in Processes, Processing(p)
  PROVE  CursorAhead'
<1>1. StepOf(p)
  BY ProcessingSteps
<1>2. /\ cursor # NoCursor => cursor' # NoCursor
      /\ \A c : c.offset \in Nat /\ Behind(c) => Behind(c)'
      /\ cursor' # NoCursor => cursor'.offset <= Len(journal'[cursor'.at])
  BY <1>1, CursorMoves
<1>3. ASSUME NEW q \in Processes PROVE Tracking(q)'
  <2>1. CASE q = p
    BY <2>1, TrackingOfTick
  <2>2. CASE q # p
    <3>1. pc'[q] = pc[q] /\ local'[q] = local[q] /\ batch'[q] = batch[q]
      BY <1>1, <2>2 DEF StepOf
    <3>2. Tracking(q) /\ local[q] \in Cursor \cup {NoCursor} /\ batch[q] \in Seq(Item)
      BY DEF IInv, TypeOK, IntakeInv, CursorAhead
    <3>3. pc[q] \in {"alert", "ack"} => Behind(Head(batch[q]))'
      <4> SUFFICES ASSUME pc[q] \in {"alert", "ack"} PROVE Behind(Head(batch[q]))'
        OBVIOUS
      <4>1. Head(batch[q]) \in Item /\ Behind(Head(batch[q]))
        BY <3>2, HeadTailProperties DEF Tracking
      <4>2. Head(batch[q]).offset \in Nat
        BY <4>1 DEF Item
      <4>3. QED BY <1>2, <3>1, <4>1, <4>2 DEF Behind
    <3>4. pc[q] = "ack_durable" => Behind(local[q])'
      <4> SUFFICES ASSUME pc[q] = "ack_durable" PROVE Behind(local[q])'
        OBVIOUS
      <4>1. local[q] \in Cursor /\ Behind(local[q])
        BY <3>2 DEF Tracking
      <4>2. local[q].offset \in Nat
        BY <4>1 DEF Cursor
      <4>3. QED BY <1>2, <3>1, <4>1, <4>2 DEF Behind
    <3>5. QED BY <1>2, <3>1, <3>2, <3>3, <3>4 DEF Tracking
  <2>3. QED BY <2>1, <2>2
<1>4. QED BY <1>1, <1>2, <1>3, RowsStayBehind, AcksStayBehind DEF CursorAhead


(* ------------------------------ Alerts are single ------------------------ *)
LEMMA AlertsStaySingle ==
  ASSUME IInv, NEW p \in Processes, Processing(p)
  PROVE  AlertsDue' /\ AlertedOnce'
<1> USE DEF Keep, Goto, At, external
<1>1. /\ pc \in [Processes -> Steps] /\ batch \in [Processes -> Seq(Item)]
      /\ inbox \in Seq(Row) /\ alerts \in [Events -> Nat]
  BY DEF IInv, TypeOK
<1>2. AlertsDue /\ AlertedOnce
  BY DEF IInv, IntakeInv
<1>3. \A q \in Processes \ {p} : pc'[q] = pc[q] /\ batch'[q] = batch[q]
  BY ProcessingSteps DEF StepOf
<1>4. CASE UNCHANGED <<inbox, alerts>> /\ pc'[p] # "alert"
  <2>1. \A e \in Events : Stored(e)' <=> Stored(e)
    BY <1>4 DEF Stored
  <2>2. \A q \in Processes, e \in Events : Showing(q, e)' => Showing(q, e) /\ q # p
    BY <1>3, <1>4 DEF Showing
  <2>3. QED BY <1>2, <1>4, <2>1, <2>2 DEF AlertsDue, AlertedOnce
<1>5. CASE Accepts(p) /\ alerts' = alerts /\ batch'[p] = batch[p]
  <2> DEFINE i == Head(batch[p])
  <2>1. /\ i \in Item /\ Saved(i) = {}
        /\ inbox' = Append(inbox, ingestionContext(i))
    BY <1>5, AcceptedEntry
  <2>2. i.event \in Events /\ ~Stored(i.event)
    BY <2>1 DEF Item, Saved, Stored
  <2>3. alerts[i.event] = 0
    BY <1>1, <1>2, <2>2 DEF AlertedOnce
  <2>4. \A e \in Events : Stored(e)' <=> Stored(e) \/ e = i.event
    <3>1. PICK row : row = ingestionContext(i)
      OBVIOUS
    <3>2. inbox' = Append(inbox, row)
      BY <2>1, <3>1
    <3>3. /\ DOMAIN inbox' = DOMAIN inbox \cup {Len(inbox) + 1}
          /\ inbox'[Len(inbox) + 1] = row
          /\ \A k \in DOMAIN inbox : inbox'[k] = inbox[k]
      BY <1>1, <3>2
    <3>4. row.event = i.event
      BY <3>1, ContextPlace
    <3>5. QED BY <3>3, <3>4 DEF Stored
  <2>5. \A q \in Processes \ {p} : ~Showing(q, i.event)
    BY <1>2, <2>2 DEF AlertsDue
  <2>6. /\ \A q \in Processes \ {p}, e \in Events : Showing(q, e)' <=> Showing(q, e)
        /\ \A e \in Events : Showing(p, e)' => e = i.event
    BY <1>3, <1>5 DEF Showing
  <2> HIDE DEF i
  <2>7. AlertedOnce'
    BY <1>2, <1>5, <2>3, <2>4 DEF AlertedOnce
  <2>8. AlertsDue'
    <3> SUFFICES ASSUME NEW q \in Processes, NEW e \in Events, Showing(q, e)'
        PROVE  /\ Stored(e)' /\ alerts'[e] = 0
               /\ \A r \in Processes \ {q} : ~Showing(r, e)'
      BY DEF AlertsDue
    <3>1. CASE q = p
      BY <1>5, <2>3, <2>4, <2>5, <2>6, <3>1
    <3>2. CASE q # p
      <4>1. Showing(q, e) /\ Stored(e) /\ alerts[e] = 0
            /\ \A r \in Processes \ {q} : ~Showing(r, e)
        BY <1>2, <2>6, <3>2 DEF AlertsDue
      <4>2. e # i.event
        BY <2>5, <3>2, <4>1
      <4>3. QED BY <1>5, <2>4, <2>6, <4>1, <4>2
    <3>3. QED BY <3>1, <3>2
  <2>9. QED BY <2>7, <2>8
<1>6. CASE PublishAlert(p)
  <2> DEFINE shown == Head(batch[p]).event
  <2>1. /\ pc[p] = "alert" /\ pc'[p] = "ack" /\ inbox' = inbox
        /\ alerts' = [alerts EXCEPT ![shown] = @ + 1]
    BY <1>1, <1>6 DEF PublishAlert
  <2>2. shown \in Events
    <3>1. Head(batch[p]) \in Item
      BY <1>1, <2>1, HeadTailProperties DEF IInv, IntakeInv, CursorAhead, Tracking
    <3>2. QED BY <3>1 DEF Item
  <2>3. Showing(p, shown)
    BY <2>1 DEF Showing
  <2> HIDE DEF shown
  <2>4. Stored(shown) /\ alerts[shown] = 0 /\ \A q \in Processes \ {p} : ~Showing(q, shown)
    BY <1>2, <2>2, <2>3 DEF AlertsDue
  <2>5. /\ \A e \in Events : Stored(e)' <=> Stored(e)
        /\ \A e \in Events : alerts'[e] = IF e = shown THEN 1 ELSE alerts[e]
    BY <1>1, <2>1, <2>2, <2>4 DEF Stored
  <2>6. \A q \in Processes, e \in Events : Showing(q, e)' => Showing(q, e) /\ q # p
    BY <1>3, <2>1 DEF Showing
  <2>7. AlertedOnce'
    BY <1>2, <2>4, <2>5 DEF AlertedOnce
  <2>8. AlertsDue'
    BY <1>2, <2>4, <2>5, <2>6 DEF AlertsDue
  <2>9. QED BY <2>7, <2>8
<1>7. CASE acceptDonation(p)
  <2>1. CASE Store(Head(batch[p]))
    BY <1>5, <1>7, <2>1 DEF acceptDonation, Accepts
  <2>2. CASE UNCHANGED <<inbox, cursor>> /\ pc'[p] \in {"ack", "finally"}
    BY <1>4, <1>7, <2>2 DEF acceptDonation
  <2>3. QED BY <1>1, <1>7, <2>1, <2>2 DEF acceptDonation
<1>8. CASE AcceptedUnknown(p)
  BY <1>5, <1>8 DEF AcceptedUnknown, Accepts
<1>9. CASE TryLock(p) \/ GetStatus(p) \/ ReadCursor(p) \/ initializeCursor(p)
  <2>1. UNCHANGED <<inbox, alerts>>
    BY <1>9 DEF TryLock, GetStatus, ReadCursor, initializeCursor
  <2>2. pc'[p] \in {"status", "cursor", "initialize", "list", "finally"}
    BY <1>1, <1>9 DEF TryLock, GetStatus, ReadCursor, initializeCursor
  <2>3. QED BY <1>4, <2>1, <2>2
<1>10. CASE ListDonations(p) \/ AckDonation(p) \/ ReadDurable(p) \/ AckDurable(p)
  <2>1. UNCHANGED <<inbox, alerts>>
    BY <1>10 DEF ListDonations, AckDonation, ReadDurable, AckDurable
  <2>2. pc'[p] \in {"accept", "ack_durable", "finally"}
    BY <1>1, <1>10 DEF ListDonations, AckDonation, ReadDurable, AckDurable
  <2>3. QED BY <1>4, <2>1, <2>2
<1>11. CASE Unlock(p) \/ Start(p) \/ CallFails(p) \/ AckUnknown(p) \/ Stop(p)
  <2>1. UNCHANGED <<inbox, alerts>>
    BY <1>11 DEF Unlock, Start, CallFails, AckUnknown, Stop
  <2>2. pc'[p] \in {"idle", "off", "finally"}
    BY <1>1, <1>11 DEF Unlock, Start, CallFails, AckUnknown, Stop
  <2>3. QED BY <1>4, <2>1, <2>2
<1>12. QED
  BY <1>6, <1>7, <1>8, <1>9, <1>10, <1>11 DEF Processing, Tick

(* --------------------------- The invariant holds ------------------------- *)
LEMMA ProcessingKeeps ==
  ASSUME IInv, NEW p \in Processes, Processing(p)
  PROVE  IntakeInv'
<1>1. UNCHANGED <<journal, upstream, game>>
  BY ProcessingSteps DEF StepOf
<1>2. JournalsKnown'
  BY <1>1 DEF IInv, IntakeInv, JournalsKnown, Current
<1>3. QED
  BY <1>2, ReadingsStayTrue, CursorStaysAhead, AlertsStaySingle DEF IntakeInv

LEMMA PlayingKeeps ==
  ASSUME IInv, OpenSession \/ EndSession \/ \E r \in Rules : PublishRules(r)
  PROVE  /\ IntakeInv'
         /\ UNCHANGED <<journal, upstream, acked, cursor, inbox, alerts, process>>
<1>1. /\ UNCHANGED <<journal, upstream, acked, cursor, inbox, alerts, process>>
  BY DEF OpenSession, EndSession, PublishRules, Playing
<1>2. game.opened <= game'.opened /\ game.opened \in Nat /\ game'.opened \in Nat
  <2>1. game \in Game /\ game.opened \in Nat
    BY DEF IInv, TypeOK, Game
  <2>2. game'.opened \in {game.opened, game.opened + 1}
    BY <2>1 DEF OpenSession, EndSession, PublishRules, Playing, Game
  <2>3. QED BY <2>1, <2>2
<1>3. JournalsKnown'
  <2>1. ASSUME NEW j \in Incarnation, NEW n \in DOMAIN journal[j]
        PROVE  journal[j][n].observed <= game'.opened
    <3>1. journal[j][n] \in Entry
      BY DEF IInv, TypeOK
    <3>2. journal[j][n].observed \in Nat /\ journal[j][n].observed <= game.opened
      BY <3>1 DEF Entry, IInv, IntakeInv, JournalsKnown
    <3>3. QED BY <1>2, <3>2
  <2>2. QED BY <1>1, <2>1 DEF IInv, IntakeInv, JournalsKnown, Current
<1>4. \A j \in Incarnation : Intake!Continues(journal[j], journal'[j])
  <2>1. \A j \in Incarnation : journal[j] \in Seq(Entry)
    BY DEF IInv, TypeOK
  <2>2. \A j \in Incarnation : Len(journal[j]) \in Nat
    BY <2>1
  <2>3. QED BY <1>1, <2>2 DEF Intake!Continues
<1>5. journal' \in [Incarnation -> Seq(Entry)]
  BY <1>1 DEF IInv, TypeOK
<1>6. QED BY <1>1, <1>3, <1>4, <1>5, GrowthKeeps

LEMMA IntakeInit == Init => IInv
<1> SUFFICES ASSUME Init PROVE IInv
  OBVIOUS
<1>1. First \in Incarnation
  BY CollectorAssumption DEF First, Incarnation
<1>2. TypeOK
  <2>1. upstream \in Upstream /\ game \in Game
    BY <1>1 DEF Init, Upstream, Game
  <2>2. 0 \in 0 .. MaxFaults
    BY CollectorAssumption
  <2>3. QED BY <1>1, <2>1, <2>2, NoStatusType DEF Init, TypeOK, Steps
<1>3. JournalsKnown
  BY <1>1 DEF Init, JournalsKnown, Current
<1>4. ReadingsTrue
  <2> SUFFICES ASSUME NEW p \in Processes
      PROVE  /\ remote[p].earliest <= Len(journal[remote[p].at])
             /\ \A n \in DOMAIN batch[p] : Real(batch[p][n])
    BY DEF ReadingsTrue
  <2>1. batch[p] = <<>> /\ remote[p].earliest = 0 /\ remote[p].at \in Incarnation
    BY <1>1 DEF Init, NoStatus
  <2>2. journal[remote[p].at] = <<>>
    BY <2>1 DEF Init
  <2>3. Len(journal[remote[p].at]) = 0 /\ DOMAIN batch[p] = {}
    BY <2>1, <2>2
  <2>4. QED BY <2>1, <2>3
<1>5. CursorAhead
  BY DEF Init, CursorAhead, Tracking
<1>6. AlertsDue /\ AlertedOnce
  BY DEF Init, AlertsDue, AlertedOnce, Showing, Stored
<1>7. QED BY <1>2, <1>3, <1>4, <1>5, <1>6 DEF IInv, IntakeInv

LEMMA IntakeNext == IInv /\ [Next]_vars => IInv'
<1> SUFFICES ASSUME IInv, [Next]_vars PROVE IInv'
  OBVIOUS
<1>1. ASSUME NEW p \in Processes, Processing(p) PROVE IInv'
  <2>1. TypeOK'
    BY <1>1, TickType, OtherType DEF Processing, Failures
  <2>2. QED BY <1>1, <2>1, ProcessingKeeps DEF IInv
<1>2. CASE External
  <2>1. TypeOK'
    BY <1>2, ExternalType
  <2>2. /\ \A j \in Incarnation : Intake!Continues(journal[j], journal'[j])
        /\ JournalsKnown' /\ UNCHANGED <<acked, cursor, inbox, alerts, process>>
    BY <1>2, ExternalKeeps
  <2>3. journal' \in [Incarnation -> Seq(Entry)]
    BY <2>1 DEF TypeOK
  <2>4. QED BY <2>1, <2>2, <2>3, GrowthKeeps DEF IInv
<1>3. CASE OpenSession \/ EndSession \/ \E r \in Rules : PublishRules(r)
  BY <1>3, OtherType, PlayingKeeps DEF IInv
<1>4. CASE GuardLost \/ UNCHANGED vars
  <2>1. TypeOK'
    BY <1>4, OtherType DEF Failures
  <2>2. UNCHANGED <<journal, upstream, game, acked, cursor, inbox, alerts, pc, local,
                    batch, remote>>
    BY <1>4 DEF GuardLost, vars, external, process
  <2>3. IntakeInv
    BY DEF IInv
  <2>4. JournalsKnown' /\ ReadingsTrue'
    BY <2>2, <2>3 DEF IntakeInv, JournalsKnown, ReadingsTrue, Real, EntryAt, Current
  <2>5. CursorAhead'
    BY <2>2, <2>3 DEF IntakeInv, CursorAhead, Tracking, Behind
  <2>6. AlertsDue' /\ AlertedOnce'
    BY <2>2, <2>3 DEF IntakeInv, AlertsDue, AlertedOnce, Showing, Stored
  <2>7. QED BY <2>1, <2>4, <2>5, <2>6 DEF IInv, IntakeInv
<1>5. QED BY <1>1, <1>2, <1>3, <1>4 DEF Next, Failures, Processing

(* The inductive invariant of the intake: what processes have read of the  *)
(* journal is true, and nothing stored or acknowledged is ahead of the     *)
(* durable cursor.                                                         *)
THEOREM IntakeIsSound == Spec => [](TypeOK /\ IntakeInv)
<1>1. IInv => TypeOK /\ IntakeInv
  BY DEF IInv
<1>2. QED BY <1>1, IntakeInit, IntakeNext, PTL DEF Spec

(* Every row, cursor, listing and count is of the type the code gives it,  *)
(* at every line of every tick.                                            *)
THEOREM CollectorTypes == Spec => []TypeOK
<1>1. TypeOK /\ IntakeInv => TypeOK
  OBVIOUS
<1>2. QED BY <1>1, IntakeIsSound, PTL

(* The overlay shows a donation's alert at most once, and only when it is  *)
(* stored, whatever processes, locks and calls do.                         *)
THEOREM AlertsAreSingle == Spec => []AlertedOnce
<1>1. TypeOK /\ IntakeInv => AlertedOnce
  BY DEF IntakeInv
<1>2. QED BY <1>1, IntakeIsSound, PTL


(* ------------------------ A donation and its session --------------------- *)
(* A row that an acceptance adds and that may act belongs to the session   *)
(* open while its donation was observed.                                   *)
LEMMA AcceptedBelongs ==
  ASSUME IInv, NEW p \in Processes, Accepts(p),
         NEW k \in DOMAIN inbox' \ DOMAIN inbox, inbox'[k].disposition = "pending"
  PROVE  game.open /\ inbox'[k].session = game.opened /\ inbox'[k].observed = game.opened
<1> DEFINE i == Head(batch[p])
<1>1. /\ i \in Item /\ Real(i) /\ inbox' = Append(inbox, ingestionContext(i))
  BY AcceptedEntry
<1> HIDE DEF i
<1>2. PICK row : row = ingestionContext(i)
  OBVIOUS
<1>3. inbox'[k] = row
  <2>1. inbox \in Seq(Row) /\ inbox' = Append(inbox, row)
    BY <1>1, <1>2 DEF IInv, TypeOK
  <2>2. QED BY <2>1
<1>4. row.disposition = "pending" /\ row.observed = i.observed
  BY <1>2, <1>3, ContextPlace
<1>5. game.open /\ row.session = game.opened /\ i.observed >= game.opened
  BY <1>2, <1>4 DEF ingestionContext, RowOf
<1>6. i.observed <= game.opened
  <2>1. i.at \in Incarnation /\ i.offset \in DOMAIN journal[i.at]
        /\ journal[i.at][i.offset] = EntryAt(i)
    BY <1>1 DEF Real, Item
  <2>2. journal[i.at][i.offset].observed <= game.opened
    BY <2>1 DEF IInv, IntakeInv, JournalsKnown
  <2>3. QED BY <2>1, <2>2 DEF EntryAt
<1>7. game.opened \in Nat /\ i.observed \in Nat
  BY <1>1 DEF Item, IInv, TypeOK, Game
<1>8. QED BY <1>3, <1>4, <1>5, <1>6, <1>7

(* What a step does to the durable state: it grows the journals, or plays, *)
(* or is a step of a process.                                              *)
LEMMA StepKinds ==
  ASSUME IInv, IInv', [Next]_vars
  PROVE  \/ /\ \A j \in Incarnation : Intake!Continues(journal[j], journal'[j])
            /\ UNCHANGED <<acked, cursor, inbox, game>>
         \/ UNCHANGED <<journal, acked, cursor, inbox>>
         \/ \E p \in Processes : StepOf(p)
<1>1. CASE External
  BY <1>1, ExternalKeeps
<1>2. CASE OpenSession \/ EndSession \/ \E r \in Rules : PublishRules(r)
  BY <1>2, PlayingKeeps
<1>3. CASE GuardLost \/ UNCHANGED vars
  BY <1>3 DEF GuardLost, external, vars
<1>4. CASE \E p \in Processes : Processing(p)
  BY <1>4, ProcessingSteps
<1>5. QED BY <1>1, <1>2, <1>3, <1>4 DEF Next, Failures, Processing

(* A donation acts on nothing but the session during which it was observed.*)
THEOREM DonationsBelongToSessions == Spec => DonationsBelong
<1>1. IInv /\ IInv' /\ [Next]_vars =>
        [\A k \in DOMAIN inbox' \ DOMAIN inbox :
           inbox'[k].disposition = "pending" =>
             game.open /\ inbox'[k].session = game.opened
               /\ inbox'[k].observed = game.opened]_vars
  <2> SUFFICES ASSUME IInv, IInv', [Next]_vars,
                      NEW k \in DOMAIN inbox' \ DOMAIN inbox,
                      inbox'[k].disposition = "pending"
      PROVE  game.open /\ inbox'[k].session = game.opened
               /\ inbox'[k].observed = game.opened
    OBVIOUS
  <2>1. PICK p \in Processes : StepOf(p)
    BY StepKinds
  <2>2. Accepts(p)
    BY <2>1 DEF StepOf, Durable, Subscribes, Acks
  <2>3. QED BY <2>2, AcceptedBelongs
<1>2. QED BY <1>1, IntakeInit, IntakeNext, PTL DEF Spec, DonationsBelong

(* ------------------------ The abstract intake is kept -------------------- *)
LEMMA IntakeStarts == Init => Intake!Init
<1> SUFFICES ASSUME Init PROVE Intake!Init
  OBVIOUS
<1>1. inbox = <<>> /\ DOMAIN <<>> = {}
  BY DEF Init
<1>2. StoredEntries = <<>>
  BY <1>1 DEF StoredEntries
<1>3. QED BY <1>2 DEF Init, Intake!Init

LEMMA IntakeAdvances ==
  ASSUME IInv, IInv', [Next]_vars
  PROVE  [Intake!Next]_Intake!vars
<1>1. CASE UNCHANGED <<journal, acked, cursor, inbox>>
  BY <1>1 DEF Intake!vars, StoredEntries
<1>2. CASE /\ \A j \in Incarnation : Intake!Continues(journal[j], journal'[j])
           /\ UNCHANGED <<acked, cursor, inbox, game>>
  <2>1. journal' \in [Incarnation -> Seq(Entry)]
    BY DEF IInv, TypeOK
  <2>2. StoredEntries' = StoredEntries
    BY <1>2 DEF StoredEntries
  <2>3. Intake!Grow
    BY <1>2, <2>1, <2>2 DEF Intake!Grow
  <2>4. QED BY <2>3 DEF Intake!Next
<1>3. ASSUME NEW p \in Processes, StepOf(p)
      PROVE  [Intake!Next]_Intake!vars
  <2>1. journal' = journal
    BY <1>3 DEF StepOf
  <2>2. CASE UNCHANGED <<cursor, inbox, acked>>
    BY <1>1, <2>1, <2>2
  <2>3. CASE Subscribes(p)
    <3>1. StoredEntries' = StoredEntries
      BY <2>3 DEF Subscribes, StoredEntries
    <3>2. /\ remote[p].at \in Incarnation /\ remote[p].earliest \in Nat
          /\ remote[p].earliest <= Len(journal[remote[p].at])
      BY DEF IInv, TypeOK, Status, IntakeInv, ReadingsTrue
    <3>3. remote[p].earliest \in 0 .. Len(journal[remote[p].at])
      <4>1. Len(journal[remote[p].at]) \in Nat
        BY <3>2 DEF IInv, TypeOK
      <4>2. QED BY <3>2, <4>1
    <3>4. Intake!Subscribe
      BY <2>1, <2>3, <3>1, <3>2, <3>3 DEF Subscribes, Intake!Subscribe
    <3>5. QED BY <3>4 DEF Intake!Next
  <2>4. CASE Accepts(p)
    <3> DEFINE i == Head(batch[p])
    <3>1. /\ i \in Item /\ Real(i) /\ cursor \in Cursor /\ i.at = cursor.at
          /\ i.offset = cursor.offset + 1 /\ cursor' = [at |-> i.at, offset |-> i.offset]
          /\ inbox' = Append(inbox, ingestionContext(i)) /\ Saved(i) = {}
      BY <2>4, AcceptedEntry
    <3> HIDE DEF i
    <3>2. acked' = acked
      BY <2>4 DEF Accepts
    <3>3. PICK row : row = ingestionContext(i)
      OBVIOUS
    <3>4. EntryOf(row) = [at |-> i.at, offset |-> i.offset, entry |-> EntryAt(i)]
      BY <3>3, ContextPlace DEF EntryOf, EntryAt
    <3>5. StoredEntries' = Append(StoredEntries, EntryOf(row))
      <4>1. inbox \in Seq(Row) /\ inbox' = Append(inbox, row)
        BY <3>1, <3>3 DEF IInv, TypeOK
      <4>2. /\ DOMAIN inbox' = 1 .. Len(inbox) + 1 /\ inbox'[Len(inbox) + 1] = row
            /\ \A k \in 1 .. Len(inbox) : inbox'[k] = inbox[k]
            /\ Len(inbox) \in Nat /\ DOMAIN inbox = 1 .. Len(inbox)
        BY <4>1
      <4>3. StoredEntries = [k \in 1 .. Len(inbox) |-> EntryOf(inbox[k])]
        BY <4>2 DEF StoredEntries
      <4>4. Append(StoredEntries, EntryOf(row)) =
              [k \in 1 .. Len(inbox) + 1 |->
                 IF k = Len(inbox) + 1 THEN EntryOf(row) ELSE EntryOf(inbox[k])]
        BY <4>2, <4>3
      <4>5. StoredEntries' = [k \in 1 .. Len(inbox) + 1 |-> EntryOf(inbox'[k])]
        BY <4>2 DEF StoredEntries
      <4>6. \A k \in 1 .. Len(inbox) + 1 :
              EntryOf(inbox'[k]) = IF k = Len(inbox) + 1 THEN EntryOf(row)
                                                          ELSE EntryOf(inbox[k])
        BY <4>2
      <4>7. QED BY <4>4, <4>5, <4>6
    <3>6. /\ cursor # NoCursor /\ i.offset <= Len(journal[i.at])
          /\ journal[i.at][i.offset] = EntryAt(i)
      <4>1. journal[i.at] \in Seq(Entry)
        BY <3>1 DEF Item, IInv, TypeOK
      <4>2. QED BY <3>1, <4>1, CursorAssumption DEF Real
    <3>7. \A k \in DOMAIN StoredEntries :
            StoredEntries[k].entry.event # journal[i.at][i.offset].event
      BY <3>1, <3>6 DEF Saved, StoredEntries, EntryOf, EntryAt
    <3>8. Intake!Store
      BY <2>1, <3>1, <3>2, <3>4, <3>5, <3>6, <3>7 DEF Intake!Store
    <3>9. QED BY <3>8 DEF Intake!Next
  <2>5. CASE \E c \in Cursor : Acks(c)
    <3>1. PICK c \in Cursor : Acks(c)
      BY <2>5
    <3>2. /\ Behind(c) /\ c.at \in Incarnation /\ c.offset \in Nat /\ cursor' = cursor
          /\ acked' = [acked EXCEPT ![c.at] = IF c.offset > @ THEN c.offset ELSE @]
          /\ inbox' = inbox
      BY <3>1 DEF Acks, Cursor
    <3>3. /\ cursor # NoCursor /\ cursor.at = c.at /\ c.offset <= cursor.offset
          /\ cursor.offset \in Nat
      BY <3>2 DEF Behind, Cursor, IInv, TypeOK
    <3>4. acked[c.at] \in Nat /\ acked[c.at] <= cursor.offset
      <4>1. acked[c.at] \in Nat
        BY <3>2 DEF IInv, TypeOK
      <4>2. CASE acked[c.at] > 0
        <5>1. Behind([at |-> c.at, offset |-> acked[c.at]])
          BY <3>2, <4>2 DEF IInv, IntakeInv, CursorAhead
        <5>2. QED BY <4>1, <5>1 DEF Behind
      <4>3. QED BY <3>3, <4>1, <4>2
    <3>5. PICK n : n = IF c.offset > acked[c.at] THEN c.offset ELSE acked[c.at]
      OBVIOUS
    <3>6. n \in acked[cursor.at] .. cursor.offset
      BY <3>2, <3>3, <3>4, <3>5
    <3>7. acked' = [acked EXCEPT ![cursor.at] = n]
      BY <3>2, <3>3, <3>5
    <3>8. StoredEntries' = StoredEntries
      BY <3>2 DEF StoredEntries
    <3>9. Intake!Acknowledge
      BY <2>1, <3>2, <3>3, <3>6, <3>7, <3>8 DEF Intake!Acknowledge
    <3>10. QED BY <3>9 DEF Intake!Next
  <2>6. QED BY <1>3, <2>2, <2>3, <2>4, <2>5 DEF StepOf, Durable
<1>4. QED BY <1>1, <1>2, <1>3, StepKinds

(* Receiving donations implements the abstract intake: every donation is   *)
(* stored once, in the order of its journal, with none skipped, and        *)
(* acknowledged only when stored.                                          *)
THEOREM IntakeIsKept == Spec => IntakeKept
<1>1. Init => Intake!Init
  BY IntakeStarts
<1>2. IInv /\ IInv' /\ [Next]_vars => [Intake!Next]_Intake!vars
  BY IntakeAdvances
<1>3. QED
  BY <1>1, <1>2, IntakeInit, IntakeNext, PTL DEF Spec, IntakeKept, Intake!Spec

=============================================================================
