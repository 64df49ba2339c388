------------------------ MODULE CommandChannelProofs ------------------------
(***************************************************************************)
(* That the operator is told the truth, for any number of commands, other  *)
(* consoles, lost requests and reloads.                                    *)
(*                                                                         *)
(* The argument: a game and its revision only advance, so a command for a  *)
(* revision that is over is refused for ever, however late a request for it*)
(* arrives; and no snapshot can be shown that was asked for before the     *)
(* fence a command raised, or that is older than one of the same game.     *)
(***************************************************************************)
EXTENDS CommandChannelProperties, TLAPS, FiniteSetTheorems

(* What was read of the game, b, is not ahead of it.                       *)
Behind(b) == b.game < game \/ (b.game = game /\ b.revision <= revision)

(* Snapshots are not ahead of the game, and those of one game are ordered  *)
(* by the commits they were read after.                                    *)
Snapshots == ({view, carried} \cup {p.answer : p \in polls}) \ {None}
SnapshotsTrue ==
  /\ open => game > 0
  /\ \A s \in Snapshots :
       Behind(s) /\ s.at <= commits /\ (s.game = 0 => s.revision = 0)
  /\ \A s, t \in Snapshots : s.game = t.game /\ s.revision < t.revision => s.at <= t.at

(* A command is executed once, and only told done if it was.               *)
Once(i) == executed[i] = {} \/ \E c \in 0 .. commits : executed[i] = {c}
IntentTrue(i) ==
  /\ Once(i)
  /\ body[i] = None => executed[i] = {} /\ told[i] = "nothing" /\ late[i] = 0
  /\ body[i] # None /\ told[i] = "nothing" => pending = i
  /\ body[i] # None /\ i \notin Creates => Behind(body[i])
  /\ told[i] = "done" => Known(i)

(* Where the page is tells what became of the command it is waiting for.   *)
PageTrue ==
  /\ pending # None => body[pending] # None /\ told[pending] = "nothing"
  /\ pc # "idle" => pending # None
  /\ pc \in {"accepted", "read", "apply"} => Known(pending)
  /\ pc = "apply" =>
       /\ carried # None
       /\ \A i \in Intents : told[i] = "done" \/ i = pending =>
            \A c \in executed[i] : c <= carried.at

(* A snapshot that is older than an outcome that was told is behind the    *)
(* fence.                                                                  *)
FenceTrue ==
  /\ fence <= sequence /\ applied <= sequence /\ \A p \in polls : p.number <= sequence
  /\ pending \notin early \cup {None} /\ boot = "session" => view = None /\ polls = {}
  /\ pc # "idle" /\ pending \notin early =>
       boot # "session" /\ applied <= fence /\ \A p \in polls : p.number < fence
  /\ \A i \in Intents \ early : told[i] = "done" =>
       \A c \in executed[i], p \in polls :
         p.answer # None /\ p.answer.at < c => p.number < fence

ChannelInv ==
  /\ ConsoleTypeOK /\ SnapshotsTrue /\ (\A i \in Intents : IntentTrue(i))
  /\ PageTrue /\ FenceTrue /\ NeverBehindOutcome

(* ------------------------------ The server ------------------------------ *)
(* What every transaction does to what was read before it.                 *)
Advanced ==
  /\ game' \in Nat /\ open' \in BOOLEAN /\ revision' \in Nat /\ commits' \in Nat
  /\ open' => game' > 0
  /\ commits <= commits'
  /\ \A b \in Basis \cup Snapshot : (Behind(b) => Behind(b)') /\ (Stale(b) => Stale(b)')

LEMMA TransactionAdvances ==
  ASSUME ConsoleTypeOK, SnapshotsTrue, NEW ends \in BOOLEAN, Open \/ Change(ends)
  PROVE  Advanced /\ commits' = commits + 1
<1>1. /\ game \in Nat /\ revision \in Nat /\ commits \in Nat /\ open \in BOOLEAN
      /\ open => game > 0
  BY DEF ConsoleTypeOK, SnapshotsTrue
<1>2. \A b \in Basis \cup Snapshot : b.game \in Nat /\ b.revision \in Nat
  BY DEF Basis, Snapshot
<1>3. CASE Open
  BY <1>1, <1>2, <1>3 DEF Open, Advanced, Behind, Stale
<1>4. CASE Change(ends)
  BY <1>1, <1>2, <1>4 DEF Change, Advanced, Behind, Stale
<1>5. QED BY <1>3, <1>4

LEMMA NothingAdvances ==
  ASSUME ConsoleTypeOK, SnapshotsTrue, UNCHANGED <<game, open, revision, commits>>
  PROVE  Advanced
BY DEF ConsoleTypeOK, SnapshotsTrue, Advanced, Behind, Stale

(* A request is executed only if it never was and names what is there.     *)
Executes(i) ==
  /\ ~Known(i) /\ Fits(i) /\ commits' = commits + 1
  /\ executed' = [executed EXCEPT ![i] = {commits'}]

LEMMA HandleAdvances ==
  ASSUME ConsoleTypeOK, SnapshotsTrue, NEW i \in Intents, NEW answer, Handle(i, answer)
  PROVE  /\ Advanced
         /\ \/ Executes(i) /\ answer = "accepted"
            \/ UNCHANGED server /\ (answer = "accepted" => Known(i)) /\ (answer = "refused" => ~Known(i))
<1>1. CASE Known(i) /\ answer = "accepted" /\ UNCHANGED server
  BY <1>1, NothingAdvances DEF server
<1>2. CASE ~Known(i) /\ answer = "refused" /\ UNCHANGED server
  BY <1>2, NothingAdvances DEF server
<1>3. CASE /\ ~Known(i) /\ Fits(i) /\ answer = "accepted"
           /\ IF i \in Creates THEN Open ELSE Change(i \in Ends)
           /\ executed' = [executed EXCEPT ![i] = @ \cup {commits'}]
  <2>1. (i \in Ends) \in BOOLEAN /\ (Open \/ Change(i \in Ends))
    BY <1>3
  <2>2. Advanced /\ commits' = commits + 1
    BY <2>1, TransactionAdvances
  <2>3. executed' = [executed EXCEPT ![i] = {commits'}]
    BY <1>3 DEF Known, ConsoleTypeOK
  <2>4. QED BY <1>3, <2>2, <2>3 DEF Executes
<1>4. QED BY <1>1, <1>2, <1>3 DEF Handle

LEMMA SnapshotTypes == ConsoleTypeOK => Snapshots \subseteq Snapshot
BY DEF ConsoleTypeOK, Snapshots, Asked

LEMMA CurrentIsTrue ==
  ASSUME ConsoleTypeOK, SnapshotsTrue
  PROVE  /\ Current \in Snapshot /\ Current.at = commits /\ Behind(Current)
         /\ Current.game = 0 => Current.revision = 0
         /\ \A s \in Snapshots : s.game = Current.game => s.revision <= Current.revision
<1>1. \A s \in Snapshots : /\ s.game \in Nat /\ s.revision \in Nat
                           /\ Behind(s) /\ (s.game = 0 => s.revision = 0)
  BY SnapshotTypes DEF Snapshot, SnapshotsTrue
<1>2. QED BY <1>1 DEF ConsoleTypeOK, SnapshotsTrue, Current, Snapshot, Behind

LEMMA SnapshotsStay ==
  ASSUME ConsoleTypeOK, SnapshotsTrue, Advanced, Snapshots' \subseteq Snapshots
  PROVE  SnapshotsTrue'
<1>1. \A s \in Snapshots : s \in Snapshot /\ s.at \in Nat
  BY SnapshotTypes DEF Snapshot
<1>2. commits \in Nat /\ commits' \in Nat /\ commits <= commits' /\ (open' => game' > 0)
  BY DEF ConsoleTypeOK, Advanced
<1>3. \A s \in Snapshots : Behind(s)'
  BY <1>1 DEF Advanced, SnapshotsTrue
<1>4. \A s \in Snapshots : s.at <= commits'
  BY <1>1, <1>2 DEF SnapshotsTrue
<1>5. QED BY <1>2, <1>3, <1>4 DEF SnapshotsTrue

LEMMA SnapshotRead ==
  ASSUME ConsoleTypeOK, SnapshotsTrue, UNCHANGED <<game, open, revision, commits>>,
         Snapshots' \subseteq Snapshots \cup {Current}
  PROVE  SnapshotsTrue'
<1>1. \A s \in Snapshots : s.at \in Nat /\ s.revision \in Nat /\ s.at <= commits
  BY SnapshotTypes DEF Snapshot, SnapshotsTrue
<1>2. commits \in Nat
  BY DEF ConsoleTypeOK
<1>3. ASSUME NEW s \in Snapshots \cup {Current}
      PROVE  Behind(s)' /\ s.at <= commits' /\ (s.game = 0 => s.revision = 0)
  BY <1>1, <1>2, CurrentIsTrue DEF Behind, SnapshotsTrue
<1>4. ASSUME NEW s \in Snapshots \cup {Current}, NEW t \in Snapshots \cup {Current},
             s.game = t.game, s.revision < t.revision
      PROVE  s.at <= t.at
  <2>1. CASE s = Current
    <3>1. t.revision <= Current.revision /\ Current.revision \in Nat
      BY <1>4, <2>1, CurrentIsTrue DEF Snapshot
    <3>2. t.revision \in Nat
      BY <1>1, CurrentIsTrue DEF Snapshot
    <3>3. QED BY <1>4, <2>1, <3>1, <3>2
  <2>2. CASE s # Current /\ t = Current
    BY <1>1, <2>2, CurrentIsTrue
  <2>3. CASE s # Current /\ t # Current
    BY <1>4, <2>3 DEF SnapshotsTrue
  <2>4. QED BY <2>1, <2>2, <2>3
<1>5. open' => game' > 0
  BY DEF SnapshotsTrue
<1>6. QED BY <1>3, <1>4, <1>5 DEF SnapshotsTrue

(* ----------------------------- Commands stay ---------------------------- *)
LEMMA BodyTypes ==
  ASSUME ConsoleTypeOK, NEW i \in Intents, body[i] # None
  PROVE  body[i] \in Basis \cup Snapshot
BY DEF ConsoleTypeOK

(* Steps that neither ask, execute nor tell.                               *)
LEMMA IntentsStay ==
  ASSUME ConsoleTypeOK, \A i \in Intents : IntentTrue(i), Advanced,
         UNCHANGED <<executed, body, told, pending>>,
         \A i \in Intents : late'[i] = late[i] \/ body[i] # None
  PROVE  \A i \in Intents : IntentTrue(i)'
<1> SUFFICES ASSUME NEW i \in Intents PROVE IntentTrue(i)'
  OBVIOUS
<1>1. IntentTrue(i) /\ commits \in Nat /\ commits' \in Nat /\ commits <= commits'
  BY DEF ConsoleTypeOK, Advanced
<1>2. Once(i)'
  BY <1>1 DEF IntentTrue, Once
<1>3. body[i] # None => (Behind(body[i]) => Behind(body[i])')
  BY BodyTypes DEF Advanced
<1>4. body[i] # None /\ i \notin Creates => Behind(body[i])'
  BY <1>1, <1>3 DEF IntentTrue
<1>5. QED BY <1>1, <1>2, <1>4 DEF IntentTrue, Known

(* A request is executed: who was told is not concerned.                   *)
LEMMA IntentsHandled ==
  ASSUME ConsoleTypeOK, \A j \in Intents : IntentTrue(j),
         NEW i \in Intents, body[i] # None, Advanced, Executes(i),
         UNCHANGED <<body, told, pending>>,
         \A j \in Intents : late'[j] = late[j] \/ body[j] # None
  PROVE  /\ \A j \in Intents : IntentTrue(j)'
         /\ told[i] # "done" /\ executed'[i] = {commits'}
         /\ \A j \in Intents \ {i} : executed'[j] = executed[j]
<1>1. /\ executed'[i] = {commits'} /\ \A j \in Intents \ {i} : executed'[j] = executed[j]
      /\ commits \in Nat /\ commits' \in Nat /\ commits <= commits'
  BY DEF ConsoleTypeOK, Executes, Advanced
<1>2. told[i] # "done"
  BY DEF IntentTrue, Executes, Known
<1>3. ASSUME NEW j \in Intents PROVE IntentTrue(j)'
  <2>1. IntentTrue(j)
    OBVIOUS
  <2>2. Once(j)'
    BY <1>1, <2>1 DEF IntentTrue, Once
  <2>3. body[j] # None => (Behind(body[j]) => Behind(body[j])')
    BY BodyTypes DEF Advanced
  <2>4. body[j] # None /\ j \notin Creates => Behind(body[j])'
    BY <2>1, <2>3 DEF IntentTrue
  <2>5. CASE j = i
    BY <1>1, <1>2, <2>1, <2>2, <2>4, <2>5 DEF IntentTrue, Known
  <2>6. CASE j # i
    BY <1>1, <2>1, <2>2, <2>4, <2>6 DEF IntentTrue, Known
  <2>7. QED BY <2>5, <2>6
<1>4. QED BY <1>1, <1>2, <1>3

(* Where the page is stays true whatever others do, and while it waits.    *)
LEMMA PageStays ==
  ASSUME PageTrue, UNCHANGED <<executed, body, told, pending, pc, carried>>
  PROVE  PageTrue'
BY DEF PageTrue, Known

(* ------------------------- What the server executes --------------------- *)
LEMMA OthersActTrue == ChannelInv /\ OthersAct => ChannelInv'
<1> SUFFICES ASSUME ChannelInv, OthersAct PROVE ChannelInv'
  OBVIOUS
<1>1. Advanced
  BY TransactionAdvances DEF ChannelInv, OthersAct
<1>2. ConsoleTypeOK'
  BY <1>1 DEF OthersAct, page, ChannelInv, ConsoleTypeOK, Advanced
<1>3. SnapshotsTrue'
  BY <1>1, SnapshotsStay DEF OthersAct, page, ChannelInv, Snapshots
<1>4. \A i \in Intents : IntentTrue(i)'
  BY <1>1, IntentsStay DEF OthersAct, ChannelInv
<1>5. PageTrue'
  BY <1>1, PageStays DEF OthersAct, page, ChannelInv
<1>6. FenceTrue' /\ NeverBehindOutcome'
  BY DEF OthersAct, page, ChannelInv, FenceTrue, NeverBehindOutcome
<1>7. QED BY <1>2, <1>3, <1>4, <1>5, <1>6 DEF ChannelInv

LEMMA LateArrivalTrue ==
  ASSUME NEW i \in Intents
  PROVE  ChannelInv /\ LateArrival(i) => ChannelInv'
<1> SUFFICES ASSUME ChannelInv, LateArrival(i) PROVE ChannelInv'
  OBVIOUS
<1>1. /\ UNCHANGED <<body, pending, told, page, early, budget>>
      /\ late' = [late EXCEPT ![i] = @ - 1] /\ late[i] > 0 /\ late[i] \in Nat
  BY DEF LateArrival, ChannelInv, ConsoleTypeOK
<1>2. body[i] # None
  BY <1>1 DEF ChannelInv, IntentTrue
<1>3. Advanced /\ (Executes(i) \/ UNCHANGED server)
  BY HandleAdvances DEF LateArrival, ChannelInv
<1>4. \A j \in Intents : late'[j] = late[j] \/ body[j] # None
  BY <1>1, <1>2 DEF ChannelInv, ConsoleTypeOK
<1>5. SnapshotsTrue'
  BY <1>1, <1>3, SnapshotsStay DEF page, ChannelInv, Snapshots
<1>6. late' \in [Intents -> Nat]
  BY <1>1 DEF ChannelInv, ConsoleTypeOK
<1>7. CASE UNCHANGED server
  <2>1. ConsoleTypeOK'
    BY <1>1, <1>6, <1>7 DEF ChannelInv, ConsoleTypeOK, page, server, budget
  <2>2. \A j \in Intents : IntentTrue(j)'
    BY <1>1, <1>3, <1>4, <1>7, IntentsStay DEF ChannelInv, server
  <2>3. PageTrue'
    BY <1>1, <1>3, <1>7, PageStays DEF ChannelInv, server, page
  <2>4. FenceTrue' /\ NeverBehindOutcome'
    BY <1>1, <1>7 DEF page, server, ChannelInv, FenceTrue, NeverBehindOutcome
  <2>5. QED BY <1>5, <2>1, <2>2, <2>3, <2>4 DEF ChannelInv
<1>8. CASE Executes(i)
  <2>1. /\ \A j \in Intents : IntentTrue(j)'
        /\ told[i] # "done" /\ executed'[i] = {commits'}
        /\ \A j \in Intents \ {i} : executed'[j] = executed[j]
    BY <1>1, <1>2, <1>3, <1>4, <1>8, IntentsHandled DEF ChannelInv
  <2>2. executed' \in [Intents -> SUBSET Nat]
    BY <1>3, <1>8 DEF Executes, Advanced, ChannelInv, ConsoleTypeOK
  <2>3. ConsoleTypeOK'
    BY <1>1, <1>3, <1>6, <2>2 DEF ChannelInv, ConsoleTypeOK, page, Advanced, budget
  <2>4. PageTrue'
    <3>1. PageTrue /\ (pending # None => pending \in Intents)
      BY DEF ChannelInv, ConsoleTypeOK
    <3>2. pc \in {"accepted", "read", "apply"} => pending # i
      BY <1>8, <3>1 DEF PageTrue, Executes
    <3>5. pc \in {"accepted", "read", "apply"} => Known(pending)'
      BY <1>1, <2>1, <3>1, <3>2 DEF PageTrue, Known
    <3>6. pc = "apply" =>
            /\ carried # None
            /\ \A j \in Intents : told[j] = "done" \/ j = pending =>
                 \A c \in executed'[j] : c <= carried.at
      BY <2>1, <3>1, <3>2 DEF PageTrue
    <3>7. QED BY <1>1, <3>1, <3>5, <3>6 DEF PageTrue, page
  <2>5. FenceTrue' /\ NeverBehindOutcome'
    BY <1>1, <2>1 DEF page, ChannelInv, FenceTrue, NeverBehindOutcome
  <2>6. QED BY <1>5, <2>1, <2>3, <2>4, <2>5 DEF ChannelInv
<1>9. QED BY <1>3, <1>7, <1>8

LEMMA PostTrue == ChannelInv /\ Post => ChannelInv'
<1> SUFFICES ASSUME ChannelInv, Post PROVE ChannelInv'
  OBVIOUS
<1>1. /\ pc = "post" /\ pc' \in {"accepted", "refused"} /\ Handle(pending, pc')
      /\ UNCHANGED <<late, body, pending, told, retry, carried, view, sequence, applied,
                     fence, polls, boot, early, budget>>
  BY DEF Post
<1>2. /\ pending # None /\ pending \in Intents /\ IntentTrue(pending)
      /\ body[pending] # None /\ told[pending] = "nothing"
  BY <1>1 DEF ChannelInv, PageTrue, ConsoleTypeOK
<1>3. /\ Advanced
      /\ \/ Executes(pending) /\ pc' = "accepted"
         \/ UNCHANGED server /\ (pc' = "accepted" => Known(pending))
  BY <1>1, <1>2, HandleAdvances DEF ChannelInv
<1>4. SnapshotsTrue'
  BY <1>1, <1>3, SnapshotsStay DEF ChannelInv, Snapshots
<1>5. CASE UNCHANGED server /\ (pc' = "accepted" => Known(pending))
  <2>1. ConsoleTypeOK'
    BY <1>1, <1>5 DEF ChannelInv, ConsoleTypeOK, server, budget
  <2>2. \A j \in Intents : IntentTrue(j)'
    BY <1>1, <1>3, <1>5, IntentsStay DEF ChannelInv, server
  <2>3. pc' = "accepted" => Known(pending)'
    BY <1>1, <1>5 DEF Known, server
  <2>4. PageTrue'
    BY <1>1, <1>2, <1>5, <2>3 DEF PageTrue, server
  <2>5. FenceTrue' /\ NeverBehindOutcome'
    BY <1>1, <1>5 DEF server, ChannelInv, FenceTrue, NeverBehindOutcome
  <2>6. QED BY <1>4, <2>1, <2>2, <2>4, <2>5 DEF ChannelInv
<1>6. CASE Executes(pending) /\ pc' = "accepted"
  <2>1. /\ \A j \in Intents : IntentTrue(j)'
        /\ executed'[pending] = {commits'}
        /\ \A j \in Intents \ {pending} : executed'[j] = executed[j]
    BY <1>1, <1>2, <1>3, <1>6, IntentsHandled DEF ChannelInv
  <2>2. pc' = "accepted"
    BY <1>6
  <2>3. executed' \in [Intents -> SUBSET Nat]
    BY <1>3, <1>6 DEF Executes, Advanced, ChannelInv, ConsoleTypeOK
  <2>4. ConsoleTypeOK'
    BY <1>1, <1>3, <2>2, <2>3 DEF ChannelInv, ConsoleTypeOK, Advanced, budget
  <2>5. PageTrue'
    <3>1. Known(pending)'
      BY <1>1, <2>1 DEF Known
    <3>2. QED BY <1>1, <1>2, <2>2, <3>1 DEF PageTrue
  <2>6. FenceTrue' /\ NeverBehindOutcome'
    BY <1>1, <1>2, <2>1, <2>2 DEF ChannelInv, FenceTrue, NeverBehindOutcome
  <2>7. QED BY <1>4, <2>1, <2>4, <2>5, <2>6 DEF ChannelInv
<1>7. QED BY <1>3, <1>5, <1>6

(* ------------------------- What the operator does ----------------------- *)
LEMMA SendTrue ==
  ASSUME NEW i \in Intents
  PROVE  ChannelInv /\ Send(i) => ChannelInv'
<1> SUFFICES ASSUME ChannelInv, Send(i) PROVE ChannelInv'
  OBVIOUS
<1>1. /\ pc = "idle" /\ pending = None /\ body[i] = None /\ view # None
      /\ i \notin Creates => view.game # 0
      /\ sequence' = sequence + 1 /\ fence' = sequence + 1
      /\ body' = [body EXCEPT ![i] = IF i \in Creates THEN Nothing
                                     ELSE [game |-> view.game, revision |-> view.revision]]
      /\ pending' = i /\ pc' = "post" /\ retry' = FALSE
      /\ early' = IF boot = "session" THEN early \cup {i} ELSE early
      /\ UNCHANGED <<server, late, told, carried, view, applied, polls, boot, budget>>
  BY DEF Send, RaiseFence
<1>2. UNCHANGED <<game, open, revision, commits, executed>>
  BY <1>1 DEF server
<1>3. view \in Snapshot /\ view \in Snapshots /\ i # None
  BY <1>1, ChannelAssumption DEF ChannelInv, ConsoleTypeOK, Snapshots
<1>4. Behind(view) /\ view.game \in Nat /\ view.revision \in Nat
  BY <1>3 DEF ChannelInv, SnapshotsTrue, Snapshot
<1>5. body'[i] \in Basis /\ (i \notin Creates => Behind(body'[i]))
  BY <1>1, <1>4 DEF ChannelInv, ConsoleTypeOK, Basis, Nothing, Behind
<1>6. /\ body' \in [Intents -> Basis \cup {None}]
      /\ \A j \in Intents \ {i} : body'[j] = body[j]
  BY <1>1, <1>5 DEF ChannelInv, ConsoleTypeOK
<1>7. body'[i] # None
  BY <1>5, SnapshotAssumption
<1>8. ConsoleTypeOK'
  <2>1. /\ sequence' \in Nat /\ fence' \in Nat /\ early' \subseteq Intents
        /\ pending' \in Intents
    BY <1>1 DEF ChannelInv, ConsoleTypeOK
  <2>2. QED BY <1>1, <1>2, <1>6, <2>1 DEF ChannelInv, ConsoleTypeOK, budget
<1>9. SnapshotsTrue'
  BY <1>1, <1>2, SnapshotsStay, NothingAdvances DEF ChannelInv, Snapshots
<1>10. ASSUME NEW j \in Intents PROVE IntentTrue(j)'
  <2>1. IntentTrue(j) /\ Once(j)'
    BY <1>2 DEF ChannelInv, IntentTrue, Once
  <2>2. CASE j = i
    BY <1>1, <1>2, <1>5, <1>7, <2>1, <2>2 DEF IntentTrue, Behind, Known
  <2>3. CASE j # i
    <3>1. pending # j /\ body'[j] = body[j]
      BY <1>1, <1>3, <1>6, <2>3, ChannelAssumption
    <3>2. QED BY <1>1, <1>2, <2>1, <3>1 DEF IntentTrue, Behind, Known
  <2>4. QED BY <2>2, <2>3
<1>11. PageTrue'
  BY <1>1, <1>2, <1>3, <1>7 DEF ChannelInv, IntentTrue, PageTrue
<1>12. FenceTrue'
  <2>1. /\ sequence \in Nat /\ applied \in Nat /\ fence \in Nat
        /\ \A p \in polls : p.number \in Nat /\ p.number <= sequence
        /\ fence <= sequence /\ applied <= sequence
    BY DEF ChannelInv, ConsoleTypeOK, FenceTrue, Asked
  <2>2. \A p \in polls' : p.number < fence' /\ p.number <= sequence'
    BY <1>1, <2>1
  <2>3. fence' <= sequence' /\ applied' <= sequence' /\ applied' <= fence'
    BY <1>1, <2>1
  <2>4. boot' = "session" => pending' \in early'
    BY <1>1
  <2>5. QED BY <2>2, <2>3, <2>4 DEF FenceTrue
<1>13. NeverBehindOutcome'
  BY <1>1, <1>2 DEF ChannelInv, NeverBehindOutcome
<1>14. QED BY <1>8, <1>9, <1>10, <1>11, <1>12, <1>13 DEF ChannelInv

LEMMA RecoverTrue == ChannelInv /\ Recover => ChannelInv'
<1> SUFFICES ASSUME ChannelInv, Recover PROVE ChannelInv'
  OBVIOUS
<1>1. /\ pc = "idle" /\ pending # None /\ view # None
      /\ sequence' = sequence + 1 /\ fence' = sequence + 1
      /\ pc' = "lookup" /\ retry' = TRUE
      /\ UNCHANGED <<server, late, body, pending, told, carried, view, applied, polls,
                     boot, early, budget>>
  BY DEF Recover, RaiseFence
<1>2. Advanced /\ UNCHANGED <<game, open, revision, commits, executed>>
  BY <1>1, NothingAdvances DEF server, ChannelInv
<1>3. ConsoleTypeOK'
  BY <1>1, <1>2 DEF ChannelInv, ConsoleTypeOK, budget
<1>4. SnapshotsTrue'
  BY <1>1, <1>2, SnapshotsStay DEF ChannelInv, Snapshots
<1>5. \A j \in Intents : IntentTrue(j)'
  BY <1>1, <1>2, IntentsStay DEF ChannelInv
<1>6. PageTrue'
  BY <1>1, <1>2 DEF ChannelInv, PageTrue
<1>7. FenceTrue'
  <2>1. /\ sequence \in Nat /\ applied \in Nat /\ fence \in Nat
        /\ \A p \in polls : p.number \in Nat /\ p.number <= sequence
        /\ fence <= sequence /\ applied <= sequence
    BY DEF ChannelInv, ConsoleTypeOK, FenceTrue, Asked
  <2>2. \A p \in polls' : p.number < fence' /\ p.number <= sequence'
    BY <1>1, <2>1
  <2>3. fence' <= sequence' /\ applied' <= sequence' /\ applied' <= fence'
    BY <1>1, <2>1
  <2>4. boot' = "session" => pending' \in early'
    BY <1>1 DEF ChannelInv, FenceTrue
  <2>5. QED BY <2>2, <2>3, <2>4 DEF FenceTrue
<1>8. NeverBehindOutcome'
  BY <1>1, <1>2 DEF ChannelInv, NeverBehindOutcome
<1>9. QED BY <1>3, <1>4, <1>5, <1>6, <1>7, <1>8 DEF ChannelInv

(* ------------------------ What becomes of a command --------------------- *)
LEMMA AnsweredTrue == ChannelInv /\ Answered => ChannelInv'
<1> SUFFICES ASSUME ChannelInv, Answered PROVE ChannelInv'
  OBVIOUS
<1>1. UNCHANGED <<server, late, body, retry, carried, view, sequence, applied, fence,
                  polls, boot, early, budget>>
  BY DEF Answered
<1>2. Advanced /\ UNCHANGED <<game, open, revision, commits, executed>>
  BY <1>1, NothingAdvances DEF server, ChannelInv
<1>3. SnapshotsTrue'
  BY <1>1, <1>2, SnapshotsStay DEF ChannelInv, Snapshots
<1>4. CASE pc = "accepted" /\ pc' = "read" /\ UNCHANGED <<pending, told>>
  <2>1. ConsoleTypeOK'
    BY <1>1, <1>2, <1>4 DEF ChannelInv, ConsoleTypeOK, budget
  <2>2. \A j \in Intents : IntentTrue(j)'
    BY <1>1, <1>2, <1>4, IntentsStay DEF ChannelInv
  <2>3. PageTrue'
    BY <1>1, <1>2, <1>4 DEF ChannelInv, PageTrue, Known
  <2>4. FenceTrue' /\ NeverBehindOutcome'
    BY <1>1, <1>2, <1>4 DEF ChannelInv, FenceTrue, NeverBehindOutcome
  <2>5. QED BY <1>3, <2>1, <2>2, <2>3, <2>4 DEF ChannelInv
<1>5. CASE /\ pc = "refused" /\ pc' = "idle" /\ pending' = None
           /\ told' = [told EXCEPT ![pending] = "rejected"]
  <2>1. /\ pending # None /\ pending \in Intents /\ body[pending] # None
    BY <1>5 DEF ChannelInv, PageTrue, ConsoleTypeOK
  <2>2. /\ told'[pending] = "rejected"
        /\ \A j \in Intents \ {pending} : told'[j] = told[j]
    BY <1>5, <2>1 DEF ChannelInv, ConsoleTypeOK
  <2>3. ConsoleTypeOK'
    BY <1>1, <1>2, <1>5 DEF ChannelInv, ConsoleTypeOK, budget
  <2>4. ASSUME NEW j \in Intents PROVE IntentTrue(j)'
    <3>1. IntentTrue(j) /\ Once(j)'
      BY <1>2 DEF ChannelInv, IntentTrue, Once
    <3>2. CASE j = pending
      BY <1>1, <1>2, <2>1, <2>2, <3>1, <3>2 DEF IntentTrue, Behind, Known
    <3>3. CASE j # pending
      BY <1>1, <1>2, <2>2, <3>1, <3>3 DEF IntentTrue, Behind, Known
    <3>4. QED BY <3>2, <3>3
  <2>5. PageTrue'
    BY <1>5 DEF PageTrue
  <2>6. FenceTrue' /\ NeverBehindOutcome'
    BY <1>1, <1>2, <1>5, <2>2 DEF ChannelInv, FenceTrue, NeverBehindOutcome
  <2>7. QED BY <1>3, <2>3, <2>4, <2>5, <2>6 DEF ChannelInv
<1>6. QED BY <1>4, <1>5 DEF Answered

LEMMA LookupTrue == ChannelInv /\ Lookup => ChannelInv'
<1> SUFFICES ASSUME ChannelInv, Lookup PROVE ChannelInv'
  OBVIOUS
<1>1. /\ pc = "lookup"
      /\ pc' = IF Known(pending) THEN "read" ELSE IF retry THEN "post" ELSE "idle"
      /\ UNCHANGED <<server, late, body, pending, told, retry, carried, view, sequence,
                     applied, fence, polls, boot, early, budget>>
  BY DEF Lookup
<1>2. Advanced /\ UNCHANGED <<game, open, revision, commits, executed>>
  BY <1>1, NothingAdvances DEF server, ChannelInv
<1>3. SnapshotsTrue'
  BY <1>1, <1>2, SnapshotsStay DEF ChannelInv, Snapshots
<1>4. pc' \in {"read", "post", "idle"} /\ (pc' = "read" => Known(pending))
  BY <1>1
<1>5. ConsoleTypeOK'
  BY <1>1, <1>2, <1>4 DEF ChannelInv, ConsoleTypeOK, budget
<1>6. \A j \in Intents : IntentTrue(j)'
  BY <1>1, <1>2, IntentsStay DEF ChannelInv
<1>7. PageTrue'
  BY <1>1, <1>2, <1>4 DEF ChannelInv, PageTrue, Known
<1>8. FenceTrue' /\ NeverBehindOutcome'
  BY <1>1, <1>2, <1>4 DEF ChannelInv, FenceTrue, NeverBehindOutcome
<1>9. QED BY <1>3, <1>5, <1>6, <1>7, <1>8 DEF ChannelInv

(* The snapshot after a command was read after every outcome.              *)
LEMMA ReadSnapshotTrue == ChannelInv /\ ReadSnapshot => ChannelInv'
<1> SUFFICES ASSUME ChannelInv, ReadSnapshot PROVE ChannelInv'
  OBVIOUS
<1>1. /\ pc = "read" /\ pc' = "apply" /\ carried' = Current
      /\ UNCHANGED <<server, late, body, pending, told, retry, view, sequence, applied,
                     fence, polls, boot, early, budget>>
  BY DEF ReadSnapshot
<1>2. Advanced /\ UNCHANGED <<game, open, revision, commits, executed>>
  BY <1>1, NothingAdvances DEF server, ChannelInv
<1>3. Current \in Snapshot /\ Current.at = commits /\ Current # None
  BY CurrentIsTrue, SnapshotAssumption DEF ChannelInv
<1>4. SnapshotsTrue'
  BY <1>1, <1>2, SnapshotRead DEF ChannelInv, Snapshots
<1>5. ConsoleTypeOK'
  BY <1>1, <1>2, <1>3 DEF ChannelInv, ConsoleTypeOK, budget
<1>6. \A j \in Intents : IntentTrue(j)'
  BY <1>1, <1>2, IntentsStay DEF ChannelInv
<1>7. \A i \in Intents : \A c \in executed[i] : c <= commits
  BY DEF ChannelInv, ConsoleTypeOK, IntentTrue, Once
<1>8. PageTrue'
  BY <1>1, <1>2, <1>3, <1>7 DEF ChannelInv, PageTrue, Known
<1>9. FenceTrue' /\ NeverBehindOutcome'
  BY <1>1, <1>2 DEF ChannelInv, FenceTrue, NeverBehindOutcome
<1>10. QED BY <1>4, <1>5, <1>6, <1>8, <1>9 DEF ChannelInv

(* What is shown is what was shown before, or the snapshot.                *)
LEMMA Applied ==
  ASSUME ConsoleTypeOK, NEW s \in Snapshot, NEW number \in Nat, NEW authoritative \in BOOLEAN,
         ApplySnapshot(s, number, authoritative)
  PROVE  \/ /\ view' = s /\ applied' = number /\ applied <= number
            /\ authoritative \/ fence <= number
         \/ UNCHANGED <<view, applied>> /\ ~Accepted(s, number, authoritative)
BY DEF ApplySnapshot, Accepted, ConsoleTypeOK

LEMMA FinishTrue == ChannelInv /\ Finish => ChannelInv'
<1> SUFFICES ASSUME ChannelInv, Finish PROVE ChannelInv'
  OBVIOUS
<1>1. /\ pc = "apply" /\ pc' = "idle" /\ pending' = None
      /\ told' = [told EXCEPT ![pending] = "done"]
      /\ ApplySnapshot(carried, fence, TRUE) /\ carried' = None
      /\ UNCHANGED <<server, late, body, retry, sequence, fence, polls, boot, early, budget>>
  BY DEF Finish
<1>2. Advanced /\ UNCHANGED <<game, open, revision, commits, executed>>
  BY <1>1, NothingAdvances DEF server, ChannelInv
<1>3. /\ pending # None /\ pending \in Intents /\ body[pending] # None /\ Known(pending)
      /\ carried \in Snapshot /\ carried # None /\ carried \in Snapshots
      /\ \A i \in Intents : told[i] = "done" \/ i = pending =>
           \A c \in executed[i] : c <= carried.at
  BY <1>1 DEF ChannelInv, PageTrue, ConsoleTypeOK, Snapshots
<1>4. /\ told'[pending] = "done" /\ \A j \in Intents \ {pending} : told'[j] = told[j]
      /\ fence \in Nat /\ sequence \in Nat /\ applied \in Nat
  BY <1>1, <1>3 DEF ChannelInv, ConsoleTypeOK
<1>5. \/ view' = carried /\ applied' = fence
      \/ UNCHANGED <<view, applied>> /\ ~Accepted(carried, fence, TRUE)
  BY <1>1, <1>3, <1>4, Applied DEF ChannelInv
<1>6. ConsoleTypeOK'
  <2>1. view' \in Snapshot \cup {None} /\ applied' \in Nat
    BY <1>3, <1>4, <1>5 DEF ChannelInv, ConsoleTypeOK
  <2>2. QED BY <1>1, <1>2, <2>1 DEF ChannelInv, ConsoleTypeOK, budget
<1>7. SnapshotsTrue'
  BY <1>1, <1>2, <1>5, SnapshotsStay DEF ChannelInv, Snapshots
<1>8. ASSUME NEW j \in Intents PROVE IntentTrue(j)'
  <2>1. IntentTrue(j) /\ Once(j)'
    BY <1>2 DEF ChannelInv, IntentTrue, Once
  <2>2. CASE j = pending
    BY <1>1, <1>2, <1>3, <1>4, <2>1, <2>2 DEF IntentTrue, Behind, Known
  <2>3. CASE j # pending
    BY <1>1, <1>2, <1>4, <2>1, <2>3 DEF IntentTrue, Behind, Known
  <2>4. QED BY <2>2, <2>3
<1>9. PageTrue'
  BY <1>1 DEF PageTrue
<1>10. FenceTrue'
  <2>1. fence' <= sequence' /\ applied' <= sequence' /\ \A p \in polls' : p.number <= sequence'
    BY <1>1, <1>4, <1>5 DEF ChannelInv, FenceTrue
  <2>2. ASSUME NEW i \in Intents \ early, told'[i] = "done", NEW c \in executed[i],
               NEW p \in polls, p.answer # None, p.answer.at < c
        PROVE  p.number < fence
    BY <1>1, <1>3, <1>4, <2>2 DEF ChannelInv, FenceTrue
  <2>3. QED BY <1>1, <1>2, <2>1, <2>2 DEF FenceTrue
<1>11. NeverBehindOutcome'
  <2>1. SUFFICES ASSUME NEW i \in Intents \ early, told'[i] = "done", view' # None,
                        NEW c \in executed[i]
                 PROVE  view'.at >= c
    BY <1>1, <1>2 DEF NeverBehindOutcome
  <2>2. c <= carried.at /\ c \in Nat /\ carried.at \in Nat
    BY <1>3, <1>4, <2>1 DEF Snapshot, ChannelInv, ConsoleTypeOK
  <2>3. CASE view' = carried
    BY <2>2, <2>3
  <2>4. CASE i # pending /\ UNCHANGED view
    BY <1>4, <2>1, <2>4 DEF ChannelInv, NeverBehindOutcome
  <2>5. CASE i = pending /\ UNCHANGED view /\ ~Accepted(carried, fence, TRUE)
    <3>1. applied <= fence
      BY <1>1, <2>1, <2>5 DEF ChannelInv, FenceTrue
    <3>2. view # None /\ view.game = carried.game /\ ~(carried.revision >= view.revision)
      BY <1>4, <2>5, <3>1 DEF Accepted
    <3>3. view \in Snapshot /\ view \in Snapshots
      BY <3>2 DEF ChannelInv, ConsoleTypeOK, Snapshots
    <3>4. carried.at <= view.at /\ view.at \in Nat
      BY <1>3, <3>2, <3>3 DEF ChannelInv, SnapshotsTrue, Snapshot
    <3>5. QED BY <2>2, <2>5, <3>4
  <2>6. QED BY <1>5, <2>3, <2>4, <2>5
<1>12. QED BY <1>6, <1>7, <1>8, <1>9, <1>10, <1>11 DEF ChannelInv

(* -------------------------------- The view ------------------------------ *)
(* A snapshot is asked for: after every outcome that was told.             *)
LEMMA AskedTrue ==
  ASSUME ChannelInv, NEW first \in BOOLEAN, sequence' = sequence + 1,
         polls' = polls \cup {[number |-> sequence', answer |-> None, first |-> first]},
         boot' \in {"session", "refresh", "ready", "failed"},
         pending \notin early \cup {None} => boot' # "session",
         pc # "idle" => pending \in early,
         UNCHANGED <<server, late, body, pending, told, pc, retry, carried, view, applied,
                     fence, early, budget>>
  PROVE  ChannelInv'
<1> DEFINE new == [number |-> sequence', answer |-> None, first |-> first]
<1>1. Advanced /\ UNCHANGED <<game, open, revision, commits, executed>>
  BY NothingAdvances DEF server, ChannelInv
<1>2. /\ sequence \in Nat /\ sequence' \in Nat /\ applied \in Nat /\ fence \in Nat
      /\ \A p \in polls : p.number \in Nat
  BY DEF ChannelInv, ConsoleTypeOK, Asked
<1>3. ConsoleTypeOK'
  <2>1. polls' \subseteq Asked
    BY <1>2 DEF ChannelInv, ConsoleTypeOK, Asked
  <2>2. QED BY <1>1, <1>2, <2>1 DEF ChannelInv, ConsoleTypeOK, budget
<1>4. SnapshotsTrue'
  <2>1. Snapshots' \subseteq Snapshots
    BY DEF Snapshots
  <2>2. QED BY <1>1, <2>1, SnapshotsStay DEF ChannelInv
<1>5. \A j \in Intents : IntentTrue(j)'
  BY <1>1, IntentsStay DEF ChannelInv
<1>6. PageTrue'
  BY <1>1, PageStays DEF ChannelInv
<1>7. FenceTrue'
  <2>1. fence' <= sequence' /\ applied' <= sequence' /\ \A p \in polls' : p.number <= sequence'
    BY <1>2 DEF ChannelInv, FenceTrue
  <2>2. ASSUME NEW i \in Intents \ early, told[i] = "done", NEW c \in executed[i],
               NEW p \in polls', p.answer # None, p.answer.at < c
        PROVE  p.number < fence
    <3>1. p \in polls
      BY <2>2
    <3>2. QED BY <2>2, <3>1 DEF ChannelInv, FenceTrue
  <2>3. /\ pending \notin early \cup {None} => boot' # "session"
        /\ pc # "idle" /\ pending \notin early => FALSE
    OBVIOUS
  <2>4. QED BY <1>1, <2>1, <2>2, <2>3 DEF FenceTrue
<1>8. NeverBehindOutcome'
  BY <1>1 DEF ChannelInv, NeverBehindOutcome
<1>9. QED BY <1>3, <1>4, <1>5, <1>6, <1>7, <1>8 DEF ChannelInv

LEMMA PollTrue == ChannelInv /\ (Poll \/ Refresh) => ChannelInv'
<1>1. ASSUME ChannelInv, Poll PROVE ChannelInv'
  <2>1. /\ pending = None /\ sequence' = sequence + 1
        /\ polls' = polls \cup {[number |-> sequence', answer |-> None, first |-> FALSE]}
        /\ UNCHANGED <<server, late, body, pending, told, pc, retry, carried, view, applied,
                       fence, boot, early, budget>>
    BY <1>1 DEF Poll
  <2>2. pc = "idle" /\ boot' = boot /\ boot \in {"session", "refresh", "ready", "failed"}
    BY <1>1, <2>1 DEF ChannelInv, PageTrue, ConsoleTypeOK
  <2>3. QED BY <1>1, <2>1, <2>2, AskedTrue
<1>2. ASSUME ChannelInv, Refresh PROVE ChannelInv'
  <2>1. /\ boot = "session" /\ boot' = "refresh" /\ sequence' = sequence + 1
        /\ polls' = polls \cup {[number |-> sequence', answer |-> None, first |-> TRUE]}
        /\ UNCHANGED <<server, late, body, pending, told, pc, retry, carried, view, applied,
                       fence, early, budget>>
    BY <1>2 DEF Refresh
  <2>2. pc # "idle" => pending \in early
    BY <1>2, <2>1 DEF ChannelInv, FenceTrue
  <2>3. QED BY <1>2, <2>1, <2>2, AskedTrue
<1>3. QED BY <1>1, <1>2

LEMMA AnswerTrue ==
  ASSUME NEW p \in polls
  PROVE  ChannelInv /\ Answer(p) => ChannelInv'
<1> SUFFICES ASSUME ChannelInv, Answer(p) PROVE ChannelInv'
  OBVIOUS
<1> DEFINE q == [p EXCEPT !.answer = Current]
<1>1. /\ polls' = (polls \ {p}) \cup {q}
      /\ UNCHANGED <<server, late, body, pending, told, pc, retry, carried, view, sequence,
                     applied, fence, boot, early, budget>>
  BY DEF Answer
<1>2. Advanced /\ UNCHANGED <<game, open, revision, commits, executed>>
  BY <1>1, NothingAdvances DEF server, ChannelInv
<1>3. p \in Asked /\ Current \in Snapshot /\ Current.at = commits
  BY CurrentIsTrue DEF ChannelInv, ConsoleTypeOK
<1>4. q \in Asked /\ q.answer = Current /\ q.number = p.number
  BY <1>3 DEF Asked
<1> HIDE DEF q
<1>5. ConsoleTypeOK'
  BY <1>1, <1>2, <1>4 DEF ChannelInv, ConsoleTypeOK, budget
<1>6. SnapshotsTrue'
  <2>1. Snapshots' \subseteq Snapshots \cup {Current}
    BY <1>1, <1>4 DEF Snapshots
  <2>2. QED BY <1>2, <2>1, SnapshotRead DEF ChannelInv
<1>7. \A j \in Intents : IntentTrue(j)'
  BY <1>1, <1>2, IntentsStay DEF ChannelInv
<1>8. PageTrue'
  BY <1>1, <1>2, PageStays DEF ChannelInv
<1>9. FenceTrue'
  <2>1. \A i \in Intents : \A c \in executed[i] : c <= commits /\ c \in Nat /\ commits \in Nat
    BY DEF ChannelInv, ConsoleTypeOK, IntentTrue, Once
  <2>2. \A n \in polls' : n = q \/ n \in polls
    BY <1>1
  <2>3. ASSUME NEW i \in Intents \ early, told[i] = "done", NEW c \in executed[i],
               NEW n \in polls', n.answer # None, n.answer.at < c
        PROVE  n.number < fence
    <3>1. CASE n = q
      BY <1>3, <1>4, <2>1, <2>3, <3>1
    <3>2. CASE n \in polls
      BY <2>3, <3>2 DEF ChannelInv, FenceTrue
    <3>3. QED BY <2>2, <3>1, <3>2
  <2>4. QED BY <1>1, <1>2, <1>4, <2>2, <2>3 DEF ChannelInv, FenceTrue
<1>10. NeverBehindOutcome'
  BY <1>1, <1>2 DEF ChannelInv, NeverBehindOutcome
<1>11. QED BY <1>5, <1>6, <1>7, <1>8, <1>9, <1>10 DEF ChannelInv

LEMMA ArriveTrue ==
  ASSUME NEW p \in polls
  PROVE  ChannelInv /\ Arrive(p) => ChannelInv'
<1> SUFFICES ASSUME ChannelInv, Arrive(p) PROVE ChannelInv'
  OBVIOUS
<1>1. /\ p.answer # None /\ polls' = polls \ {p}
      /\ ApplySnapshot(p.answer, p.number, FALSE)
      /\ boot' = IF p.first THEN "ready" ELSE boot
      /\ UNCHANGED <<server, late, body, pending, told, pc, retry, carried, sequence, fence,
                     early, budget>>
  BY DEF Arrive
<1>2. Advanced /\ UNCHANGED <<game, open, revision, commits, executed>>
  BY <1>1, NothingAdvances DEF server, ChannelInv
<1>3. /\ p.answer \in Snapshot /\ p.number \in Nat /\ p.number <= sequence
      /\ p.answer \in Snapshots /\ fence \in Nat /\ applied \in Nat /\ sequence \in Nat
  BY <1>1 DEF ChannelInv, ConsoleTypeOK, Asked, FenceTrue, Snapshots
<1>4. \/ view' = p.answer /\ applied' = p.number /\ fence <= p.number
      \/ UNCHANGED <<view, applied>>
  BY <1>1, <1>3, Applied DEF ChannelInv
<1>5. ConsoleTypeOK'
  <2>1. /\ view' \in Snapshot \cup {None} /\ applied' \in Nat /\ polls' \subseteq Asked
        /\ boot' \in {"session", "refresh", "ready", "failed"}
    BY <1>1, <1>3, <1>4 DEF ChannelInv, ConsoleTypeOK
  <2>2. QED BY <1>1, <1>2, <2>1 DEF ChannelInv, ConsoleTypeOK, budget
<1>6. SnapshotsTrue'
  <2>1. Snapshots' \subseteq Snapshots
    BY <1>1, <1>3, <1>4 DEF Snapshots
  <2>2. QED BY <1>2, <2>1, SnapshotsStay DEF ChannelInv
<1>7. \A j \in Intents : IntentTrue(j)'
  BY <1>1, <1>2, IntentsStay DEF ChannelInv
<1>8. PageTrue'
  BY <1>1, <1>2, PageStays DEF ChannelInv
<1>9. FenceTrue'
  <2>1. fence' <= sequence' /\ applied' <= sequence' /\ \A n \in polls' : n.number <= sequence'
    BY <1>1, <1>3, <1>4 DEF ChannelInv, FenceTrue
  <2>2. pc # "idle" /\ pending \notin early =>
          boot' # "session" /\ applied' <= fence /\ \A n \in polls' : n.number < fence
    <3>1. SUFFICES ASSUME pc # "idle", pending \notin early
                   PROVE  boot' # "session" /\ applied' <= fence /\ \A n \in polls' : n.number < fence
      OBVIOUS
    <3>2. boot # "session" /\ applied <= fence /\ \A n \in polls : n.number < fence
      BY <3>1 DEF ChannelInv, FenceTrue
    <3>3. applied' = applied
      BY <1>3, <1>4, <3>2
    <3>4. QED BY <1>1, <3>2, <3>3
  <2>3. pending \notin early \cup {None} => boot' # "session"
    BY <1>1 DEF ChannelInv, FenceTrue
  <2>4. QED BY <1>1, <1>2, <2>1, <2>2, <2>3 DEF ChannelInv, FenceTrue
<1>10. NeverBehindOutcome'
  <2>1. SUFFICES ASSUME NEW i \in Intents \ early, told[i] = "done", view' # None,
                        NEW c \in executed[i]
                 PROVE  view'.at >= c
    BY <1>1, <1>2 DEF NeverBehindOutcome
  <2>2. CASE view' = p.answer /\ fence <= p.number
    <3>1. ~(p.answer.at < c)
      BY <1>1, <1>3, <2>1, <2>2 DEF ChannelInv, FenceTrue
    <3>2. p.answer.at \in Nat /\ c \in Nat
      BY <1>3, <2>1 DEF Snapshot, ChannelInv, ConsoleTypeOK
    <3>3. QED BY <2>2, <3>1, <3>2
  <2>3. CASE UNCHANGED view
    BY <2>1, <2>3 DEF ChannelInv, NeverBehindOutcome
  <2>4. QED BY <1>4, <2>2, <2>3
<1>11. QED BY <1>5, <1>6, <1>7, <1>8, <1>9, <1>10 DEF ChannelInv

(* ------------------------------- Failures ------------------------------- *)
LEMMA CallLost == ChannelInv /\ (LoseCall \/ RefuseCall) => ChannelInv'
<1> SUFFICES ASSUME ChannelInv, LoseCall \/ RefuseCall PROVE ChannelInv'
  OBVIOUS
<1>1. /\ pc # "idle" /\ pc' \in {"lookup", "idle"} /\ carried' \in {carried, None}
      /\ late' = late \/ late' = [late EXCEPT ![pending] = @ + 1]
      /\ lost' = lost + 1
      /\ UNCHANGED <<server, body, pending, told, retry, view, sequence, applied, fence,
                     polls, boot, early, others, reloads>>
  BY DEF LoseCall, RefuseCall, Lose
<1>2. Advanced /\ UNCHANGED <<game, open, revision, commits, executed>>
  BY <1>1, NothingAdvances DEF server, ChannelInv
<1>3. pending # None /\ pending \in Intents /\ body[pending] # None
  BY <1>1 DEF ChannelInv, PageTrue, ConsoleTypeOK
<1>4. /\ late' \in [Intents -> Nat]
      /\ \A i \in Intents : late'[i] = late[i] \/ body[i] # None
  BY <1>1, <1>3 DEF ChannelInv, ConsoleTypeOK
<1>5. ConsoleTypeOK'
  <2>1. lost' \in Nat /\ carried' \in Snapshot \cup {None}
    BY <1>1 DEF ChannelInv, ConsoleTypeOK
  <2>2. QED BY <1>1, <1>2, <1>4, <2>1 DEF ChannelInv, ConsoleTypeOK
<1>6. SnapshotsTrue'
  <2>1. Snapshots' \subseteq Snapshots
    BY <1>1 DEF Snapshots
  <2>2. QED BY <1>2, <2>1, SnapshotsStay DEF ChannelInv
<1>7. \A i \in Intents : IntentTrue(i)'
  BY <1>1, <1>2, <1>4, IntentsStay DEF ChannelInv
<1>8. PageTrue'
  BY <1>1, <1>3 DEF ChannelInv, PageTrue
<1>9. FenceTrue' /\ NeverBehindOutcome'
  BY <1>1, <1>2 DEF ChannelInv, FenceTrue, NeverBehindOutcome
<1>10. QED BY <1>5, <1>6, <1>7, <1>8, <1>9 DEF ChannelInv

LEMMA SnapshotLost == ChannelInv /\ (LoseSession \/ \E p \in polls : LosePoll(p)) => ChannelInv'
<1> SUFFICES ASSUME ChannelInv, LoseSession \/ \E p \in polls : LosePoll(p) PROVE ChannelInv'
  OBVIOUS
<1>1. /\ polls' \subseteq polls /\ boot' \in {boot, "failed"} /\ lost' = lost + 1
      /\ UNCHANGED <<server, late, body, pending, told, pc, retry, carried, view, sequence,
                     applied, fence, early, others, reloads>>
  BY DEF LoseSession, LosePoll, Lose
<1>2. Advanced /\ UNCHANGED <<game, open, revision, commits, executed>>
  BY <1>1, NothingAdvances DEF server, ChannelInv
<1>3. ConsoleTypeOK'
  <2>1. /\ lost' \in Nat /\ polls' \subseteq Asked
        /\ boot' \in {"session", "refresh", "ready", "failed"}
    BY <1>1 DEF ChannelInv, ConsoleTypeOK
  <2>2. QED BY <1>1, <1>2, <2>1 DEF ChannelInv, ConsoleTypeOK
<1>4. SnapshotsTrue'
  <2>1. Snapshots' \subseteq Snapshots
    BY <1>1 DEF Snapshots
  <2>2. QED BY <1>2, <2>1, SnapshotsStay DEF ChannelInv
<1>5. \A i \in Intents : IntentTrue(i)'
  BY <1>1, <1>2, IntentsStay DEF ChannelInv
<1>6. PageTrue'
  BY <1>1, <1>2, PageStays DEF ChannelInv
<1>7. FenceTrue'
  BY <1>1, <1>2 DEF ChannelInv, FenceTrue
<1>8. NeverBehindOutcome'
  BY <1>1, <1>2 DEF ChannelInv, NeverBehindOutcome
<1>9. QED BY <1>3, <1>4, <1>5, <1>6, <1>7, <1>8 DEF ChannelInv

LEMMA ReloadTrue == ChannelInv /\ Reload => ChannelInv'
<1> SUFFICES ASSUME ChannelInv, Reload PROVE ChannelInv'
  OBVIOUS
<1>1. /\ reloads' = reloads + 1
      /\ late' = late \/ (pc = "post" /\ late' = [late EXCEPT ![pending] = @ + 1])
      /\ pc' = "idle" /\ retry' = FALSE /\ carried' = None /\ view' = None
      /\ sequence' = 0 /\ applied' = 0 /\ fence' = 0 /\ polls' = {} /\ boot' = "session"
      /\ UNCHANGED <<server, body, pending, told, early, others, lost>>
  BY DEF Reload
<1>2. Advanced /\ UNCHANGED <<game, open, revision, commits, executed>>
  BY <1>1, NothingAdvances DEF server, ChannelInv
<1>3. pc = "post" => pending \in Intents /\ body[pending] # None
  BY DEF ChannelInv, PageTrue, ConsoleTypeOK
<1>4. /\ late' \in [Intents -> Nat]
      /\ \A i \in Intents : late'[i] = late[i] \/ body[i] # None
  BY <1>1, <1>3 DEF ChannelInv, ConsoleTypeOK
<1>5. ConsoleTypeOK'
  <2>1. reloads' \in Nat /\ late' \in [Intents -> Nat]
    BY <1>1, <1>4 DEF ChannelInv, ConsoleTypeOK
  <2>2. /\ game' \in Nat /\ open' \in BOOLEAN /\ revision' \in Nat /\ commits' \in Nat
        /\ executed' \in [Intents -> SUBSET Nat] /\ body' \in [Intents -> Basis \cup {None}]
        /\ pending' \in Intents \cup {None} /\ told' \in [Intents -> {"nothing", "done", "rejected"}]
        /\ early' \subseteq Intents /\ others' \in Nat /\ lost' \in Nat
    BY <1>1, <1>2 DEF ChannelInv, ConsoleTypeOK
  <2>3. pc' = "idle" /\ retry' \in BOOLEAN /\ polls' \subseteq Asked
    BY <1>1
  <2>4. QED BY <1>1, <2>1, <2>2, <2>3 DEF ConsoleTypeOK
<1>6. SnapshotsTrue'
  BY <1>1, <1>2 DEF ChannelInv, SnapshotsTrue, Snapshots
<1>7. \A i \in Intents : IntentTrue(i)'
  BY <1>1, <1>2, <1>4, IntentsStay DEF ChannelInv
<1>8. PageTrue'
  BY <1>1 DEF ChannelInv, PageTrue
<1>9. FenceTrue' /\ NeverBehindOutcome'
  BY <1>1 DEF FenceTrue, NeverBehindOutcome
<1>10. QED BY <1>5, <1>6, <1>7, <1>8, <1>9 DEF ChannelInv

(* ----------------------------- The invariant ---------------------------- *)
LEMMA ChannelStarts == Init => ChannelInv
<1> SUFFICES ASSUME Init PROVE ChannelInv
  OBVIOUS
<1>1. ConsoleTypeOK
  BY DEF Init, ConsoleTypeOK
<1>2. SnapshotsTrue
  BY DEF Init, SnapshotsTrue, Snapshots
<1>3. \A i \in Intents : IntentTrue(i)
  BY DEF Init, IntentTrue, Once
<1>4. PageTrue /\ FenceTrue /\ NeverBehindOutcome
  BY DEF Init, PageTrue, FenceTrue, NeverBehindOutcome
<1>5. QED BY <1>1, <1>2, <1>3, <1>4 DEF ChannelInv

LEMMA ChannelStutters == ChannelInv /\ UNCHANGED vars => ChannelInv'
BY DEF vars, server, page, budget, ChannelInv, ConsoleTypeOK, SnapshotsTrue, Snapshots,
       Behind, Stale, IntentTrue, Once, Known, PageTrue, FenceTrue, NeverBehindOutcome

LEMMA ChannelSteps == ChannelInv /\ [Next]_vars => ChannelInv'
<1> SUFFICES ASSUME ChannelInv, Next PROVE ChannelInv'
  BY ChannelStutters
<1>1. CASE OthersAct \/ \E i \in Intents : LateArrival(i) \/ Send(i)
  BY <1>1, OthersActTrue, LateArrivalTrue, SendTrue
<1>2. CASE Recover \/ Call
  BY <1>2, RecoverTrue, PostTrue, AnsweredTrue, LookupTrue, ReadSnapshotTrue, FinishTrue DEF Call
<1>3. CASE Poll \/ Refresh \/ \E p \in polls : Answer(p) \/ Arrive(p)
  BY <1>3, PollTrue, AnswerTrue, ArriveTrue
<1>4. CASE Failures
  BY <1>4, CallLost, SnapshotLost, ReloadTrue DEF Failures
<1>5. QED BY <1>1, <1>2, <1>3, <1>4 DEF Next

(* The operator's view is never older than an outcome that was told, and   *)
(* the console's variables have their types.                               *)
THEOREM ConsoleIsSafe == Spec => []ConsoleSafe
<1>1. ChannelInv => ConsoleSafe
  BY DEF ChannelInv, ConsoleSafe
<1>2. QED BY <1>1, ChannelStarts, ChannelSteps, PTL DEF Spec

(* ------------------------ The abstract outcomes ------------------------- *)
(* OutcomeOf without the cases that never happen.                          *)
OutcomeNow(i) ==
  IF body[i] = None THEN "unasked"
  ELSE IF told[i] = "done" THEN "done"
  ELSE IF told[i] = "rejected"
    THEN IF Known(i) THEN "executed late" ELSE IF Over(i) THEN "rejected" ELSE "refused"
  ELSE IF Denied(i) THEN IF Known(i) THEN "overtaken" ELSE "denied"
  ELSE IF Known(i) THEN "executed" ELSE "asked"

LEMMA OutcomesAre == ChannelInv => \A i \in Intents : OutcomeOf(i) = OutcomeNow(i)
<1> SUFFICES ASSUME ChannelInv, NEW i \in Intents PROVE OutcomeOf(i) = OutcomeNow(i)
  OBVIOUS
<1>1. ~(Cardinality(executed[i]) > 1)
  <2>1. CASE executed[i] = {}
    BY <2>1, FS_EmptySet
  <2>2. CASE \E c \in 0 .. commits : executed[i] = {c}
    BY <2>2, FS_Singleton
  <2>3. QED BY <2>1, <2>2 DEF ChannelInv, IntentTrue, Once
<1>2. /\ body[i] = None => told[i] = "nothing"
      /\ told[i] = "done" => Known(i)
      /\ told[i] \in {"nothing", "done", "rejected"}
  BY DEF ChannelInv, IntentTrue, ConsoleTypeOK
<1>3. CASE body[i] = None
  BY <1>1, <1>2, <1>3 DEF OutcomeOf, OutcomeNow
<1>4. CASE body[i] # None /\ told[i] = "done"
  BY <1>1, <1>2, <1>4 DEF OutcomeOf, OutcomeNow
<1>5. CASE body[i] # None /\ told[i] = "rejected"
  BY <1>1, <1>5 DEF OutcomeOf, OutcomeNow
<1>6. CASE body[i] # None /\ told[i] = "nothing"
  BY <1>1, <1>6 DEF OutcomeOf, OutcomeNow
<1>7. QED BY <1>2, <1>3, <1>4, <1>5, <1>6

(* What any step makes of the outcomes.                                    *)
Kept(i) ==
  \/ OutcomeNow(i)' = OutcomeNow(i)
  \/ i \notin Creates /\ OutcomeNow(i) = "refused" /\ OutcomeNow(i)' = "rejected"
Turns(i, from, to) ==
  /\ OutcomeNow(i) = from /\ OutcomeNow(i)' = to
  /\ \A j \in Intents \ {i} : Kept(j)
Resting == {"unasked", "done", "refused", "rejected", "executed late"}
OutcomeStep ==
  \/ \A i \in Intents : Kept(i)
  \/ \E i \in Intents :
       \/ (\A j \in Intents : OutcomeNow(j) \in Resting) /\ Turns(i, "unasked", "asked")
       \/ Turns(i, "asked", "executed") \/ Turns(i, "executed", "done")
       \/ Turns(i, "asked", "denied") \/ Turns(i, "denied", "overtaken")
       \/ Turns(i, "denied", "asked") \/ Turns(i, "overtaken", "executed")
       \/ Turns(i, "denied", "refused") \/ (i \notin Creates /\ Turns(i, "denied", "rejected"))
       \/ Turns(i, "overtaken", "executed late") \/ Turns(i, "refused", "executed late")

(* A command that is neither executed, told of nor answered keeps its      *)
(* outcome, but that its game may move on.                                 *)
LEMMA OutcomeStays ==
  ASSUME ChannelInv, Advanced, NEW i \in Intents, executed'[i] = executed[i],
         body'[i] = body[i], told'[i] = told[i], Denied(i)' = Denied(i)
  PROVE  Kept(i)
<1>1. body[i] # None => body[i] \in Basis \cup Snapshot
  BY BodyTypes DEF ChannelInv
<1>2. body[i] # None /\ Over(i) => Over(i)'
  BY <1>1 DEF Over, Advanced
<1>3. Known(i)' = Known(i)
  BY DEF Known
<1>4. CASE body[i] = None
  BY <1>4 DEF Kept, OutcomeNow
<1>5. CASE body[i] # None /\ told[i] = "rejected"
  <2>1. CASE Known(i)
    BY <1>3, <1>5, <2>1 DEF Kept, OutcomeNow
  <2>2. CASE ~Known(i) /\ Over(i)
    BY <1>2, <1>3, <1>5, <2>2 DEF Kept, OutcomeNow
  <2>3. CASE ~Known(i) /\ ~Over(i)
    <3>1. OutcomeNow(i) = "refused"
      BY <1>5, <2>3 DEF OutcomeNow
    <3>2. OutcomeNow(i)' = IF Over(i)' THEN "rejected" ELSE "refused"
      BY <1>3, <1>5, <2>3 DEF OutcomeNow
    <3>3. Over(i)' => i \notin Creates
      BY DEF Over
    <3>4. QED BY <3>1, <3>2, <3>3 DEF Kept
  <2>4. QED BY <2>1, <2>2, <2>3
<1>6. CASE body[i] # None /\ told[i] # "rejected"
  BY <1>3, <1>6 DEF Kept, OutcomeNow
<1>7. QED BY <1>4, <1>5, <1>6

(* Whatever happens, the game and its revision only advance.               *)
LEMMA StepAdvances == ChannelInv /\ [Next]_vars => Advanced
<1> SUFFICES ASSUME ChannelInv, [Next]_vars PROVE Advanced
  OBVIOUS
<1>1. CASE OthersAct
  BY <1>1, TransactionAdvances DEF ChannelInv, OthersAct
<1>2. CASE \E i \in Intents : LateArrival(i)
  BY <1>2, HandleAdvances DEF ChannelInv, LateArrival
<1>3. CASE Post
  <2>1. pending \in Intents /\ Handle(pending, pc')
    BY <1>3 DEF Post, ChannelInv, PageTrue, ConsoleTypeOK
  <2>2. QED BY <2>1, HandleAdvances DEF ChannelInv
<1>4. CASE UNCHANGED <<game, open, revision, commits>>
  BY <1>4, NothingAdvances DEF ChannelInv
<1>5. CASE \E i \in Intents : Send(i)
  BY <1>4, <1>5 DEF Send, server
<1>6. CASE Recover \/ Answered \/ Lookup \/ ReadSnapshot \/ Finish
  BY <1>4, <1>6 DEF Recover, Answered, Lookup, ReadSnapshot, Finish, server
<1>7. CASE Poll \/ Refresh \/ \E p \in polls : Answer(p) \/ Arrive(p)
  BY <1>4, <1>7 DEF Poll, Refresh, Answer, Arrive, server
<1>8. CASE Failures
  BY <1>4, <1>8 DEF Failures, LoseCall, RefuseCall, LoseSession, Reload, LosePoll, server
<1>9. CASE UNCHANGED vars
  BY <1>4, <1>9 DEF vars, server
<1>10. QED BY <1>1, <1>2, <1>3, <1>5, <1>6, <1>7, <1>8, <1>9 DEF Next, Call

(* A request that was given up is executed.                                *)
LEMMA LateArrivalTurns ==
  ASSUME ChannelInv, NEW i \in Intents, LateArrival(i)
  PROVE  OutcomeStep
<1>1. /\ UNCHANGED <<body, told, pending, pc>> /\ body[i] # None
      /\ \A j \in Intents : late'[j] = late[j] \/ body[j] # None
  BY DEF LateArrival, ChannelInv, ConsoleTypeOK, IntentTrue, page
<1>2. Advanced /\ (Executes(i) \/ UNCHANGED server)
  BY HandleAdvances DEF ChannelInv, LateArrival
<1>3. CASE UNCHANGED server
  BY <1>1, <1>2, <1>3, OutcomeStays DEF server, OutcomeStep, Denied
<1>4. CASE Executes(i)
  <2>1. /\ told[i] # "done" /\ executed'[i] = {commits'}
        /\ \A j \in Intents \ {i} : executed'[j] = executed[j]
    BY <1>1, <1>2, <1>4, IntentsHandled DEF ChannelInv
  <2>2. \A j \in Intents \ {i} : Kept(j)
    BY <1>1, <1>2, <2>1, OutcomeStays DEF Denied
  <2>3. ~Known(i) /\ Known(i)' /\ Denied(i)' = Denied(i)
    BY <1>1, <1>4, <2>1 DEF Executes, Known, Denied
  <2>4. ~Over(i)
    <3>1. SUFFICES ASSUME i \notin Creates, Stale(body[i]) PROVE FALSE
      BY DEF Over
    <3>2. body[i] = [game |-> game, revision |-> revision] /\ open
      BY <1>4, <3>1 DEF Executes, Fits
    <3>3. QED BY <3>1, <3>2 DEF Stale, ChannelInv, ConsoleTypeOK
  <2>5. \/ OutcomeNow(i) = "asked" /\ OutcomeNow(i)' = "executed"
        \/ OutcomeNow(i) = "denied" /\ OutcomeNow(i)' = "overtaken"
        \/ OutcomeNow(i) = "refused" /\ OutcomeNow(i)' = "executed late"
    BY <1>1, <2>1, <2>3, <2>4 DEF OutcomeNow
  <2>6. QED BY <2>2, <2>5 DEF Turns, OutcomeStep
<1>5. QED BY <1>2, <1>3, <1>4

(* The page's own request is executed, refused or acknowledged again.      *)
LEMMA PostTurns == ChannelInv /\ Post => OutcomeStep
<1> SUFFICES ASSUME ChannelInv, Post PROVE OutcomeStep
  OBVIOUS
<1>1. /\ pc = "post" /\ pc' \in {"accepted", "refused"}
      /\ Handle(pending, pc') /\ UNCHANGED <<body, told, pending, late>>
  BY DEF Post
<1>2. PICK i \in Intents : i = pending /\ body[i] # None /\ told[i] = "nothing"
  BY <1>1 DEF ChannelInv, PageTrue, ConsoleTypeOK
<1>3. /\ Advanced
      /\ \/ Executes(i) /\ pc' = "accepted"
         \/ UNCHANGED server /\ (pc' = "accepted" => Known(i)) /\ (pc' = "refused" => ~Known(i))
  BY <1>1, <1>2, HandleAdvances DEF ChannelInv
<1>4. \A j \in Intents \ {i} : Denied(j)' = Denied(j)
  BY <1>1, <1>2 DEF Denied
<1>5. CASE UNCHANGED server /\ pc' = "accepted"
  <2>1. \A j \in Intents : Denied(j)' = Denied(j) /\ executed'[j] = executed[j]
    BY <1>1, <1>5 DEF Denied, server
  <2>2. QED BY <1>1, <1>3, <2>1, OutcomeStays DEF OutcomeStep
<1>6. CASE UNCHANGED server /\ pc' = "refused"
  <2>1. \A j \in Intents \ {i} : Kept(j)
    BY <1>1, <1>3, <1>4, <1>6, OutcomeStays DEF server
  <2>2. ~Known(i) /\ ~Known(i)' /\ ~Denied(i) /\ Denied(i)'
    BY <1>1, <1>2, <1>3, <1>6 DEF Known, Denied, server, Executes
  <2>3. OutcomeNow(i) = "asked" /\ OutcomeNow(i)' = "denied"
    BY <1>1, <1>2, <2>2 DEF OutcomeNow
  <2>4. QED BY <2>1, <2>3 DEF Turns, OutcomeStep
<1>7. CASE Executes(i) /\ pc' = "accepted"
  <2>1. /\ executed'[i] = {commits'}
        /\ \A j \in Intents \ {i} : executed'[j] = executed[j]
    BY <1>1, <1>2, <1>3, <1>7, IntentsHandled DEF ChannelInv
  <2>2. \A j \in Intents \ {i} : Kept(j)
    BY <1>1, <1>3, <1>4, <2>1, OutcomeStays
  <2>3. ~Known(i) /\ Known(i)' /\ ~Denied(i) /\ ~Denied(i)'
    BY <1>1, <1>7, <2>1 DEF Known, Denied, Executes
  <2>4. OutcomeNow(i) = "asked" /\ OutcomeNow(i)' = "executed"
    BY <1>1, <1>2, <2>3 DEF OutcomeNow
  <2>5. QED BY <2>2, <2>4 DEF Turns, OutcomeStep
<1>8. QED BY <1>1, <1>3, <1>5, <1>6, <1>7

(* The answer is lost, or the page loaded again.                           *)
LEMMA LossTurns ==
  ASSUME ChannelInv, UNCHANGED <<server, body, told, pending>>, pc' # "refused"
  PROVE  OutcomeStep
<1>1. Advanced /\ \A j \in Intents : executed'[j] = executed[j]
  BY NothingAdvances DEF ChannelInv, server
<1>2. CASE pc # "refused"
  BY <1>1, <1>2, OutcomeStays DEF OutcomeStep, Denied
<1>3. CASE pc = "refused"
  <2>1. PICK i \in Intents : i = pending /\ body[i] # None /\ told[i] = "nothing"
    BY <1>3 DEF ChannelInv, PageTrue, ConsoleTypeOK
  <2>2. \A j \in Intents \ {i} : Kept(j)
    BY <1>1, <2>1, OutcomeStays DEF Denied
  <2>3. Known(i)' = Known(i) /\ Denied(i) /\ ~Denied(i)'
    BY <1>3, <2>1 DEF Known, Denied, server
  <2>4. \/ OutcomeNow(i) = "denied" /\ OutcomeNow(i)' = "asked"
        \/ OutcomeNow(i) = "overtaken" /\ OutcomeNow(i)' = "executed"
    BY <2>1, <2>3 DEF OutcomeNow
  <2>5. QED BY <2>2, <2>4 DEF Turns, OutcomeStep
<1>4. QED BY <1>2, <1>3

(* The operator is told.                                                   *)
LEMMA ToldTurns ==
  ASSUME ChannelInv, ChannelInv', Answered \/ Finish
  PROVE  OutcomeStep
<1>1. executed' = executed /\ body' = body /\ Advanced
  BY NothingAdvances DEF Answered, Finish, server, ChannelInv
<1>2. CASE pc = "accepted" /\ pc' = "read" /\ UNCHANGED <<pending, told>>
  BY <1>1, <1>2, OutcomeStays DEF OutcomeStep, Denied
<1>3. CASE pc = "refused" /\ pc' = "idle" /\ told' = [told EXCEPT ![pending] = "rejected"]
  <2>1. PICK i \in Intents :
          /\ i = pending /\ body[i] # None /\ told[i] = "nothing"
          /\ told'[i] = "rejected" /\ \A j \in Intents \ {i} : told'[j] = told[j]
    BY <1>3 DEF ChannelInv, PageTrue, ConsoleTypeOK
  <2>2. \A j \in Intents \ {i} : Kept(j)
    BY <1>1, <1>3, <2>1, OutcomeStays DEF Denied
  <2>3. Known(i)' = Known(i) /\ Denied(i)
    BY <1>1, <1>3, <2>1 DEF Known, Denied
  <2>4. \/ OutcomeNow(i) = "denied" /\ OutcomeNow(i)' = "refused"
        \/ i \notin Creates /\ OutcomeNow(i) = "denied" /\ OutcomeNow(i)' = "rejected"
        \/ OutcomeNow(i) = "overtaken" /\ OutcomeNow(i)' = "executed late"
    BY <1>1, <2>1, <2>3 DEF OutcomeNow, Over
  <2>5. QED BY <2>2, <2>4 DEF Turns, OutcomeStep
<1>4. CASE pc = "apply" /\ pc' = "idle" /\ told' = [told EXCEPT ![pending] = "done"]
  <2>1. PICK i \in Intents :
          /\ i = pending /\ body[i] # None /\ told[i] = "nothing" /\ Known(i)
          /\ told'[i] = "done" /\ \A j \in Intents \ {i} : told'[j] = told[j]
    BY <1>4 DEF ChannelInv, PageTrue, ConsoleTypeOK
  <2>2. \A j \in Intents \ {i} : Kept(j)
    BY <1>1, <1>4, <2>1, OutcomeStays DEF Denied
  <2>3. OutcomeNow(i) = "executed" /\ OutcomeNow(i)' = "done"
    BY <1>1, <1>4, <2>1 DEF OutcomeNow, Denied
  <2>4. QED BY <2>2, <2>3 DEF Turns, OutcomeStep
<1>5. QED BY <1>2, <1>3, <1>4 DEF Answered, Finish

(* A command is asked for: nothing else is outstanding.                    *)
LEMMA SendTurns ==
  ASSUME ChannelInv, NEW i \in Intents, Send(i)
  PROVE  OutcomeStep
<1>1. /\ pc = "idle" /\ pc' = "post" /\ pending = None /\ body[i] = None /\ pending' = i
      /\ executed' = executed /\ told' = told
      /\ \A j \in Intents \ {i} : body'[j] = body[j]
  BY DEF Send, server, ChannelInv, ConsoleTypeOK
<1>2. body'[i] # None
  <2>1. body'[i] \in Basis
    BY DEF Send, Nothing, Basis, ChannelInv, ConsoleTypeOK, Snapshot
  <2>2. QED BY <2>1, SnapshotAssumption
<1>3. executed[i] = {} /\ told[i] = "nothing"
  BY <1>1 DEF ChannelInv, IntentTrue
<1>4. \A j \in Intents : body[j] # None => told[j] # "nothing"
  BY <1>1, ChannelAssumption DEF ChannelInv, IntentTrue
<1>5. \A j \in Intents : OutcomeNow(j) \in Resting
  BY <1>4 DEF OutcomeNow, Resting, ChannelInv, ConsoleTypeOK
<1>6. Advanced
  BY NothingAdvances DEF ChannelInv, Send, server
<1>7. \A j \in Intents \ {i} : Kept(j)
  BY <1>1, <1>6, OutcomeStays DEF Denied
<1>8. OutcomeNow(i) = "unasked" /\ OutcomeNow(i)' = "asked"
  BY <1>1, <1>2, <1>3 DEF OutcomeNow, Known, Denied
<1>9. QED BY <1>5, <1>7, <1>8 DEF Turns, OutcomeStep

LEMMA OutcomesStep == ChannelInv /\ ChannelInv' /\ [Next]_vars => OutcomeStep
<1> SUFFICES ASSUME ChannelInv, ChannelInv', [Next]_vars PROVE OutcomeStep
  OBVIOUS
<1>1. Advanced
  BY StepAdvances
<1>2. CASE UNCHANGED <<executed, body, told, pending>> /\ (pc' = pc \/ "refused" \notin {pc, pc'})
  BY <1>1, <1>2, OutcomeStays DEF OutcomeStep, Denied
<1>3. CASE \E i \in Intents : LateArrival(i) \/ Send(i)
  BY <1>3, LateArrivalTurns, SendTurns
<1>4. CASE Post \/ Answered \/ Finish
  BY <1>4, PostTurns, ToldTurns
<1>5. CASE LoseCall \/ Reload
  BY <1>5, LossTurns DEF LoseCall, Reload
<1>6. CASE OthersAct
  BY <1>2, <1>6 DEF OthersAct, page
<1>7. CASE Recover \/ Lookup \/ ReadSnapshot
  BY <1>2, <1>7 DEF Recover, Lookup, ReadSnapshot, server
<1>8. CASE Poll \/ Refresh \/ \E p \in polls : Answer(p) \/ Arrive(p)
  BY <1>2, <1>8 DEF Poll, Refresh, Answer, Arrive, server
<1>9. CASE RefuseCall \/ LoseSession \/ \E p \in polls : LosePoll(p)
  BY <1>2, <1>9 DEF RefuseCall, LoseSession, LosePoll, server
<1>10. CASE UNCHANGED vars
  BY <1>2, <1>10 DEF vars, server, page
<1>11. QED
  BY <1>3, <1>4, <1>5, <1>6, <1>7, <1>8, <1>9, <1>10 DEF Next, Call, Failures

(* Through lost answers, late requests, retries and reloads, a command has *)
(* the outcomes of IntentOutcome: it is executed at most once, what the    *)
(* operator is told was so when the server answered, and a rejection is    *)
(* final once the revision it was given for is over.                       *)
THEOREM OutcomesAreKept == Spec => OutcomesKept
<1> DEFINE shown == [i \in Intents |-> OutcomeOf(i)]
<1>1. Init => Outcome!Init
  <2> SUFFICES ASSUME Init PROVE Outcome!Init
    OBVIOUS
  <2>1. \A i \in Intents : OutcomeOf(i) = "unasked"
    BY ChannelStarts, OutcomesAre DEF Init, OutcomeNow
  <2>2. QED BY <2>1 DEF Outcome!Init
<1>2. ChannelInv' => (\A i \in Intents : OutcomeOf(i) = OutcomeNow(i))'
  BY OutcomesAre, PTL
<1>3. ChannelInv /\ ChannelInv' /\ [Next]_vars => [Outcome!Next]_shown
  <2> SUFFICES ASSUME ChannelInv, ChannelInv', [Next]_vars PROVE [Outcome!Next]_shown
    OBVIOUS
  <2>1. \A i \in Intents : shown[i] = OutcomeNow(i) /\ shown'[i] = OutcomeNow(i)'
    BY <1>2, OutcomesAre
  <2>2. OutcomeStep
    BY OutcomesStep
  <2>3. shown' \in [Intents -> Outcome!Outcomes]
    <3>1. \A i \in Intents : OutcomeNow(i)' \in Outcome!Outcomes
      BY DEF OutcomeNow, Outcome!Outcomes
    <3>2. shown' = [i \in Intents |-> OutcomeOf(i)']
      OBVIOUS
    <3>3. QED BY <1>2, <3>1, <3>2
  <2>4. ASSUME NEW i \in Intents, Kept(i) PROVE Outcome!Stays(i)
    BY <2>1, <2>4 DEF Kept, Outcome!Stays, Outcome!Lapses
  <2>5. ASSUME NEW i \in Intents, NEW from, NEW to, Turns(i, from, to)
        PROVE  Outcome!Become(i, from, to)
    BY <2>1, <2>4, <2>5 DEF Turns, Outcome!Become
  <2>6. CASE \A i \in Intents : Kept(i)
    BY <2>3, <2>4, <2>6 DEF Outcome!Next, Outcome!Elapse
  <2>7. ASSUME NEW i \in Intents, \A j \in Intents : OutcomeNow(j) \in Resting,
               Turns(i, "unasked", "asked")
        PROVE  Outcome!Next
    <3>1. \A j \in Intents : Outcome!Settled(j)
      BY <2>1, <2>7 DEF Outcome!Settled, Resting
    <3>2. QED BY <2>3, <2>5, <2>7, <3>1 DEF Outcome!Next, Outcome!Ask
  <2>8. ASSUME NEW i \in Intents,
               \/ Turns(i, "asked", "executed") \/ Turns(i, "executed", "done")
               \/ Turns(i, "asked", "denied") \/ Turns(i, "denied", "overtaken")
               \/ Turns(i, "denied", "asked") \/ Turns(i, "overtaken", "executed")
        PROVE  Outcome!Next
    BY <2>3, <2>5, <2>8 DEF Outcome!Next, Outcome!Execute, Outcome!TellDone, Outcome!Deny,
                            Outcome!Overtake, Outcome!Forget
  <2>9. ASSUME NEW i \in Intents,
               \/ Turns(i, "denied", "refused") \/ (i \notin Creates /\ Turns(i, "denied", "rejected"))
               \/ Turns(i, "overtaken", "executed late") \/ Turns(i, "refused", "executed late")
        PROVE  Outcome!Next
    BY <2>3, <2>5, <2>9 DEF Outcome!Next, Outcome!Reject, Outcome!RejectLate, Outcome!ExecuteLate
  <2>10. QED BY <2>2, <2>6, <2>7, <2>8, <2>9 DEF OutcomeStep
<1>4. QED
  BY <1>1, <1>3, ChannelStarts, ChannelSteps, PTL DEF Spec, OutcomesKept, Outcome!Spec
=============================================================================
