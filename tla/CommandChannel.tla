--------------------------- MODULE CommandChannel ---------------------------
(***************************************************************************)
(* The operator's console and the API it commands: api.ts and              *)
(* snapshot-order.ts of the web application and the panel that uses them,  *)
(* against createSession, command, getCommand and operatorState.           *)
(*                                                                         *)
(* The page writes every command down as an intent, with its id and body,  *)
(* before it sends it, and forgets the intent only when it knows what      *)
(* became of it.  Requests and answers get lost; a request its sender gave *)
(* up may still be executed; the page may be loaded again at any moment;   *)
(* other consoles and donations change the same game.  The view is fed by  *)
(* a poll every second, by the snapshot after a command, and by the first  *)
(* refresh of the page.                                                    *)
(*                                                                         *)
(* The game is what the requests look at: which one, open or not, and its  *)
(* revision.  Every committed transaction moves the clock commits.  The    *)
(* refusals for a missing login (401, 403) are lost requests: the page     *)
(* treats them alike.                                                      *)
(***************************************************************************)
EXTENDS Integers, FiniteSets

CONSTANTS
  Intents,      (* the commands given at this console, by their ids         *)
  Creates, Ends,(* those that create a game, and that end one               *)
  MaxOthers,    (* bound of the model: transactions of everybody else       *)
  MaxLost,      (* bound of the model: requests and answers lost            *)
  MaxReloads,   (* bound of the model: the page is loaded again             *)
  MaxPolls,     (* bound of the model: polls under way at once              *)
  MaxSequence,  (* bound of the model: number of the last poll of a page    *)
  None          (* no intent, no snapshot                                   *)

ASSUME ChannelAssumption ==
  /\ Creates \subseteq Intents /\ Ends \subseteq Intents /\ Creates \cap Ends = {}
  /\ None \notin Intents
  /\ MaxOthers \in Nat /\ MaxLost \in Nat /\ MaxReloads \in Nat
  /\ MaxPolls \in Nat /\ MaxSequence \in Nat

(* What a request names (0: no game), and what a snapshot says, with the   *)
(* commit it was read after.                                               *)
Basis    == [game : Nat, revision : Nat]
Snapshot == [game : Nat, revision : Nat, at : Nat]
Nothing  == [game |-> 0, revision |-> 0]

ASSUME SnapshotAssumption == None \notin Basis \cup Snapshot

VARIABLES
  game, open, revision, (* the channel's last game session                  *)
  commits,  (* transactions committed so far                                *)
  executed, (* Intents -> the commits its command was executed at           *)
  late,     (* Intents -> requests given up that may still be executed      *)
  body,     (* Intents -> the basis in its body, None before it is asked    *)
  pending,  (* the intent in sessionStorage                                 *)
  told,     (* Intents -> what the operator was told of it                  *)
  pc,       (* where command or retryPending of the page is                 *)
  retry,    (* it is retryPending                                           *)
  carried,  (* the snapshot it has read                                     *)
  view,     (* canonical.current                                            *)
  sequence, applied, fence, (* the counters of the panel                    *)
  polls,    (* the snapshots asked for by timer and refresh, under way      *)
  boot,     (* where the page's first refresh is                            *)
  early,    (* history: intents asked while the first refresh was to come   *)
  others, lost, reloads
server == <<game, open, revision, commits, executed>>
page   == <<pc, retry, carried, view, sequence, applied, fence, polls, boot>>
budget == <<others, lost, reloads>>
vars == <<server, late, body, pending, told, page, early, budget>>

(* A snapshot asked for: its number, what the server answered, and whether *)
(* it is the page's first refresh.                                         *)
Asked == [number : Nat, answer : Snapshot \cup {None}, first : BOOLEAN]

ConsoleTypeOK ==
  /\ game \in Nat /\ open \in BOOLEAN /\ revision \in Nat /\ commits \in Nat
  /\ executed \in [Intents -> SUBSET Nat] /\ late \in [Intents -> Nat]
  /\ body \in [Intents -> Basis \cup {None}] /\ pending \in Intents \cup {None}
  /\ told \in [Intents -> {"nothing", "done", "rejected"}]
  /\ pc \in {"idle", "post", "accepted", "refused", "lookup", "read", "apply"}
  /\ retry \in BOOLEAN /\ carried \in Snapshot \cup {None}
  /\ view \in Snapshot \cup {None}
  /\ sequence \in Nat /\ applied \in Nat /\ fence \in Nat
  /\ polls \subseteq Asked /\ boot \in {"session", "refresh", "ready", "failed"}
  /\ early \subseteq Intents
  /\ others \in Nat /\ lost \in Nat /\ reloads \in Nat

Init ==
  /\ game = 0 /\ open = FALSE /\ revision = 0 /\ commits = 0
  /\ executed = [i \in Intents |-> {}] /\ late = [i \in Intents |-> 0]
  /\ body = [i \in Intents |-> None] /\ pending = None
  /\ told = [i \in Intents |-> "nothing"]
  /\ pc = "idle" /\ retry = FALSE /\ carried = None /\ view = None
  /\ sequence = 0 /\ applied = 0 /\ fence = 0 /\ polls = {} /\ boot = "session"
  /\ early = {} /\ others = 0 /\ lost = 0 /\ reloads = 0

---------------------------------------------------------------------------
(* The server.                                                             *)

(* What operatorState answers: the open game, or none.                     *)
Current == IF open THEN [game |-> game, revision |-> revision, at |-> commits]
           ELSE [game |-> 0, revision |-> 0, at |-> commits]

(* A transaction creates a game, changes one, or ends it.                  *)
Open ==
  /\ ~open /\ open' = TRUE /\ game' = game + 1 /\ revision' = 0
  /\ commits' = commits + 1
Change(ends) ==
  /\ open /\ open' = ~ends /\ revision' = revision + 1 /\ commits' = commits + 1
  /\ UNCHANGED game

(* createSession and command look for the command's id first, then at the  *)
(* game: a body made for another game or revision is refused.              *)
Known(i) == executed[i] # {}
Fits(i) ==
  IF i \in Creates THEN ~open
  ELSE open /\ body[i] = [game |-> game, revision |-> revision]

HandleFitting(i, answer) ==                \* mutant: the game is looked up first
  IF Fits(i) /\ answer = "accepted"
  THEN /\ IF i \in Creates THEN Open ELSE Change(i \in Ends)
       /\ executed' = [executed EXCEPT ![i] = @ \cup {commits'}]
  ELSE answer = "refused" /\ UNCHANGED server

(* The answer to a request.  What was executed is acknowledged again.  A   *)
(* command that fits is executed, or refused for what else it asks of the  *)
(* game (work is pending, an item is inactive, its own target changed): a  *)
(* refusal rolls everything back and moves no revision.                    *)
Handle(i, answer) ==
  \/ Known(i) /\ answer = "accepted" /\ UNCHANGED server
  \/ ~Known(i) /\ answer = "refused" /\ UNCHANGED server
  \/ /\ ~Known(i) /\ Fits(i) /\ answer = "accepted"
     /\ IF i \in Creates THEN Open ELSE Change(i \in Ends)
     /\ executed' = [executed EXCEPT ![i] = @ \cup {commits'}]

(* Other consoles and donations.                                           *)
OthersAct ==
  /\ others < MaxOthers /\ others' = others + 1
  /\ Open \/ \E ends \in BOOLEAN : Change(ends)
  /\ UNCHANGED <<executed, late, body, pending, told, page, early, lost, reloads>>

(* A request its sender has given up arrives after all.                    *)
LateArrival(i) ==
  /\ late[i] > 0 /\ late' = [late EXCEPT ![i] = @ - 1]
  /\ \E answer \in {"accepted", "refused"} : Handle(i, answer)
  /\ UNCHANGED <<body, pending, told, page, early, budget>>

---------------------------------------------------------------------------
(* Commands.  The fence is raised before the request is sent: no snapshot  *)
(* asked for earlier is shown from then on, except the command's own.      *)
RaiseFence == sequence' = sequence + 1 /\ fence' = sequence'

(* send and start: only without a pending intent, and on what is shown.    *)
Send(i) ==
  /\ pc = "idle" /\ pending = None /\ body[i] = None /\ view # None
  /\ IF i \in Creates THEN view.game = 0 /\ boot = "ready" ELSE view.game # 0
  /\ RaiseFence
  /\ body' = [body EXCEPT ![i] = IF i \in Creates THEN Nothing
                                 ELSE [game |-> view.game, revision |-> view.revision]]
  /\ pending' = i /\ pc' = "post" /\ retry' = FALSE
  /\ early' = IF boot = "session" THEN early \cup {i} ELSE early
  /\ UNCHANGED <<server, late, told, carried, view, applied, polls, boot, budget>>

RecoverOnce ==                             \* mutant: no timer for another attempt
  /\ pc = "idle" /\ pending # None /\ view # None /\ ~retry
  /\ RaiseFence
  /\ pc' = "lookup" /\ retry' = TRUE
  /\ UNCHANGED <<server, late, body, pending, told, carried, view, applied, polls,
                 boot, early, budget>>

(* recover: the page has a pending intent and something to show.           *)
Recover ==
  /\ pc = "idle" /\ pending # None /\ view # None
  /\ RaiseFence
  /\ pc' = "lookup" /\ retry' = TRUE
  /\ UNCHANGED <<server, late, body, pending, told, carried, view, applied, polls,
                 boot, early, budget>>

(* The request is executed or refused.                                     *)
Post ==
  /\ pc = "post"
  /\ pc' \in {"accepted", "refused"} /\ Handle(pending, pc')
  /\ UNCHANGED <<late, body, pending, told, retry, carried, view, sequence, applied,
                 fence, polls, boot, early, budget>>

(* The answer arrives: a refusal is definitive, and ends the intent.       *)
Answered ==
  /\ \/ pc = "accepted" /\ pc' = "read" /\ UNCHANGED <<pending, told>>
     \/ /\ pc = "refused" /\ pc' = "idle"
        /\ pending' = None /\ told' = [told EXCEPT ![pending] = "rejected"]
  /\ UNCHANGED <<server, late, body, retry, carried, view, sequence, applied, fence,
                 polls, boot, early, budget>>

(* reconcileIntent asks for the command by its id.  Not found: retryIntent *)
(* sends the same body again, command gives up for now.                    *)
Lookup ==
  /\ pc = "lookup"
  /\ pc' = IF Known(pending) THEN "read" ELSE IF retry THEN "post" ELSE "idle"
  /\ UNCHANGED <<server, late, body, pending, told, retry, carried, view, sequence,
                 applied, fence, polls, boot, early, budget>>

(* The snapshot after a command is read, and                               *)
ReadSnapshot ==
  /\ pc = "read" /\ pc' = "apply" /\ carried' = Current
  /\ UNCHANGED <<server, late, body, pending, told, retry, view, sequence, applied,
                 fence, polls, boot, early, budget>>

(* shouldAcceptSnapshot and applySnapshot.                                 *)
Accepted(snapshot, number, authoritative) ==
  /\ number >= applied
  /\ authoritative \/ number >= fence
  /\ view # None /\ view.game = snapshot.game => snapshot.revision >= view.revision
ApplySnapshot(snapshot, number, authoritative) ==
  IF Accepted(snapshot, number, authoritative)
  THEN view' = snapshot /\ applied' = number
  ELSE UNCHANGED <<view, applied>>

(* arrives: only now is the intent forgotten and the operator told.        *)
Finish ==
  /\ pc = "apply" /\ pc' = "idle"
  /\ pending' = None /\ told' = [told EXCEPT ![pending] = "done"]
  /\ ApplySnapshot(carried, fence, TRUE) /\ carried' = None
  /\ UNCHANGED <<server, late, body, retry, sequence, fence, polls, boot, early, budget>>

---------------------------------------------------------------------------
(* The view.                                                               *)

PollAlways ==                              \* mutant: also while one is pending
  /\ Cardinality(polls) < MaxPolls /\ sequence < MaxSequence
  /\ sequence' = sequence + 1
  /\ polls' = polls \cup {[number |-> sequence', answer |-> None, first |-> FALSE]}
  /\ UNCHANGED <<server, late, body, pending, told, pc, retry, carried, view, applied,
                 fence, boot, early, budget>>

(* The timer asks for a snapshot every second, but never while an intent   *)
(* is pending.                                                             *)
Poll ==
  /\ pending = None /\ Cardinality(polls) < MaxPolls /\ sequence < MaxSequence
  /\ sequence' = sequence + 1
  /\ polls' = polls \cup {[number |-> sequence', answer |-> None, first |-> FALSE]}
  /\ UNCHANGED <<server, late, body, pending, told, pc, retry, carried, view, applied,
                 fence, boot, early, budget>>

(* The session answers at last, and the first refresh asks, pending or not.*)
Refresh ==
  /\ boot = "session" /\ boot' = "refresh"
  /\ sequence' = sequence + 1
  /\ polls' = polls \cup {[number |-> sequence', answer |-> None, first |-> TRUE]}
  /\ UNCHANGED <<server, late, body, pending, told, pc, retry, carried, view, applied,
                 fence, early, budget>>

(* The server answers a snapshot, and the answer arrives, in any order.    *)
Answer(p) ==
  /\ p.answer = None
  /\ polls' = (polls \ {p}) \cup {[p EXCEPT !.answer = Current]}
  /\ UNCHANGED <<server, late, body, pending, told, pc, retry, carried, view, sequence,
                 applied, fence, boot, early, budget>>
Arrive(p) ==
  /\ p.answer # None
  /\ polls' = polls \ {p}
  /\ ApplySnapshot(p.answer, p.number, FALSE)
  /\ boot' = IF p.first THEN "ready" ELSE boot
  /\ UNCHANGED <<server, late, body, pending, told, pc, retry, carried, sequence, fence,
                 early, budget>>

---------------------------------------------------------------------------
(* Failures.                                                               *)
Lose == lost < MaxLost /\ lost' = lost + 1 /\ UNCHANGED <<others, reloads>>

(* A command's request or answer is lost.  command looks the intent up at  *)
(* once; retryIntent and everything after the answer try again later.      *)
LoseCall ==
  /\ Lose
  /\ pc # "idle"
  /\ pc' = IF pc \in {"post", "accepted", "refused"} /\ ~retry THEN "lookup" ELSE "idle"
  /\ late' = IF pc = "post" THEN [late EXCEPT ![pending] = @ + 1] ELSE late
  /\ carried' = None
  /\ UNCHANGED <<server, body, pending, told, retry, view, sequence, applied, fence,
                 polls, boot, early>>

(* The request was refused without ever being executed: no login, a proxy. *)
RefuseCall ==
  /\ Lose
  /\ pc = "post" /\ pc' = IF retry THEN "idle" ELSE "lookup"
  /\ UNCHANGED <<server, late, body, pending, told, retry, carried, view, sequence,
                 applied, fence, polls, boot, early>>

LosePoll(p) ==
  /\ Lose
  /\ polls' = polls \ {p}
  /\ boot' = IF p.first THEN "failed" ELSE boot
  /\ UNCHANGED <<server, late, body, pending, told, pc, retry, carried, view, sequence,
                 applied, fence, early>>

LoseSession ==
  /\ Lose
  /\ boot = "session" /\ boot' = "failed"
  /\ UNCHANGED <<server, late, body, pending, told, pc, retry, carried, view, sequence,
                 applied, fence, polls, early>>

(* The page is loaded again: only sessionStorage survives.                 *)
Reload ==
  /\ reloads < MaxReloads /\ reloads' = reloads + 1
  /\ late' = IF pc = "post" THEN [late EXCEPT ![pending] = @ + 1] ELSE late
  /\ pc' = "idle" /\ retry' = FALSE /\ carried' = None /\ view' = None
  /\ sequence' = 0 /\ applied' = 0 /\ fence' = 0 /\ polls' = {} /\ boot' = "session"
  /\ UNCHANGED <<server, body, pending, told, early, others, lost>>

---------------------------------------------------------------------------
Call == Post \/ Answered \/ Lookup \/ ReadSnapshot \/ Finish
Failures == LoseCall \/ RefuseCall \/ LoseSession \/ Reload \/ \E p \in polls : LosePoll(p)

Next ==
  \/ OthersAct \/ (\E i \in Intents : LateArrival(i) \/ Send(i))
  \/ Recover \/ Call
  \/ Poll \/ Refresh \/ (\E p \in polls : Answer(p) \/ Arrive(p))
  \/ Failures

(* Requests that are not lost are answered, and the page's timers fire.    *)
Spec ==
  /\ Init /\ [][Next]_vars
  /\ WF_vars(Recover) /\ WF_vars(Call)
  /\ WF_vars(Poll) /\ WF_vars(Refresh)
  /\ WF_vars(\E p \in polls : Answer(p)) /\ WF_vars(\E p \in polls : Arrive(p))
=============================================================================
