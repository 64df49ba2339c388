---------------------- MODULE CommandChannelProperties ----------------------
(* What the console promises the operator.                                 *)
EXTENDS CommandChannel

(* The game or the revision a basis names is over.                         *)
Stale(b) == b.game < game \/ (b.game = game /\ (b.revision < revision \/ ~open))
Over(i)  == i \notin Creates /\ Stale(body[i])

(* What has become of a command: by whether it was asked, how often it was *)
(* executed, whether a refusal is under way, and what the operator was told.*)
Denied(i) == pc = "refused" /\ pending = i
OutcomeOf(i) ==
  CASE Cardinality(executed[i]) > 1 -> "executed twice"
    [] body[i] = None -> "unasked"
    [] told[i] = "done" -> IF Known(i) THEN "done" ELSE "done for nothing"
    [] told[i] = "rejected" ->
         IF Known(i) THEN "executed late" ELSE IF Over(i) THEN "rejected" ELSE "refused"
    [] OTHER ->
         IF Denied(i) THEN IF Known(i) THEN "overtaken" ELSE "denied"
         ELSE IF Known(i) THEN "executed" ELSE "asked"
Outcome == INSTANCE IntentOutcome WITH outcome <- [i \in Intents |-> OutcomeOf(i)]

(* Through lost answers, requests that arrive after they were given up,    *)
(* retries and reloads, a command has the outcomes of IntentOutcome: it is *)
(* executed at most once, "done" is told of what was executed, "rejected"  *)
(* of what was not when the server refused it, and that is final once the  *)
(* revision it names is over (the ids and the order of the checks in       *)
(* createSession and command, retryIntent, isDefinitiveMutationRejection). *)
(* Before that a request given up may still be executed: end_session is    *)
(* refused while a task is pending, the task is cancelled by its expiry,   *)
(* and the first request arrives.                                          *)
OutcomesKept == Outcome!Spec

(* Once the operator was told a command is done, the view is never older   *)
(* than its execution: no poll that was asked for before it, and overtaken *)
(* by it, is shown (the fence of applySnapshot).  A command given before   *)
(* the page's first refresh was even asked for is not protected.           *)
NeverBehindOutcome ==
  \A i \in Intents \ early :
    told[i] = "done" /\ view # None => \A c \in executed[i] : view.at >= c

(* The console's variables have their types, and its view is never behind  *)
(* an outcome it told.                                                     *)
ConsoleSafe == ConsoleTypeOK /\ NeverBehindOutcome

(* A pending command of a page that shows something does not stay pending: *)
(* the operator is told what became of it, unless the page is loaded again *)
(* first.                                                                  *)
PendingResolves ==
  \A i \in Intents :
    (pending = i /\ view # None) ~> (told[i] # "nothing" \/ view = None)

(* After a reconnection the console reads the server's state again         *)
(* (docs/deployment.md:17).  It does not when the first refresh of a page  *)
(* fails while an intent is pending: the poll waits for the intent, and    *)
(* its recovery waits for a view.                                          *)
ConsoleLoads == (view = None) ~> (view # None)
=============================================================================
