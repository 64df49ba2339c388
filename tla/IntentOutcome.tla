---------------------------- MODULE IntentOutcome ---------------------------
(***************************************************************************)
(* What an operator may rely on, whatever happens to the requests.  A      *)
(* command given at the console is executed at most once, and the operator *)
(* is told it was done only if it was executed.  The operator is told it   *)
(* was rejected only if the server refused it without having executed it;  *)
(* once the game or the revision it was given for is over, that is final.  *)
(* Until then a request given up may still arrive, and be executed after   *)
(* all: before the operator reads the refusal, or after.  One command is   *)
(* outstanding at a time.                                                  *)
(***************************************************************************)
CONSTANTS
  Intents,
  Creates   (* those that name no game: no refusal of theirs is ever final  *)
VARIABLE outcome

Outcomes ==
  {"unasked", "asked", "executed", "done",
   "denied",          (* refused, and the answer is under way               *)
   "overtaken",       (* executed while a refusal was under way             *)
   "refused",         (* told rejected, its revision still stands           *)
   "rejected",        (* told rejected, its revision is over                *)
   "executed late"}   (* told rejected, and executed                        *)

Init == outcome = [i \in Intents |-> "unasked"]

Settled(i) == outcome[i] \in {"unasked", "done", "refused", "rejected", "executed late"}

(* The game may move on in any step: refusals become final with it.        *)
Lapses(i) == i \notin Creates /\ outcome[i] = "refused" /\ outcome'[i] = "rejected"
Stays(i)  == outcome'[i] = outcome[i] \/ Lapses(i)
Become(i, from, to) ==
  /\ outcome[i] = from /\ outcome'[i] = to
  /\ \A j \in Intents \ {i} : Stays(j)

Ask(i)         == (\A j \in Intents : Settled(j)) /\ Become(i, "unasked", "asked")
Execute(i)     == Become(i, "asked", "executed")
TellDone(i)    == Become(i, "executed", "done")
Deny(i)        == Become(i, "asked", "denied")
Overtake(i)    == Become(i, "denied", "overtaken")
Forget(i)      == Become(i, "denied", "asked") \/ Become(i, "overtaken", "executed")
Reject(i)      == Become(i, "denied", "refused") \/ (i \notin Creates /\ Become(i, "denied", "rejected"))
RejectLate(i)  == Become(i, "overtaken", "executed late")
ExecuteLate(i) == Become(i, "refused", "executed late")
Elapse         == \A i \in Intents : Stays(i)

Next ==
  /\ outcome' \in [Intents -> Outcomes]
  /\ \/ Elapse
     \/ \E i \in Intents :
          \/ Ask(i) \/ Execute(i) \/ TellDone(i) \/ Deny(i) \/ Overtake(i) \/ Forget(i)
          \/ Reject(i) \/ RejectLate(i) \/ ExecuteLate(i)
Spec == Init /\ [][Next]_outcome
=============================================================================
