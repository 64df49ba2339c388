------------------------- MODULE DonationsProperties ------------------------
(* What a donation is promised once it is accepted.                        *)
EXTENDS Donations, GameSessionProperties

Commands(k) == Cardinality({n \in DOMAIN log : log[n] = k})

(* A donation makes exactly the game commands its rule asks for: none      *)
(* twice, however many drains run at once, whatever is retried after an    *)
(* error or a crash, and none left out of one that is called executed      *)
(* ("a completed donation is not executed again", docs/operator-guide.md). *)
ExecutedExactly ==
  \A k \in DOMAIN inbox :
    /\ Commands(k) = inbox[k].progress
    /\ Commands(k) <= StepsOf(inbox[k].action)
    /\ inbox[k].disposition = "executed" => Commands(k) = StepsOf(inbox[k].action)

(* A donation acts on the session it was accepted in and on no other: not  *)
(* once that has ended, and not on the next one (docs/operator-guide.md).  *)
DonationsStayInSession ==
  [][log' # log => LET k == log'[Len(log')] IN
                   inbox[k].session = db.session /\ db.status # "ended"]_donationVars

(* The destination of a request is settled once: neither the operator nor  *)
(* the donor, in whatever order their choices arrive, changes one that is  *)
(* there ("a request's destination is settled only once",                  *)
(* docs/operator-guide.md).                                                *)
DestinationSettledOnce ==
  [][SameSession =>
       \A k \in DOMAIN db.tasks :
         LET r == db.tasks[k] IN
         r.kind = "donation_destination" /\ r.selected # NoCell =>
           db'.tasks[k].selected = r.selected]_donationVars

(* What is closed stays closed: a request that the operator has cancelled, *)
(* or that a drain has closed because nobody answered in time, stays so and*)
(* its donation makes no command afterwards, so it never moves the pawn,   *)
(* whichever drain has listed it or read it before; nor does one that is   *)
(* carried out already.  An answer given in time is carried out even if the*)
(* time is over by then (README, Findings).                                *)
RequestsClose ==
  [][SameSession =>
       /\ \A n \in DOMAIN db.tasks :
            db.tasks[n].status # "pending" => db'.tasks[n].status = db.tasks[n].status
       /\ \A k \in DOMAIN inbox :
            inbox[k].session = db.session /\ Asked(k) /\ Request(k).status # "pending" =>
              Commands(k)' = Commands(k)]_donationVars

(* The movements that wait before donation k fill the list of a drain.     *)
Crowded(k) ==
  Cardinality({j \in DOMAIN inbox : j < k /\ IsMovement(j) /\ Pending(j)}) >= DrainLimit

(* A donation that does not move the pawn is decided in the end, also while*)
(* movements wait for a pause, a lock or a destination, as soon as fewer of*)
(* them than one drain lists (LIMIT of drain) wait before it.  Behind more *)
(* than that it waits with them (README, Findings).                        *)
Decided ==
  \A k \in 1 .. MaxDonations :
    (k \in DOMAIN inbox /\ ~IsMovement(k) /\ ~Crowded(k))
      ~> (k \in DOMAIN inbox /\ ~Pending(k))

(* An expired request never moves the pawn ("the pawn is not moved by the  *)
(* chat of another donor or by an expired request", docs/operator-guide.md *)
(* line 27): no drain begins to carry out one that has expired by then.    *)
ExpiredNeverMoves ==
  [][\A p \in Drainers :
       drains[p].stage # "execute" /\ drains'[p].stage = "execute" =>
         ~(Asked(Row(p)) /\ inbox[Row(p)].expired)]_donationVars

(* What a donation's record says is what happened: one that is recorded as *)
(* failed has not made all its commands ("check the matched rule, the      *)
(* applied version and the result in the donation's details",              *)
(* docs/collector.md).                                                     *)
ResultsAreTrue ==
  \A k \in DOMAIN inbox :
    inbox[k].disposition = "failed" => Commands(k) < StepsOf(inbox[k].action)

(* Failed work can be retried request by request ("selection, holding,     *)
(* cancelling and retry of failed work are handled per request",           *)
(* docs/operator-guide.md): a request that is still open has a donation    *)
(* that will act on it.                                                    *)
RequestsHaveDonations ==
  \A k \in DOMAIN inbox :
    Bound(k) /\ Asked(k) /\ Request(k).status = "pending" => Pending(k)

(* The donor's chat is used where the rule says so ("the operator's choice *)
(* and the donor's chat are used, as configured", docs/operator-guide.md): *)
(* no stored message answers a request that is still unanswered.           *)
ChatIsUsed ==
  \A k \in DOMAIN inbox :
    Bound(k) /\ Asked(k) /\ Request(k).status = "pending" /\ Unselected(k) =>
      Earlier(k) = {}
=============================================================================
