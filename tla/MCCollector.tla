----------------------------- MODULE MCCollector ----------------------------
(* Two donations and two processes.                                        *)
EXTENDS CollectorProperties, TLC

CONSTANTS A, B, blue, green

MCMatching == [r \in Rules |-> Events]
Slots == Permutations({blue, green})
SlotsAndEvents == Slots \cup Permutations({A, B})

RepeatsEvent == \E j \in DOMAIN journal : \E m, n \in DOMAIN journal[j] :
                  m # n /\ journal[j][m].event = journal[j][n].event

(* Bound of the run collector: one other incarnation of the journal, and   *)
(* sessions, rules and repeated entries only where nothing failed, and the *)
(* first two only where the journal stayed.                                *)
Apart ==
  /\ upstream.at.gen + upstream.at.rev <= 2
  /\ \/ game.opened = 0 /\ game.rules = NoRules
     \/ faults = 0 /\ upstream.at = First
  /\ faults = 0 \/ ~RepeatsEvent
=============================================================================
