--------------------------- MODULE DonationIntake ---------------------------
(***************************************************************************)
(* What the intake of donations promises.  Donations are journalled        *)
(* upstream; a journal only grows, and is abandoned for another when its   *)
(* history is rewritten.  The intake follows one journal from the place    *)
(* where it subscribed: it stores every entry once and in order, skips     *)
(* none, and acknowledges an entry only when it is stored.                 *)
(***************************************************************************)
EXTENDS Naturals, Sequences

CONSTANTS Entries,   (* what is journalled: records with an event id        *)
          Journals,  (* names of the journals                               *)
          Nowhere    (* the position before the subscription                *)

VARIABLES
  journal,  (* Journals -> Seq(Entries)                                     *)
  position, (* Nowhere, or the journal followed and how far                 *)
  stored,   (* the entries stored, in order, with the place of each         *)
  acked     (* Journals -> the offset acknowledged                          *)
vars == <<journal, position, stored, acked>>

Init ==
  /\ journal = [j \in Journals |-> <<>>]
  /\ position = Nowhere
  /\ stored = <<>>
  /\ acked = [j \in Journals |-> 0]

Continues(old, new) ==
  Len(old) <= Len(new) /\ \A n \in 1 .. Len(old) : new[n] = old[n]

Grow ==
  /\ journal' \in [Journals -> Seq(Entries)]
  /\ \A j \in Journals : Continues(journal[j], journal'[j])
  /\ UNCHANGED <<position, stored, acked>>

Subscribe ==
  /\ position = Nowhere
  /\ \E j \in Journals : \E n \in 0 .. Len(journal[j]) :
       position' = [at |-> j, offset |-> n]
  /\ UNCHANGED <<journal, stored, acked>>

Store ==
  /\ position # Nowhere
  /\ LET j == position.at
         n == position.offset + 1
     IN /\ n <= Len(journal[j])
        /\ \A k \in DOMAIN stored : stored[k].entry.event # journal[j][n].event
        /\ stored' = Append(stored, [at |-> j, offset |-> n, entry |-> journal[j][n]])
        /\ position' = [at |-> j, offset |-> n]
  /\ UNCHANGED <<journal, acked>>

Acknowledge ==
  /\ position # Nowhere
  /\ \E n \in acked[position.at] .. position.offset :
       acked' = [acked EXCEPT ![position.at] = n]
  /\ UNCHANGED <<journal, position, stored>>

Next == Grow \/ Subscribe \/ Store \/ Acknowledge
Spec == Init /\ [][Next]_vars
=============================================================================
