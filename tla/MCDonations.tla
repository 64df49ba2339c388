----------------------------- MODULE MCDonations ----------------------------
(* Donations on a path of four cells: one locks the pawn, one gives a turn *)
(* to travel, one grants a gift there is room for only once, or not at all.*)
EXTENDS DonationsProperties, TLC

CONSTANTS blue, green

Release == [type |-> "skip_rolls", left |-> 1, onDoubles |-> "release_only", faces |-> {}]
Land == (0 :> <<>>) @@ (1 :> <<[type |-> "movement_lock", release |-> Release]>>)
        @@ (2 :> <<[type |-> "choose_destination", allowed |-> {0, 1}, exclude |-> TRUE,
                    onArrival |-> FALSE]>>)
        @@ (3 :> <<[type |-> "grant_item", item |-> "gift", quantity |-> 1]>>)
MCBoard == [b \in {"one"} |->
              [onLand |-> Land, onPass |-> [c \in 0 .. 3 |-> <<>>], dice |-> 1, sides |-> 2]]
MCPlainBoard == [b \in {"one"} |->
                   [MCBoard[b] EXCEPT !.onLand = [c \in 0 .. 3 |-> <<>>]]]
NoCounters == [c \in {} |-> 0]
OneGift == [active |-> {"gift"}, max |-> [i \in {"gift"} |-> 1]]
NoGift  == [OneGift EXCEPT !.active = {}]
NoGifts == {NoGift}

Rolls       == [type |-> "roll_dice", rolls |-> 2]
Gift        == [type |-> "grant_item", item |-> "gift", quantity |-> 1]
AMission    == [type |-> "mission", shield |-> NoItem, cost |-> 0]
Destination == [type |-> "choose_destination", selection |-> "both"]
RollsAndGifts    == {Rolls, Gift}
RollsAndMissions == {[Rolls EXCEPT !.rolls = 1], AMission}
Destinations     == {Destination}
Slots == Permutations({blue, green})
=============================================================================
