----------------------------- MODULE OverlayPage ----------------------------
(***************************************************************************)
(* The broadcast page: what it polls (configuration.service.ts, overlay),  *)
(* what is pushed to its socket (overlay-realtime.ts), which of it it      *)
(* accepts (view.tsx, snapshot-order.ts), how it animates the pawn         *)
(* (total/page.tsx, use-roll-presentation.ts, roll-playback.ts), and the   *)
(* rotation of its address.                                                *)
(*                                                                         *)
(* The game is GameSession's, seen from outside: commands with dice and a  *)
(* path move the pawn along it, every other change of its cell begins a new*)
(* presentation (GameSessionProperties!PawnIsPresented).  Of a timeline    *)
(* only the events that move the pawn or end the run are kept.  The page's *)
(* timers are always those of its last run: cancelling one clears them.    *)
(* One page, one board of PathLength cells.                                *)
(***************************************************************************)
EXTENDS Integers, Sequences

CONSTANTS
  PathLength,
  MaxDice,      (* of a roll                                                *)
  LongPath,     (* steps above which only the landing is shown: 24          *)
  CommandLimit, (* commands sent with a snapshot: 50                        *)
  MaxRevision,  (* bound of the model: changes of a game                    *)
  MaxRare,      (* bound of the model: games that end, presentations that   *)
                (* begin, layouts, rotations, preferences that change, faults*)
  None          (* no game, answer, accepted state or run                   *)

ASSUME PageAssumption ==
  /\ {PathLength, MaxDice} \subseteq Nat \ {0} /\ LongPath \in Nat
  /\ CommandLimit \in Nat \ {0}
  /\ {MaxRevision, MaxRare} \subseteq Nat

VARIABLES
  game, games,   (* the session that has not ended, the sessions so far     *)
  layout,        (* the version of the live layout                          *)
  unsent,        (* layouts committed, their event not emitted yet          *)
  token,         (* the address that is live; addresses are numbered        *)
  retired,       (* addresses rotated away whose sockets are not closed yet *)
  address, socket, (* the page's address, its connection                    *)
  answer,        (* the answer to its poll                                  *)
  accepted, due, (* the state it accepted; it is not rendered yet           *)
  rendered,      (* the presentation and cell of the last render            *)
  observed,      (* what the page counts as shown                           *)
  view,          (* the animation                                           *)
  reduced,       (* the reader prefers reduced motion                       *)
  rare           (* the rare events so far                                  *)
server == <<game, games, layout, unsent, token, retired>>
page   == <<accepted, due, rendered, observed, view, reduced>>
link   == <<address, socket, answer>>
vars   == <<server, page, link, rare>>

Cell      == 0 .. PathLength - 1
Path      == UNION {[1 .. n -> Cell] : n \in 0 .. MaxDice}
Command   == [revision : Nat, dice : BOOLEAN, from : Cell, path : Path]
Game      == [id : Nat, epoch : Nat, revision : Nat, cell : Cell, commands : Seq(Command)]
NoGame    == [id |-> 0, epoch |-> 0, revision |-> 0, cell |-> 0, commands |-> <<>>]
Snapshot  == [game : Game, layout : Nat]
Denied    == [denied |-> TRUE]
Key(g)    == <<g.id, g.epoch>>
Run       == [key : Nat \X Nat, command : Command]
ASSUME NoneAssumption == None \notin Run \cup Snapshot \cup {Denied}

To(c)     == IF c.path = <<>> THEN c.from ELSE c.path[Len(c.path)]

(* The elements of s at the indices in I, in their order.                  *)
Select(s, I) ==
  LET kept[n \in 0 .. Len(s)] ==
        IF n = 0 THEN <<>>
        ELSE IF n \in I THEN Append(kept[n - 1], s[n]) ELSE kept[n - 1]
  IN kept[Len(s)]

(* cell: where the pawn is shown; queue: commands to animate; run: the one *)
(* that is, with the cells still to come; left: its timers: cells to step  *)
(* on, then the landing, then the end.                                     *)
View == [cell : Cell, queue : Seq(Command), run : Run \cup {None},
         left : Seq([event : {"cell", "landing", "idle"}, cell : Cell]), seen : SUBSET Nat]

PageTypeOK ==
  /\ game \in Game /\ games \in Nat /\ layout \in Nat /\ unsent \subseteq Nat
  /\ token \in Nat /\ retired \subseteq Nat /\ address \in Nat
  /\ socket \in {"off", "authenticated", "registered"}
  /\ answer \in Snapshot \cup {None, Denied}
  /\ accepted \in Snapshot \cup {None} /\ due \in BOOLEAN
  /\ rendered \in [key : Nat \X Nat, cell : Cell]
  /\ observed \in [key : Nat \X Nat, revision : Nat, cell : Cell]
  /\ view \in View /\ (view.run = None <=> view.left = <<>>)
  /\ reduced \in BOOLEAN /\ rare \in Nat

Unrendered == [key |-> Key(NoGame), cell |-> 0]
Unobserved == [key |-> Key(NoGame), revision |-> 0, cell |-> 0]
StillView  == [cell |-> 0, queue |-> <<>>, run |-> None, left |-> <<>>, seen |-> {}]
Init ==
  /\ game = NoGame /\ games = 0 /\ layout = 0 /\ unsent = {}
  /\ token = 1 /\ retired = {} /\ address = 1 /\ socket = "off" /\ answer = None
  /\ accepted = None /\ due = FALSE /\ rendered = Unrendered /\ observed = Unobserved
  /\ view = StillView /\ reduced = FALSE /\ rare = 0

Rarely == rare < MaxRare /\ rare' = rare + 1

---------------------------------------------------------------------------
(* The game.                                                               *)
Elsewhere == UNCHANGED <<layout, unsent, token, retired, page, link>>
StartGame ==
  /\ game = NoGame /\ games' = games + 1
  /\ game' = [NoGame EXCEPT !.id = games + 1, !.epoch = 1]
  /\ Elsewhere /\ UNCHANGED rare
EndGame == Rarely /\ game # NoGame /\ game' = NoGame /\ Elsewhere /\ UNCHANGED games

Last(s, n) == IF Len(s) > n THEN SubSeq(s, Len(s) - n + 1, Len(s)) ELSE s
Movement(dice, path) ==
  [revision |-> game.revision + 1, dice |-> dice, from |-> game.cell, path |-> path]
Changes(epoch, cell, commands) ==
  /\ game # NoGame /\ game.revision < MaxRevision
  /\ game' = [game EXCEPT !.revision = @ + 1, !.epoch = epoch, !.cell = cell, !.commands = commands]
  /\ Elsewhere /\ UNCHANGED games

Turn(command) ==
  Changes(game.epoch, To(command), Last(Append(game.commands, command), CommandLimit)) /\ UNCHANGED rare

(* A roll in either direction, with the rolls and journeys of its effects; *)
(* under a lock it leaves the pawn.                                        *)
Rolled == {path \in Path : \A i \in DOMAIN path :
                              path[i] # (IF i = 1 THEN game.cell ELSE path[i - 1])}
Roll(path) == Turn(Movement(TRUE, path))

(* A turn for which a journey was reserved: the pawn waits, or travels.    *)
Wait      == Turn(Movement(FALSE, <<>>))
Travel(c) == Turn(Movement(FALSE, <<c>>))

(* A new presentation: a correction of the position, a destination that is *)
(* chosen, perhaps with its journey, or cancelled.                         *)
Invalidate(c) == Rarely /\ Changes(game.epoch + 1, c, <<>>)
Depart(c)     == Rarely /\ Changes(game.epoch + 1, c, <<Movement(FALSE, <<c>>)>>)

(* A change that does not concern the pawn.                                *)
Adjust == Changes(game.epoch, game.cell, game.commands) /\ UNCHANGED rare

---------------------------------------------------------------------------
(* Layouts and addresses.                                                  *)
ChangeLayout ==
  /\ Rarely /\ layout' = layout + 1 /\ unsent' = unsent \cup {layout'}
  /\ UNCHANGED <<game, games, token, retired, page, link>>

Rotate ==
  /\ Rarely /\ token' = token + 1 /\ retired' = retired \cup {token}
  /\ UNCHANGED <<game, games, layout, unsent, page, link>>

(* After the commit: the sockets that are registered by then.              *)
DisconnectToken(t) ==
  /\ t \in retired /\ retired' = retired \ {t}
  /\ socket' = IF socket = "registered" /\ address = t THEN "off" ELSE socket
  /\ UNCHANGED <<game, games, layout, unsent, token, address, answer, page, rare>>

RevalidateNothing == FALSE /\ UNCHANGED vars

Revalidate ==
  /\ socket = "registered" /\ address # token /\ socket' = "off"
  /\ UNCHANGED <<server, address, answer, page, rare>>

(* The handshake looks the token up before the socket is registered.       *)
Connect ==
  /\ socket = "off" /\ address = token /\ socket' = "authenticated"
  /\ UNCHANGED <<server, address, answer, page, rare>>
Register ==
  /\ socket = "authenticated" /\ socket' = "registered"
  /\ UNCHANGED <<server, address, answer, page, rare>>
Drop ==
  /\ Rarely /\ socket # "off" /\ socket' = "off"
  /\ UNCHANGED <<server, address, answer, page>>

---------------------------------------------------------------------------
(* What the page accepts.                                                  *)
NewerRevisions(g, c) == g.revision > c.revision \/ g.epoch > c.epoch

Newer(g, c) ==
  \/ g = NoGame \/ c = NoGame
  \/ g.id > c.id
  \/ g.id = c.id /\ g.revision >= c.revision /\ g.epoch >= c.epoch

MergedAsPolled(s) == s

Merged(s) ==
  IF accepted # None /\ accepted.layout > s.layout THEN [s EXCEPT !.layout = accepted.layout]
  ELSE s

Poll ==
  /\ answer = None
  /\ answer' = IF address = token THEN [game |-> game, layout |-> layout] ELSE Denied
  /\ UNCHANGED <<server, address, socket, page, rare>>

Accept ==
  /\ answer \notin {None, Denied} /\ answer' = None
  /\ IF accepted = None \/ Newer(answer.game, accepted.game)
     THEN accepted' = Merged(answer) /\ due' = TRUE
     ELSE UNCHANGED <<accepted, due>>
  /\ UNCHANGED <<server, address, socket, rendered, observed, view, reduced, rare>>

(* So would a board that cannot be displayed be answered; but no session   *)
(* begins on one or changes to one, and no board becomes one.              *)
AcceptDenial ==
  /\ answer = Denied /\ answer' = None
  /\ accepted' = None /\ due' = (due \/ accepted # None)
  /\ UNCHANGED <<server, address, socket, rendered, observed, view, reduced, rare>>
LosePoll ==
  /\ Rarely /\ answer # None /\ answer' = None
  /\ UNCHANGED <<server, address, socket, page>>

(* A layout's event reaches the page in any order, or nobody: sockets of   *)
(* another process, or not registered, get none.                           *)
LayoutUpdated(v) ==
  /\ v \in unsent /\ unsent' = unsent \ {v}
  /\ \/ /\ socket = "registered" /\ accepted # None /\ accepted.layout < v
        /\ accepted' = [accepted EXCEPT !.layout = v] /\ due' = TRUE
     \/ UNCHANGED <<accepted, due>>
  /\ UNCHANGED <<game, games, layout, token, retired, link, rendered, observed, view, reduced, rare>>

(* The page is opened with an address, which a rotation replaces.          *)
Open ==
  /\ address # token /\ address' = token /\ socket' = "off" /\ answer' = None
  /\ accepted' = None /\ due' = FALSE /\ rendered' = Unrendered
  /\ observed' = Unobserved /\ view' = StillView
  /\ UNCHANGED <<server, reduced, rare>>

---------------------------------------------------------------------------
(* The animation: what changes its record V.                               *)
CancelKeepingTimers(V, c) == [V EXCEPT !.cell = c, !.queue = <<>>]

Cancel(V, c) == [V EXCEPT !.cell = c, !.queue = <<>>, !.run = None, !.left = <<>>]

At(event, c) == [event |-> event, cell |-> c]
Steps(c) ==
  IF ~c.dice THEN <<At("cell", To(c))>>
  ELSE IF Len(c.path) > LongPath THEN <<>>
  ELSE [i \in DOMAIN c.path |-> At("cell", c.path[i])]
Timeline(c) == Steps(c) \o <<At("landing", To(c)), At("idle", To(c))>>

(* startNext: commands that show nothing, or any with reduced motion, are  *)
(* passed at once.                                                         *)
Instant(c) == reduced \/ (~c.dice /\ c.path = <<>>)
StartNext(V, key) ==
  LET slow == {i \in DOMAIN V.queue : ~Instant(V.queue[i])}
      i == CHOOSE j \in slow : \A k \in slow : j <= k
  IN IF slow = {}
     THEN [V EXCEPT !.run = None, !.left = <<>>, !.queue = <<>>,
                    !.cell = IF V.queue = <<>> THEN @ ELSE To(V.queue[Len(V.queue)])]
     ELSE [V EXCEPT !.run = [key |-> key, command |-> V.queue[i]],
                    !.left = Timeline(V.queue[i]),
                    !.queue = SubSeq(V.queue, i + 1, Len(V.queue)),
                    !.cell = V.queue[i].from]

Play(V, commands, key) ==
  LET new == Select(commands, {i \in DOMAIN commands : commands[i].revision \notin V.seen})
      Q == [V EXCEPT !.queue = @ \o new,
                     !.seen = @ \cup {new[i].revision : i \in DOMAIN new}]
  IN IF Q.run = None THEN StartNext(Q, key) ELSE Q

(* A timer of the run fires.                                               *)
Tick ==
  /\ view.left # <<>>
  /\ LET at == Head(view.left)
         V == [view EXCEPT !.left = Tail(@)]
     IN view' = IF at.event = "idle" THEN StartNext([V EXCEPT !.run = None], view.run.key)
                ELSE [V EXCEPT !.cell = at.cell]
  /\ UNCHANGED <<server, link, accepted, due, rendered, observed, reduced, rare>>

---------------------------------------------------------------------------
(* The effects of a render.                                                *)
Shown == IF accepted = None THEN NoGame ELSE accepted.game

(* The hook: a new presentation cancels what is animated; without one the  *)
(* pawn that rests is put where the game has it.                           *)
NewSession      == rendered.key[1] # Shown.id
NewPresentation == rendered.key # Key(Shown)
Synced ==
  IF NewPresentation THEN [Cancel(view, Shown.cell) EXCEPT !.seen = {}]
  ELSE IF /\ rendered.cell # Shown.cell /\ view.run = None /\ view.queue = <<>>
          /\ view.cell # Shown.cell
  THEN Cancel(view, Shown.cell) ELSE view

(* The page: commands it has not observed are played when each begins where*)
(* the one before it ended, else the pawn is put where the game has it.    *)
Unseen ==
  Select(Shown.commands,
         {i \in DOMAIN Shown.commands : Shown.commands[i].revision > observed.revision})
Unchained(new) == TRUE

Chained(new) ==
  \A i \in DOMAIN new : new[i].from = IF i = 1 THEN observed.cell ELSE To(new[i - 1])
LastRevision ==
  IF Shown.commands = <<>> THEN Shown.revision
  ELSE Shown.commands[Len(Shown.commands)].revision
Observed(revision, c) == [key |-> Key(Shown), revision |-> revision, cell |-> c]

Effects ==
  /\ due /\ due' = FALSE
  /\ rendered' = [key |-> Key(Shown), cell |-> Shown.cell]
  /\ \E new \in {Unseen}, V \in {Synced} :  \* bound: TLC evaluates each once
       IF Shown = NoGame
       THEN observed' = Unobserved /\ view' = V
       ELSE IF observed.key # Key(Shown)
       THEN observed' = Observed(LastRevision, Shown.cell) /\ view' = V
       ELSE IF ~Chained(new)
       THEN observed' = Observed(LastRevision, Shown.cell) /\ view' = Cancel(V, Shown.cell)
       ELSE IF new = <<>>
       THEN UNCHANGED observed /\ view' = V
       ELSE /\ observed' = Observed(new[Len(new)].revision, To(new[Len(new)]))
            /\ view' = Play(V, new, Key(Shown))
  /\ UNCHANGED <<server, link, accepted, reduced, rare>>

ToggleReduced ==
  /\ Rarely /\ reduced' = ~reduced
  /\ view' = IF reduced' /\ view.left # <<>> THEN Cancel(view, rendered.cell) ELSE view
  /\ UNCHANGED <<server, link, accepted, due, rendered, observed>>

---------------------------------------------------------------------------
Games ==
  \/ StartGame \/ EndGame \/ Adjust \/ Wait
  \/ \E path \in Rolled : Roll(path)
  \/ \E c \in Cell : Travel(c) \/ Invalidate(c) \/ Depart(c)
Sockets == \/ Connect \/ Register \/ Drop \/ Revalidate
           \/ \E t \in retired : DisconnectToken(t)
Polls   == Poll \/ Accept \/ AcceptDenial

Next ==
  \/ Games \/ ChangeLayout \/ Rotate \/ Sockets \/ Open
  \/ Polls \/ LosePoll \/ (\E v \in unsent : LayoutUpdated(v))
  \/ Effects \/ Tick \/ ToggleReduced

(* The page polls, renders and animates, and sockets are validated again   *)
(* every 15 seconds.                                                       *)
Spec == /\ Init /\ [][Next]_vars
        /\ WF_vars(Polls) /\ WF_vars(Effects) /\ WF_vars(Tick) /\ WF_vars(Revalidate)
=============================================================================
