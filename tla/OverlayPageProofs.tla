-------------------------- MODULE OverlayPageProofs -------------------------
(***************************************************************************)
(* What a viewer of the broadcast sees, for any board, any number of games,*)
(* layouts and addresses, and any loss of answers and events.              *)
(*                                                                         *)
(* The argument: the commands of a game chain, the last of them ends at its*)
(* cell, and a game that comes later in the same presentation stands       *)
(* somewhere else only if it has a later command.  So what the page counts *)
(* as shown determines where the game it accepts next will have the pawn   *)
(* when it brings no command, and the animation, whatever it has queued,   *)
(* ends there.                                                             *)
(***************************************************************************)
EXTENDS OverlayPageProperties, TLAPS, WellFoundedInduction, SequenceTheorems

LastOf(s) == s[Len(s)]
Chain(s)  == \A i \in 2 .. Len(s) : s[i].from = To(s[i - 1])
Rising(s) == \A i \in 2 .. Len(s) : s[i - 1].revision < s[i].revision

(* The commands of a game chain and end where it has the pawn.             *)
Lawful(g) ==
  /\ g = NoGame \/ (g.id >= 1 /\ g.epoch >= 1)
  /\ Chain(g.commands) /\ Rising(g.commands)
  /\ g.commands # <<>> => /\ g.cell = To(LastOf(g.commands))
                          /\ LastOf(g.commands).revision <= g.revision

(* What a page counts as shown after it has shown all of g.                *)
Newest(g) == IF g.commands = <<>> THEN g.revision ELSE LastOf(g.commands).revision
Mark(g)   == [key |-> Key(g), revision |-> Newest(g), cell |-> g.cell]

(* The game g is not before what o counts as shown, and in the same        *)
(* presentation it has the pawn elsewhere only by a later command.         *)
Knows(o, g) ==
  g # NoGame =>
    /\ o.key[1] <= g.id
    /\ o.key[1] = g.id => o.key[2] <= g.epoch
    /\ o.key = Key(g) =>
         /\ o.revision <= g.revision
         /\ (\A i \in DOMAIN g.commands : g.commands[i].revision <= o.revision) =>
              g.cell = o.cell

(* The game of the answer that is under way.                               *)
Answered == IF answer \in {None, Denied} THEN NoGame ELSE answer.game

(* What the page has is not before what it counts as shown, an answer not  *)
(* before what it has, and the game not before the answer.                 *)
GamesLawful == Lawful(game) /\ Lawful(Answered) /\ Lawful(Shown)
GamesNumbered ==
  /\ game.id <= games /\ observed.key[1] <= games
  /\ Answered.id <= games /\ Shown.id <= games
GamesOrdered ==
  /\ Knows(observed, game) /\ Knows(observed, Answered) /\ Knows(observed, Shown)
  /\ Knows(Mark(Shown), game) /\ Knows(Mark(Shown), Answered)
  /\ Knows(Mark(Answered), game)

(* What was rendered last is what the page counts as shown; without a      *)
(* render to come it is what it has accepted.                              *)
RenderedObserved ==
  /\ rendered = [key |-> observed.key, cell |-> observed.cell]
  /\ observed.key = <<0, 0>> => observed = Unobserved
RenderedShown    == ~due => rendered = [key |-> Key(Shown), cell |-> Shown.cell]

(* The animation V is a chain of commands that ends at cell c, and only a  *)
(* run keeps a queue.                                                      *)
Ends(V) == IF V.queue # <<>> THEN To(LastOf(V.queue))
           ELSE IF V.run # None THEN To(V.run.command) ELSE V.cell
Linked(V) ==
  /\ V.run = None => V.queue = <<>>
  /\ Chain(V.queue)
  /\ V.queue # <<>> => V.queue[1].from = To(V.run.command)

(* Of the timers of a run the last one, and only it, ends the run, with the*)
(* pawn where its command ends.                                            *)
Lands(V) ==
  V.run # None =>
    /\ \A i \in DOMAIN V.left : (V.left[i].event = "idle") <=> (i = Len(V.left))
    /\ IF Len(V.left) = 1 THEN V.cell = To(V.run.command)
       ELSE V.left[Len(V.left) - 1].cell = To(V.run.command)

(* The animation V belongs to the presentation of o, and ends at its cell. *)
Current(V, o) ==
  /\ Ends(V) = o.cell
  /\ V.run # None => V.run.key = o.key
  /\ \A r \in V.seen : r <= o.revision
ViewTyped(V) == V \in View /\ (V.run = None <=> V.left = <<>>)
ViewTrue(V, o) == ViewTyped(V) /\ Linked(V) /\ Lands(V) /\ Current(V, o)

PageInv ==
  /\ PageTypeOK /\ GamesLawful /\ GamesNumbered /\ GamesOrdered
  /\ RenderedObserved /\ RenderedShown
  /\ ViewTrue(view, observed) /\ (reduced => view.run = None)

(* ----------------------- Sequences and small facts ----------------------- *)
(* A set of numbers that is not empty has a least one.                     *)
LEMMA LeastOf ==
  ASSUME NEW S \in SUBSET Nat, S # {}
  PROVE  \E n \in S : \A y \in S : n <= y
<1>1. PICK n \in S : \A y \in S : ~ (<<y, n>> \in OpToRel(<, Nat))
  BY NatLessThanWellFounded, WFMin
<1>2. S \subseteq Nat /\ S # {}
  OBVIOUS
<1>3. \A y \in S : ~ (y < n)
  BY <1>1, <1>2 DEF OpToRel
<1>4. \A y \in S : n <= y
  BY <1>2, <1>3
<1>5. QED BY <1>1, <1>4

(* A set of numbers that has 0, and n + 1 with every n below the bound m,  *)
(* has all of 0 .. m.                                                      *)
LEMMA UpTo ==
  ASSUME NEW m \in Nat, NEW S, 0 \in S, \A n \in 0 .. m - 1 : n \in S => n + 1 \in S
  PROVE  0 .. m \subseteq S
<1> DEFINE Rest == {n \in 0 .. m : n \notin S}
<1>1. SUFFICES ASSUME Rest # {} PROVE FALSE
  OBVIOUS
<1>2. PICK n \in Rest : \A y \in Rest : n <= y
  <2>1. Rest \in SUBSET Nat
    OBVIOUS
  <2>2. QED BY <1>1, <2>1, LeastOf, Zenon
<1>3. n \in 0 .. m /\ n \notin S
  BY <1>2
<1>4. n - 1 \in 0 .. m - 1 /\ n = (n - 1) + 1
  BY <1>3
<1>5. n - 1 \notin Rest
  BY <1>2, <1>4
<1>6. n - 1 \in S
  BY <1>4, <1>5
<1>7. QED BY <1>3, <1>4, <1>6

(* The recursion of Select, up to m: the function f is what it defines.    *)
KeptAt(s, I, f, n) ==
  IF n = 0 THEN <<>> ELSE IF n \in I THEN Append(f[n - 1], s[n]) ELSE f[n - 1]
KeptTo(s, I, m, f) == f = [n \in 0 .. m |-> KeptAt(s, I, f, n)]

(* There is such a function, and Select is its last value.                 *)
LEMMA SelectDefined ==
  ASSUME NEW s, NEW I, Len(s) \in Nat
  PROVE  \E f : KeptTo(s, I, Len(s), f) /\ Select(s, I) = f[Len(s)]
<1> DEFINE S == {m \in 0 .. Len(s) : \E f : KeptTo(s, I, m, f)}
<1>1. 0 \in S
  <2>1. KeptTo(s, I, 0, [n \in 0 .. 0 |-> <<>>])
    BY DEF KeptTo, KeptAt
  <2>2. QED BY <2>1
<1>2. ASSUME NEW m \in 0 .. Len(s) - 1, m \in S PROVE m + 1 \in S
  <2>1. PICK f : KeptTo(s, I, m, f)
    BY <1>2
  <2> DEFINE g == [n \in 0 .. m + 1 |-> IF n = m + 1 THEN KeptAt(s, I, f, m + 1) ELSE f[n]]
  <2>2. /\ m \in Nat /\ \A n \in 0 .. m : n # m + 1 /\ n \in 0 .. m + 1
        /\ \A n \in 0 .. m + 1 : n = 0 \/ n - 1 \in 0 .. m
        /\ m + 1 \in 0 .. m + 1
        /\ \A n \in 0 .. m + 1 : n = m + 1 \/ n \in 0 .. m
    OBVIOUS
  <2>3. \A n \in 0 .. m : f[n] = KeptAt(s, I, f, n)
    BY <2>1 DEF KeptTo
  <2>4. g = [n \in 0 .. m + 1 |-> g[n]]
    OBVIOUS
  <2>5. \A n \in 0 .. m : g[n] = f[n]
    BY <2>2
  <2>6. g[m + 1] = KeptAt(s, I, f, m + 1)
    BY <2>2
  <2> HIDE DEF g
  <2>7. \A n \in 0 .. m + 1 : KeptAt(s, I, g, n) = KeptAt(s, I, f, n)
    BY <2>2, <2>5 DEF KeptAt
  <2>8. \A n \in 0 .. m + 1 : g[n] = KeptAt(s, I, g, n)
    BY <2>2, <2>3, <2>5, <2>6, <2>7
  <2>9. KeptTo(s, I, m + 1, g)
    BY <2>4, <2>8 DEF KeptTo
  <2>10. m + 1 \in 0 .. Len(s)
    BY <1>2
  <2>11. QED BY <2>9, <2>10
<1>3. Len(s) \in S
  <2> HIDE DEF S
  <2>1. \A n \in 0 .. Len(s) - 1 : n \in S => n + 1 \in S
    BY <1>2
  <2>2. 0 .. Len(s) \subseteq S
    BY <1>1, <2>1, UpTo
  <2>3. QED BY <2>2
<1>4. PICK f : KeptTo(s, I, Len(s), f)
  BY <1>3
<1>5. Select(s, I) = (CHOOSE f_1 : KeptTo(s, I, Len(s), f_1))[Len(s)]
  BY DEF Select, KeptTo, KeptAt
<1>6. KeptTo(s, I, Len(s), CHOOSE f_1 : KeptTo(s, I, Len(s), f_1))
  BY <1>4
<1>7. QED BY <1>5, <1>6

(* What has been kept of the first n: elements at indices in I, none only  *)
(* if there is none in I, and all of them if all are in I.                 *)
Keeps(s, I, n, r) ==
  /\ r \in Seq(Command)
  /\ \A i \in DOMAIN r : \E j \in I : r[i] = s[j]
  /\ r = <<>> <=> \A j \in I : j > n
  /\ 1 .. n \subseteq I => Len(r) = n /\ \A i \in 1 .. n : r[i] = s[i]

(* Select keeps the elements at indices in I, in their order: none if      *)
(* there is no index, the last if its index is there, all of them if all   *)
(* indices are.                                                            *)
LEMMA SelectFacts ==
  ASSUME NEW s \in Seq(Command), NEW I \in SUBSET (DOMAIN s)
  PROVE  /\ Select(s, I) \in Seq(Command)
         /\ \A i \in DOMAIN Select(s, I) : \E j \in I : Select(s, I)[i] = s[j]
         /\ Select(s, I) = <<>> <=> I = {}
         /\ Len(s) \in I => LastOf(Select(s, I)) = LastOf(s)
         /\ I = DOMAIN s => Select(s, I) = s
<1>1. Len(s) \in Nat /\ DOMAIN s = 1 .. Len(s)
  OBVIOUS
<1>2. PICK f : KeptTo(s, I, Len(s), f) /\ Select(s, I) = f[Len(s)]
  BY <1>1, SelectDefined
<1>3. \A n \in 0 .. Len(s) : f[n] = KeptAt(s, I, f, n)
  BY <1>2 DEF KeptTo
<1> DEFINE S == {n \in 0 .. Len(s) : Keeps(s, I, n, f[n])}
<1>4. 0 \in S
  <2>1. f[0] = <<>>
    BY <1>1, <1>3 DEF KeptAt
  <2>2. \A j \in I : j > 0
    BY <1>1
  <2>3. Keeps(s, I, 0, <<>>)
    BY <2>2 DEF Keeps
  <2>4. QED BY <1>1, <2>1, <2>3
<1>5. ASSUME NEW n \in 0 .. Len(s) - 1, n \in S PROVE n + 1 \in S
  <2>1. /\ n + 1 \in 0 .. Len(s) /\ n + 1 # 0 /\ (n + 1) - 1 = n /\ n \in Nat
        /\ n + 1 \in DOMAIN s
    BY <1>1
  <2>2. Keeps(s, I, n, f[n])
    BY <1>5
  <2>3. f[n + 1] = IF n + 1 \in I THEN Append(f[n], s[n + 1]) ELSE f[n]
    BY <1>3, <2>1 DEF KeptAt
  <2>4. PICK r : r = f[n]
    OBVIOUS
  <2>5. r \in Seq(Command) /\ Len(r) \in Nat /\ DOMAIN r = 1 .. Len(r)
    BY <2>2, <2>4 DEF Keeps
  <2>6. CASE n + 1 \in I
    <3>1. PICK q : q = Append(r, s[n + 1])
      OBVIOUS
    <3>2. s[n + 1] \in Command
      BY <2>1
    <3>3. /\ q \in Seq(Command) /\ Len(q) = Len(r) + 1 /\ q # <<>>
          /\ DOMAIN q = 1 .. Len(r) + 1
          /\ q[Len(r) + 1] = s[n + 1] /\ \A i \in 1 .. Len(r) : q[i] = r[i]
      BY <2>5, <3>1, <3>2
    <3>4. \A i \in DOMAIN q : \E j \in I : q[i] = s[j]
      <4>1. \A i \in DOMAIN q : i = Len(r) + 1 \/ i \in 1 .. Len(r)
        BY <2>5, <3>3
      <4>2. \A i \in 1 .. Len(r) : \E j \in I : r[i] = s[j]
        BY <2>2, <2>4, <2>5 DEF Keeps
      <4>3. QED BY <2>6, <3>3, <4>1, <4>2
    <3>5. ~ \A j \in I : j > n + 1
      BY <2>1, <2>6
    <3>6. ASSUME 1 .. n + 1 \subseteq I
          PROVE  Len(q) = n + 1 /\ \A i \in 1 .. n + 1 : q[i] = s[i]
      <4>1. 1 .. n \subseteq I
        BY <2>1, <3>6
      <4>2. Len(r) = n /\ \A i \in 1 .. n : r[i] = s[i]
        BY <2>2, <2>4, <4>1 DEF Keeps
      <4>3. \A i \in 1 .. n + 1 : i = n + 1 \/ i \in 1 .. n
        BY <2>1
      <4>4. QED BY <3>3, <4>2, <4>3
    <3>7. Keeps(s, I, n + 1, q)
      BY <3>3, <3>4, <3>5, <3>6 DEF Keeps
    <3>8. QED BY <2>1, <2>3, <2>4, <2>6, <3>1, <3>7
  <2>7. CASE n + 1 \notin I
    <3>1. (\A j \in I : j > n) <=> (\A j \in I : j > n + 1)
      BY <1>1, <2>1, <2>7
    <3>2. ~ 1 .. n + 1 \subseteq I
      BY <2>1, <2>7
    <3>3. Keeps(s, I, n + 1, f[n])
      BY <2>2, <3>1, <3>2 DEF Keeps
    <3>4. QED BY <2>1, <2>3, <2>7, <3>3
  <2>8. QED BY <2>6, <2>7
<1>6. \A n \in 0 .. Len(s) : Keeps(s, I, n, f[n])
  <2> HIDE DEF S
  <2>1. \A n \in 0 .. Len(s) - 1 : n \in S => n + 1 \in S
    BY <1>5
  <2>2. 0 .. Len(s) \subseteq S
    BY <1>1, <1>4, <2>1, UpTo
  <2>3. QED BY <2>2 DEF S
<1>7. PICK r : r = Select(s, I)
  OBVIOUS
<1>8. Keeps(s, I, Len(s), r)
  BY <1>1, <1>2, <1>6, <1>7
<1>9. r \in Seq(Command) /\ \A i \in DOMAIN r : \E j \in I : r[i] = s[j]
  BY <1>8 DEF Keeps
<1>10. r = <<>> <=> I = {}
  BY <1>1, <1>8 DEF Keeps
<1>11. I = DOMAIN s => r = s
  <2>1. SUFFICES ASSUME I = DOMAIN s PROVE r = s
    OBVIOUS
  <2>2. Len(r) = Len(s) /\ \A i \in 1 .. Len(s) : r[i] = s[i]
    BY <1>1, <1>8, <2>1 DEF Keeps
  <2>3. QED BY <1>1, <1>9, <2>2
<1>12. ASSUME Len(s) \in I PROVE LastOf(r) = LastOf(s)
  <2>1. Len(s) # 0 /\ Len(s) - 1 \in 0 .. Len(s)
    BY <1>1, <1>12
  <2>2. f[Len(s)] = Append(f[Len(s) - 1], s[Len(s)])
    <3>1. f[Len(s)] = KeptAt(s, I, f, Len(s))
      BY <1>1, <1>3
    <3>2. QED BY <1>12, <2>1, <3>1 DEF KeptAt
  <2>3. f[Len(s) - 1] \in Seq(Command) /\ s[Len(s)] \in Command
    BY <1>1, <1>6, <1>12, <2>1 DEF Keeps
  <2>4. QED BY <1>2, <1>7, <2>2, <2>3 DEF LastOf
<1>13. QED BY <1>7, <1>9, <1>10, <1>11, <1>12

(* A path is a sequence of cells, and a command ends at a cell.            *)
LEMMA PathSeq ==
  ASSUME NEW p \in Path
  PROVE  p \in Seq(Cell) /\ Len(p) \in Nat /\ DOMAIN p = 1 .. Len(p)
<1>1. PICK n \in 0 .. MaxDice : p \in [1 .. n -> Cell]
  BY DEF Path
<1>2. n \in Nat
  BY <1>1, PageAssumption
<1>3. QED BY <1>1, <1>2

(* The fields of a command have their types.                               *)
LEMMA ToType ==
  ASSUME NEW c \in Command
  PROVE  To(c) \in Cell /\ c.from \in Cell /\ c.revision \in Nat /\ c.path \in Seq(Cell)
<1>1. c.path \in Path /\ c.from \in Cell /\ c.revision \in Nat
  BY DEF Command
<1>2. c.path \in Seq(Cell)
  BY <1>1, PathSeq
<1>3. To(c) \in Cell
  BY <1>1, <1>2 DEF To
<1>4. QED BY <1>1, <1>2, <1>3

(* -------------------------- The game's history --------------------------- *)
Marks == [key : Nat \X Nat, revision : Nat, cell : Cell]

(* The fields of a game have theirs.                                       *)
LEMMA GameType ==
  ASSUME NEW g \in Game
  PROVE  /\ g.id \in Nat /\ g.epoch \in Nat /\ g.revision \in Nat /\ g.cell \in Cell
         /\ g.commands \in Seq(Command) /\ Len(g.commands) \in Nat
         /\ DOMAIN g.commands = 1 .. Len(g.commands)
         /\ Key(g) = <<g.id, g.epoch>> /\ Key(g) \in Nat \X Nat
         /\ \A i \in DOMAIN g.commands : g.commands[i] \in Command /\ g.commands[i].revision \in Nat
<1>1. g.id \in Nat /\ g.epoch \in Nat /\ g.revision \in Nat /\ g.cell \in Cell
      /\ g.commands \in Seq(Command)
  BY DEF Game
<1>2. \A i \in DOMAIN g.commands : g.commands[i] \in Command
  BY <1>1
<1>3. \A i \in DOMAIN g.commands : g.commands[i].revision \in Nat
  BY <1>2, ToType
<1>4. QED BY <1>1, <1>2, <1>3 DEF Key

(* No game is a lawful game, of no presentation.                           *)
LEMMA NoGameType == NoGame \in Game /\ Lawful(NoGame) /\ Key(NoGame) = <<0, 0>>
<1>1. 0 \in Cell
  BY PageAssumption DEF Cell
<1>2. NoGame \in Game /\ NoGame.commands = <<>> /\ NoGame.id = 0 /\ NoGame.epoch = 0
  BY <1>1 DEF Game, NoGame
<1>3. Chain(<<>>) /\ Rising(<<>>)
  BY DEF Chain, Rising
<1>4. QED BY <1>2, <1>3 DEF Lawful, Key

(* A mark of a game names its presentation, its newest command and its     *)
(* cell.                                                                   *)
LEMMA MarkType ==
  ASSUME NEW g \in Game
  PROVE  Mark(g) \in Marks /\ Mark(g).key = Key(g) /\ Mark(g).cell = g.cell
         /\ Mark(g).revision = Newest(g)
<1>1. Newest(g) \in Nat
  <2>1. CASE g.commands = <<>>
    BY <2>1, GameType DEF Newest
  <2>2. CASE g.commands # <<>>
    <3>1. Len(g.commands) \in DOMAIN g.commands
      BY <2>2, GameType
    <3>2. QED BY <2>2, <3>1, GameType DEF Newest, LastOf
  <2>3. QED BY <2>1, <2>2
<1>2. QED BY <1>1, GameType DEF Mark, Marks

(* The last n of a sequence of commands keep its order, and its last.      *)
LEMMA LastFacts ==
  ASSUME NEW s \in Seq(Command), s # <<>>, NEW n \in Nat \ {0}
  PROVE  \E k \in Nat : /\ Last(s, n) \in Seq(Command)
                        /\ k < Len(s) /\ Len(Last(s, n)) = Len(s) - k
                        /\ \A i \in 1 .. Len(s) - k : Last(s, n)[i] = s[i + k]
<1>1. Len(s) \in Nat /\ Len(s) # 0
  OBVIOUS
<1>2. CASE Len(s) > n
  <2>1. Last(s, n) = SubSeq(s, Len(s) - n + 1, Len(s))
    BY <1>2 DEF Last
  <2>2. Len(s) - n + 1 \in 1 .. Len(s)
    BY <1>1, <1>2
  <2>3. PICK a \in 1 .. Len(s) : a = Len(s) - n + 1
    BY <2>2
  <2>4. PICK q : q = SubSeq(s, a, Len(s))
    OBVIOUS
  <2>5. /\ q \in Seq(Command) /\ Len(q) = Len(s) - a + 1
        /\ \A i \in 1 .. Len(s) - a + 1 : q[i] = s[a + i - 1]
    BY <1>1, <2>3, <2>4
  <2>6. /\ a - 1 \in Nat /\ a - 1 < Len(s) /\ Len(s) - a + 1 = Len(s) - (a - 1)
        /\ \A i \in 1 .. Len(s) - a + 1 : a + i - 1 = i + (a - 1)
    BY <1>1, <2>3
  <2>7. QED BY <2>1, <2>3, <2>4, <2>5, <2>6
<1>3. CASE ~ (Len(s) > n)
  <2>1. Last(s, n) = s
    BY <1>3 DEF Last
  <2>2. \A i \in 1 .. Len(s) - 0 : s[i] = s[i + 0]
    OBVIOUS
  <2>3. QED BY <1>1, <2>1, <2>2
<1>4. QED BY <1>2, <1>3

(* The commands after one more: it is the last, and they still chain.      *)
LEMMA OneMore ==
  ASSUME NEW s \in Seq(Command), Chain(s), Rising(s), NEW c \in Command,
         s # <<>> => c.from = To(LastOf(s)) /\ LastOf(s).revision < c.revision,
         NEW n \in Nat \ {0}, NEW q, q = Last(Append(s, c), n)
  PROVE  /\ q \in Seq(Command) /\ q # <<>> /\ LastOf(q) = c
         /\ Chain(q) /\ Rising(q) /\ Len(q) \in DOMAIN q
<1>1. PICK t : t = Append(s, c)
  OBVIOUS
<1>2. /\ t \in Seq(Command) /\ Len(t) = Len(s) + 1 /\ t[Len(s) + 1] = c /\ t # <<>>
      /\ \A i \in 1 .. Len(s) : t[i] = s[i]
      /\ Len(s) \in Nat
  BY <1>1
<1>3. \A i \in 2 .. Len(t) : /\ t[i].from = To(t[i - 1])
                             /\ t[i - 1].revision < t[i].revision
  <2> TAKE i \in 2 .. Len(t)
  <2>1. CASE i = Len(t)
    <3>1. s # <<>> /\ i - 1 = Len(s) /\ i - 1 \in 1 .. Len(s)
      BY <1>2, <2>1
    <3>2. t[i - 1] = LastOf(s) /\ t[i] = c
      BY <1>2, <2>1, <3>1 DEF LastOf
    <3>3. QED BY <3>1, <3>2
  <2>2. CASE i # Len(t)
    <3>1. i \in 2 .. Len(s) /\ i \in 1 .. Len(s) /\ i - 1 \in 1 .. Len(s)
      BY <1>2, <2>2
    <3>2. t[i] = s[i] /\ t[i - 1] = s[i - 1]
      BY <1>2, <3>1
    <3>3. QED BY <3>1, <3>2 DEF Chain, Rising
  <2>3. QED BY <2>1, <2>2
<1>4. PICK k \in Nat : /\ q \in Seq(Command)
                       /\ k < Len(t) /\ Len(q) = Len(t) - k
                       /\ \A i \in 1 .. Len(t) - k : q[i] = t[i + k]
  <2>1. q = Last(t, n)
    BY <1>1
  <2>2. PICK k \in Nat : /\ Last(t, n) \in Seq(Command)
                         /\ k < Len(t) /\ Len(Last(t, n)) = Len(t) - k
                         /\ \A i \in 1 .. Len(t) - k : Last(t, n)[i] = t[i + k]
    <3>1. t \in Seq(Command) /\ t # <<>>
      BY <1>2
    <3>2. QED BY <3>1, LastFacts, Zenon
  <2>3. QED BY <2>1, <2>2
<1>5. PICK m \in Nat : m = Len(t)
  BY <1>2
<1>5a. PICK l \in Nat : l = Len(q)
  <2>1. q \in Seq(Command)
    BY <1>4
  <2>2. Len(q) \in Nat
    BY <2>1
  <2>3. QED BY <2>2
<1>5b. /\ k < m /\ l = m - k /\ l \in 1 .. m /\ l + k = m
       /\ DOMAIN q = 1 .. l /\ \A i \in 1 .. l : q[i] = t[i + k]
  BY <1>4, <1>5, <1>5a
<1>6. q # <<>> /\ Len(q) \in DOMAIN q /\ LastOf(q) = c
  <2>1. q[Len(q)] = t[Len(q) + k]
    BY <1>5a, <1>5b
  <2>2. QED BY <1>2, <1>4, <1>5, <1>5a, <1>5b, <2>1 DEF LastOf
<1>7. \A i \in 2 .. Len(q) : q[i] = t[i + k] /\ q[i - 1] = t[(i + k) - 1]
                             /\ i + k \in 2 .. Len(t)
  <2> TAKE i \in 2 .. Len(q)
  <2>1. i \in 2 .. l
    BY <1>5a
  <2>2. /\ i \in 1 .. l /\ i - 1 \in 1 .. l
        /\ (i - 1) + k = (i + k) - 1 /\ i + k \in 2 .. m
    BY <1>5b, <2>1
  <2>3. QED BY <1>5, <1>5b, <2>2
<1>8. Chain(q) /\ Rising(q)
  BY <1>3, <1>7 DEF Chain, Rising
<1>9. QED BY <1>4, <1>6, <1>8

(* A step of the game keeps it lawful, and no mark falls behind.           *)
GameMoves ==
  /\ games' \in Nat /\ games <= games' /\ game' \in Game /\ Lawful(game') /\ game'.id <= games'
  /\ \A o \in Marks : o.key[1] <= games /\ Knows(o, game) => Knows(o, game')

(* What a change of the game leaves of it.                                 *)
LEMMA ChangesFacts ==
  ASSUME game \in Game, NEW epoch \in Nat, NEW cell \in Cell, NEW commands \in Seq(Command),
         Changes(epoch, cell, commands)
  PROVE  /\ game' \in Game /\ game # NoGame /\ games' = games
         /\ game'.id = game.id /\ game'.epoch = epoch /\ game'.revision = game.revision + 1
         /\ game'.cell = cell /\ game'.commands = commands
<1>1. game = [id |-> game.id, epoch |-> game.epoch, revision |-> game.revision,
              cell |-> game.cell, commands |-> game.commands]
  BY DEF Game
<1>2. game' = [id |-> game.id, epoch |-> epoch, revision |-> game.revision + 1,
               cell |-> cell, commands |-> commands]
  BY <1>1 DEF Changes
<1>3. game.id \in Nat /\ game.revision + 1 \in Nat
  BY DEF Game
<1>4. game' \in Game
  BY <1>2, <1>3 DEF Game
<1>5. QED BY <1>2, <1>4 DEF Changes

(* A turn: its command is the newest, and no mark has it.                  *)
LEMMA TurnMoves ==
  ASSUME game \in Game, games \in Nat, Lawful(game), game.id <= games, NEW c \in Command,
         c.revision = game.revision + 1, c.from = game.cell, Turn(c)
  PROVE  GameMoves
<1>1. PICK q : q = Last(Append(game.commands, c), CommandLimit)
  OBVIOUS
<1>2. /\ q \in Seq(Command) /\ q # <<>> /\ LastOf(q) = c
      /\ Chain(q) /\ Rising(q) /\ Len(q) \in DOMAIN q
  <2>1. game.commands \in Seq(Command) /\ Chain(game.commands) /\ Rising(game.commands)
    BY GameType DEF Lawful
  <2>2. game.commands # <<>> =>
          c.from = To(LastOf(game.commands)) /\ LastOf(game.commands).revision < c.revision
    <3>1. SUFFICES ASSUME game.commands # <<>>
                   PROVE  LastOf(game.commands).revision < c.revision
      BY DEF Lawful
    <3>2. Len(game.commands) \in DOMAIN game.commands
      BY <3>1, GameType
    <3>3. LastOf(game.commands).revision \in Nat
      BY <3>2, GameType DEF LastOf
    <3>4. QED BY <3>1, <3>3, GameType DEF Lawful
  <2>3. CommandLimit \in Nat \ {0}
    BY PageAssumption
  <2>4. PICK t : t = game.commands
    OBVIOUS
  <2>5. /\ t \in Seq(Command) /\ Chain(t) /\ Rising(t) /\ q = Last(Append(t, c), CommandLimit)
        /\ t # <<>> => c.from = To(LastOf(t)) /\ LastOf(t).revision < c.revision
    BY <1>1, <2>1, <2>2, <2>4
  <2>6. QED BY <2>3, <2>5, OneMore
<1>3. Changes(game.epoch, To(c), q)
  BY <1>1 DEF Turn
<1>4. /\ game' \in Game /\ game # NoGame /\ games' = games
      /\ game'.id = game.id /\ game'.epoch = game.epoch /\ game'.revision = game.revision + 1
      /\ game'.cell = To(c) /\ game'.commands = q
  BY <1>2, <1>3, ToType, GameType, ChangesFacts
<1>5. game.id >= 1 /\ game.epoch >= 1
  BY <1>4 DEF Lawful
<1>6. Lawful(game')
  BY <1>2, <1>4, <1>5, GameType DEF Lawful
<1>7. ASSUME NEW o \in Marks, Knows(o, game) PROVE Knows(o, game')
  <2>1. Key(game') = Key(game)
    BY <1>4 DEF Key
  <2>2. o.key[1] <= game'.id /\ (o.key[1] = game'.id => o.key[2] <= game'.epoch)
    BY <1>4, <1>7 DEF Knows
  <2>3. ASSUME o.key = Key(game')
        PROVE  /\ o.revision <= game'.revision
               /\ ~ \A i \in DOMAIN game'.commands : game'.commands[i].revision <= o.revision
    <3>1. o.revision <= game.revision /\ o.revision \in Nat /\ game.revision \in Nat
      BY <1>4, <1>7, <2>1, <2>3, GameType DEF Knows, Marks
    <3>2. game'.commands[Len(q)].revision = game.revision + 1
      BY <1>2, <1>4 DEF LastOf
    <3>3. QED BY <1>2, <1>4, <3>1, <3>2
  <2>4. QED BY <2>2, <2>3 DEF Knows
<1>8. QED BY <1>4, <1>6, <1>7 DEF GameMoves

(* A new presentation, with no command or the one that begins it: no mark  *)
(* is of it yet.                                                           *)
LEMMA PresentationMoves ==
  ASSUME game \in Game, games \in Nat, Lawful(game), game.id <= games, NEW cell \in Cell,
         NEW commands \in Seq(Command), Changes(game.epoch + 1, cell, commands),
         \/ commands = <<>>
         \/ \E c \in Command : /\ commands = <<c>> /\ To(c) = cell
                               /\ c.revision = game.revision + 1
  PROVE  GameMoves
<1>1. /\ game' \in Game /\ game # NoGame /\ games' = games
      /\ game'.id = game.id /\ game'.epoch = game.epoch + 1
      /\ game'.revision = game.revision + 1
      /\ game'.cell = cell /\ game'.commands = commands
  <2>1. game.epoch + 1 \in Nat
    BY GameType
  <2>2. QED BY <2>1, ChangesFacts
<1>2. game.id >= 1 /\ game.epoch >= 1 /\ game.id \in Nat /\ game.epoch \in Nat
      /\ game.revision \in Nat
  BY <1>1, GameType DEF Lawful
<1>3. Chain(commands) /\ Rising(commands)
  <2>1. Len(commands) \in {0, 1}
    <3>1. CASE commands = <<>>
      BY <3>1
    <3>2. ASSUME NEW c \in Command, commands = <<c>> PROVE Len(commands) \in {0, 1}
      BY <3>2
    <3>3. (\E c \in Command : commands = <<c>>) \/ commands = <<>>
      OBVIOUS
    <3>4. QED BY <3>1, <3>2, <3>3
  <2>2. ASSUME NEW l \in {0, 1}, NEW i \in 2 .. l PROVE FALSE
    OBVIOUS
  <2>3. \A i \in 2 .. Len(commands) : FALSE
    BY <2>1, <2>2, Zenon
  <2>4. QED BY <2>3 DEF Chain, Rising
<1>4. commands # <<>> => cell = To(LastOf(commands))
                         /\ LastOf(commands).revision <= game.revision + 1
  BY <1>2 DEF LastOf
<1>5. Lawful(game')
  BY <1>1, <1>2, <1>3, <1>4 DEF Lawful
<1>6. ASSUME NEW o \in Marks, Knows(o, game) PROVE Knows(o, game')
  <2>1. o.key \in Nat \X Nat /\ Key(game') = <<game.id, game.epoch + 1>>
    BY <1>1 DEF Marks, Key
  <2>2. /\ o.key[1] \in Nat /\ o.key[2] \in Nat /\ o.key[1] <= game.id
        /\ o.key[1] = game.id => o.key[2] <= game.epoch
    BY <1>1, <1>6, <2>1 DEF Knows
  <2>3. o.key # Key(game')
    BY <1>2, <2>1, <2>2
  <2>4. QED BY <1>1, <1>2, <2>2, <2>3 DEF Knows
<1>7. QED BY <1>1, <1>5, <1>6 DEF GameMoves

(* A change that does not concern the pawn.                                *)
LEMMA AdjustMoves ==
  ASSUME game \in Game, games \in Nat, Lawful(game), game.id <= games, Adjust
  PROVE  GameMoves
<1>1. Changes(game.epoch, game.cell, game.commands)
  BY DEF Adjust
<1>2. /\ game' \in Game /\ game # NoGame /\ games' = games
      /\ game'.id = game.id /\ game'.epoch = game.epoch
      /\ game'.revision = game.revision + 1
      /\ game'.cell = game.cell /\ game'.commands = game.commands
  BY <1>1, GameType, ChangesFacts
<1>3. game.revision \in Nat /\ Key(game') = Key(game)
  BY <1>2, GameType DEF Key
<1>4. Lawful(game')
  <2>1. game.id >= 1 /\ game.epoch >= 1
    BY <1>2 DEF Lawful
  <2>2. game.commands # <<>> => LastOf(game.commands).revision <= game.revision + 1
    <3>1. SUFFICES ASSUME game.commands # <<>>
                   PROVE  LastOf(game.commands).revision <= game.revision + 1
      OBVIOUS
    <3>2. LastOf(game.commands).revision \in Nat
      BY <3>1, GameType DEF LastOf
    <3>3. QED BY <1>3, <3>1, <3>2 DEF Lawful
  <2>3. QED BY <1>2, <2>1, <2>2 DEF Lawful
<1>5. ASSUME NEW o \in Marks, Knows(o, game) PROVE Knows(o, game')
  <2>1. o.revision \in Nat
    BY DEF Marks
  <2>2. QED BY <1>2, <1>3, <1>5, <2>1 DEF Knows
<1>6. QED BY <1>2, <1>4, <1>5 DEF GameMoves

(* A new game has a number of its own.                                     *)
LEMMA StartMoves ==
  ASSUME games \in Nat, StartGame
  PROVE  GameMoves
<1>1. NoGame = [id |-> 0, epoch |-> 0, revision |-> 0, cell |-> 0, commands |-> <<>>]
  BY DEF NoGame
<1>2. game' = [id |-> games + 1, epoch |-> 1, revision |-> 0, cell |-> 0, commands |-> <<>>]
  BY <1>1 DEF StartGame
<1>3. games' = games + 1
  BY DEF StartGame
<1>4. 0 \in Cell /\ game' \in Game
  BY <1>2, PageAssumption DEF Game, Cell
<1>5. Lawful(game')
  <2>1. Chain(<<>>) /\ Rising(<<>>)
    BY DEF Chain, Rising
  <2>2. QED BY <1>2, <2>1 DEF Lawful
<1>6. ASSUME NEW o \in Marks, o.key[1] <= games PROVE Knows(o, game')
  <2>1. o.key \in Nat \X Nat /\ o.key[1] \in Nat /\ o.key # Key(game')
    BY <1>2, <1>6 DEF Marks, Key
  <2>2. o.key[1] # games + 1 /\ o.key[1] <= games + 1
    BY <1>6, <2>1
  <2>3. QED BY <1>2, <2>1, <2>2 DEF Knows
<1>7. QED BY <1>2, <1>3, <1>4, <1>5, <1>6 DEF GameMoves

(* A game that ends leaves no game, which no mark is ahead of.             *)
LEMMA EndMoves ==
  ASSUME games \in Nat, EndGame
  PROVE  GameMoves
<1>1. game' = NoGame /\ games' = games /\ NoGame.id = 0
  BY DEF EndGame, NoGame
<1>2. \A o \in Marks : Knows(o, game')
  BY <1>1 DEF Knows
<1>3. QED BY <1>1, <1>2, NoGameType DEF GameMoves

(* What a turn moves is a command that begins where the pawn stands.       *)
LEMMA MovementType ==
  ASSUME game \in Game, NEW dice \in BOOLEAN, NEW path \in Path
  PROVE  /\ Movement(dice, path) \in Command
         /\ Movement(dice, path).revision = game.revision + 1
         /\ Movement(dice, path).from = game.cell /\ Movement(dice, path).path = path
BY GameType DEF Movement, Command

(* The path of a turn that waits or travels is empty or one cell.          *)
LEMMA ShortPaths == <<>> \in Path /\ \A c \in Cell : <<c>> \in Path
<1>1. MaxDice \in Nat /\ 0 \in 0 .. MaxDice /\ 1 \in 0 .. MaxDice
  BY PageAssumption
<1>2. <<>> \in [1 .. 0 -> Cell]
  OBVIOUS
<1>3. \A c \in Cell : <<c>> \in [1 .. 1 -> Cell]
  OBVIOUS
<1>4. QED BY <1>1, <1>2, <1>3 DEF Path

(* Every step of the game.                                                 *)
LEMMA GamesMove ==
  ASSUME PageTypeOK, Lawful(game), game.id <= games, Games
  PROVE  GameMoves
<1>1. game \in Game /\ games \in Nat
  BY DEF PageTypeOK
<1>2. CASE StartGame
  BY <1>1, <1>2, StartMoves
<1>3. CASE EndGame
  BY <1>1, <1>3, EndMoves
<1>4. CASE Adjust
  BY <1>1, <1>4, AdjustMoves
<1>5. ASSUME NEW dice \in BOOLEAN, NEW path \in Path, Turn(Movement(dice, path))
      PROVE  GameMoves
  <2>1. PICK c : c = Movement(dice, path)
    OBVIOUS
  <2>2. c \in Command /\ c.revision = game.revision + 1 /\ c.from = game.cell /\ Turn(c)
    BY <1>1, <1>5, <2>1, MovementType
  <2>3. QED BY <1>1, <2>2, TurnMoves
<1>6. CASE Wait
  BY <1>5, <1>6, ShortPaths DEF Wait
<1>7. ASSUME NEW p \in Rolled, Roll(p) PROVE GameMoves
  <2>1. p \in Path /\ Turn(Movement(TRUE, p))
    BY <1>7 DEF Rolled, Roll
  <2>2. QED BY <1>5, <2>1
<1>8. ASSUME NEW c \in Cell, Travel(c) PROVE GameMoves
  BY <1>5, <1>8, ShortPaths DEF Travel
<1>9. ASSUME NEW c \in Cell, Invalidate(c) PROVE GameMoves
  <2>1. Changes(game.epoch + 1, c, <<>>) /\ <<>> \in Seq(Command)
    BY <1>9 DEF Invalidate
  <2>2. QED BY <1>1, <2>1, PresentationMoves
<1>10. ASSUME NEW c \in Cell, Depart(c) PROVE GameMoves
  <2>1. PICK m : m = Movement(FALSE, <<c>>)
    OBVIOUS
  <2>2. m \in Command /\ m.revision = game.revision + 1 /\ m.path = <<c>>
    BY <1>1, <2>1, MovementType, ShortPaths
  <2>3. To(m) = c
    BY <2>2 DEF To
  <2>4. PICK q : q = <<m>>
    OBVIOUS
  <2>5. Changes(game.epoch + 1, c, q)
    BY <1>10, <2>1, <2>4 DEF Depart
  <2>6. /\ q \in Seq(Command)
        /\ \E d \in Command : q = <<d>> /\ To(d) = c /\ d.revision = game.revision + 1
    BY <2>2, <2>3, <2>4
  <2>7. QED BY <1>1, <2>5, <2>6, PresentationMoves
<1>11. QED
  BY <1>2, <1>3, <1>4, <1>6, <1>7, <1>8, <1>9, <1>10 DEF Games

(* ------------------- The server, its sockets and answers ----------------- *)
(* The games the page has and is being sent are games, and marks are       *)
(* marks.                                                                  *)
LEMMA GamesHeld ==
  ASSUME PageTypeOK
  PROVE  /\ game \in Game /\ Shown \in Game /\ Answered \in Game /\ games \in Nat
         /\ observed \in Marks /\ Mark(Shown) \in Marks /\ Mark(Answered) \in Marks
         /\ accepted # None => accepted \in Snapshot /\ accepted.game \in Game /\ accepted.layout \in Nat
         /\ answer \notin {None, Denied} =>
              answer \in Snapshot /\ answer.game \in Game /\ answer.layout \in Nat
<1>1. game \in Game /\ games \in Nat /\ observed \in Marks
  BY DEF PageTypeOK, Marks
<1>2. accepted # None => accepted \in Snapshot /\ accepted.game \in Game /\ accepted.layout \in Nat
  BY DEF PageTypeOK, Snapshot
<1>3. answer \notin {None, Denied} =>
        answer \in Snapshot /\ answer.game \in Game /\ answer.layout \in Nat
  BY DEF PageTypeOK, Snapshot
<1>4. Shown \in Game /\ Answered \in Game
  BY <1>2, <1>3, NoGameType DEF Shown, Answered
<1>5. QED BY <1>1, <1>2, <1>3, <1>4, MarkType

(* What is only compared with game and the games so far.                   *)
LEMMA GamesKeep ==
  ASSUME PageInv, Games
  PROVE  PageInv'
<1>1. GameMoves
  BY GamesMove DEF PageInv, GamesLawful, GamesNumbered
<1>2. Elsewhere /\ (UNCHANGED rare \/ Rarely)
  BY DEF Games, StartGame, EndGame, Adjust, Wait, Roll, Travel, Invalidate, Depart, Turn, Changes
<1>3. /\ UNCHANGED <<layout, unsent, token, retired, address, socket, answer>>
      /\ UNCHANGED <<accepted, due, rendered, observed, view, reduced>>
  BY <1>2 DEF Elsewhere, page, link
<1>4. Shown' = Shown /\ Answered' = Answered
  BY <1>3 DEF Shown, Answered
<1>5. PageTypeOK'
  <2>1. rare' \in Nat
    BY <1>2 DEF Rarely, PageInv, PageTypeOK
  <2>2. game' \in Game /\ games' \in Nat
    BY <1>1 DEF GameMoves
  <2>3. QED BY <1>3, <2>1, <2>2 DEF PageInv, PageTypeOK
<1>6. GamesLawful'
  BY <1>1, <1>4 DEF GameMoves, GamesLawful, PageInv
<1>7. GamesNumbered'
  <2>1. observed.key[1] \in Nat /\ Answered.id \in Nat /\ Shown.id \in Nat
    BY GamesHeld, GameType DEF PageInv, Marks
  <2>2. games \in Nat /\ games' \in Nat /\ games <= games' /\ game'.id <= games'
    BY <1>1, GamesHeld DEF GameMoves, PageInv
  <2>3. QED BY <1>3, <1>4, <2>1, <2>2 DEF GamesNumbered, PageInv
<1>8. GamesOrdered'
  <2>1. ASSUME NEW o \in {observed, Mark(Shown), Mark(Answered)}
        PROVE  o \in Marks /\ o.key[1] <= games /\ Knows(o, game)
    <3>1. o \in Marks
      BY GamesHeld DEF PageInv
    <3>2. o.key[1] <= games
      BY GamesHeld, MarkType, GameType DEF PageInv, GamesNumbered
    <3>3. QED BY <3>1, <3>2 DEF PageInv, GamesOrdered
  <2>2. Knows(observed, game') /\ Knows(Mark(Shown), game') /\ Knows(Mark(Answered), game')
    BY <1>1, <2>1 DEF GameMoves
  <2>3. Mark(Shown)' = Mark(Shown) /\ Mark(Answered)' = Mark(Answered) /\ observed' = observed
    BY <1>3, <1>4 DEF Mark, Key, Newest, LastOf
  <2>4. QED BY <1>4, <2>2, <2>3 DEF GamesOrdered, PageInv, Knows, Key
<1>9. RenderedObserved' /\ RenderedShown'
  BY <1>3, <1>4 DEF PageInv, RenderedObserved, RenderedShown, Key
<1>10. ViewTrue(view, observed)' /\ (reduced' => view'.run = None)
  BY <1>3 DEF PageInv, ViewTrue, ViewTyped, Linked, Chain, Lands, Current, Ends, LastOf, To
<1>11. QED BY <1>5, <1>6, <1>7, <1>8, <1>9, <1>10 DEF PageInv

(* Steps that change neither the games nor the page nor what it is told of *)
(* the game.                                                               *)
LEMMA StillKeeps ==
  ASSUME PageInv, PageTypeOK', UNCHANGED <<game, games, rendered, observed, view, reduced>>,
         Shown' = Shown, due => due', Answered' = Answered
  PROVE  PageInv'
<1>1. GamesLawful' /\ GamesNumbered'
  BY DEF PageInv, GamesLawful, GamesNumbered
<1>2. GamesOrdered'
  <2>1. Mark(Shown)' = Mark(Shown) /\ Mark(Answered)' = Mark(Answered)
    BY DEF Mark, Key, Newest, LastOf
  <2>2. QED BY <2>1 DEF GamesOrdered, PageInv, Knows, Key
<1>3. RenderedObserved' /\ RenderedShown'
  BY DEF PageInv, RenderedObserved, RenderedShown, Key
<1>4. ViewTrue(view, observed)' /\ (reduced' => view'.run = None)
  BY DEF PageInv, ViewTrue, ViewTyped, Linked, Chain, Lands, Current, Ends, LastOf, To
<1>5. QED BY <1>1, <1>2, <1>3, <1>4 DEF PageInv

(* Layouts, rotations and sockets do not concern the games or the view.    *)
LEMMA LinkKeeps ==
  ASSUME PageInv, ChangeLayout \/ Rotate \/ Sockets
  PROVE  PageInv'
<1>1. /\ UNCHANGED <<game, games, address, answer>>
      /\ UNCHANGED <<accepted, due, rendered, observed, view, reduced>>
  BY DEF ChangeLayout, Rotate, Sockets, Connect, Register, Drop, Revalidate, DisconnectToken,
         server, page, link
<1>2. PageTypeOK'
  <2>1. PageTypeOK
    BY DEF PageInv
  <2>2. CASE ChangeLayout
    <3>1. /\ layout' = layout + 1 /\ unsent' = unsent \cup {layout'} /\ rare' = rare + 1
          /\ UNCHANGED <<token, retired, socket>>
      BY <2>2 DEF ChangeLayout, Rarely, link, page
    <3>2. layout' \in Nat /\ unsent' \subseteq Nat /\ rare' \in Nat
      BY <2>1, <3>1 DEF PageTypeOK
    <3>3. QED BY <1>1, <2>1, <3>1, <3>2 DEF PageTypeOK
  <2>3. CASE Rotate
    <3>1. /\ token' = token + 1 /\ retired' = retired \cup {token} /\ rare' = rare + 1
          /\ UNCHANGED <<layout, unsent, socket>>
      BY <2>3 DEF Rotate, Rarely, link, page
    <3>2. token' \in Nat /\ retired' \subseteq Nat /\ rare' \in Nat
      BY <2>1, <3>1 DEF PageTypeOK
    <3>3. QED BY <1>1, <2>1, <3>1, <3>2 DEF PageTypeOK
  <2>4. CASE Sockets
    <3>1. /\ UNCHANGED <<layout, unsent, token>> /\ retired' \subseteq retired
          /\ socket' \in {"off", "authenticated", "registered"} /\ rare' \in {rare, rare + 1}
      BY <2>1, <2>4 DEF Sockets, Connect, Register, Drop, Revalidate, DisconnectToken, Rarely,
         server, page, PageTypeOK
    <3>2. rare' \in Nat
      BY <2>1, <3>1 DEF PageTypeOK
    <3>3. QED BY <1>1, <2>1, <3>1, <3>2 DEF PageTypeOK
  <2>5. QED BY <2>2, <2>3, <2>4
<1>3. Shown' = Shown /\ Answered' = Answered
  BY <1>1 DEF Shown, Answered
<1>4. QED BY <1>1, <1>2, <1>3, StillKeeps

(* The event of a layout changes what is accepted, not its game.           *)
LEMMA LayoutKeeps ==
  ASSUME PageInv, NEW v \in unsent, LayoutUpdated(v)
  PROVE  PageInv'
<1>1. /\ UNCHANGED <<game, games, layout, token, retired, address, socket, answer>>
      /\ UNCHANGED <<rendered, observed, view, reduced, rare>>
      /\ unsent' \subseteq unsent
  BY DEF LayoutUpdated, link
<1>2. PageTypeOK /\ v \in Nat
  BY DEF PageInv, PageTypeOK
<1>3. CASE UNCHANGED <<accepted, due>>
  <2>1. PageTypeOK'
    BY <1>1, <1>2, <1>3 DEF PageTypeOK
  <2>2. Shown' = Shown /\ Answered' = Answered
    BY <1>1, <1>3 DEF Shown, Answered
  <2>3. QED BY <1>1, <1>3, <2>1, <2>2, StillKeeps
<1>4. CASE accepted # None /\ accepted' = [accepted EXCEPT !.layout = v] /\ due' = TRUE
  <2>1. accepted \in Snapshot
    BY <1>2, <1>4, GamesHeld
  <2>2. accepted' \in Snapshot /\ accepted'.game = accepted.game
    BY <1>2, <1>4, <2>1 DEF Snapshot
  <2>3. accepted' # None
    BY <2>2, NoneAssumption
  <2>4. PageTypeOK'
    BY <1>1, <1>2, <1>4, <2>2 DEF PageTypeOK
  <2>5. Shown' = Shown /\ Answered' = Answered
    BY <1>1, <1>4, <2>2, <2>3 DEF Shown, Answered
  <2>6. QED BY <1>1, <1>4, <2>4, <2>5, StillKeeps
<1>5. QED BY <1>3, <1>4 DEF LayoutUpdated

(* A mark that counts all of g as shown is not before g.                   *)
LEMMA MarkKnows ==
  ASSUME NEW g \in Game, Lawful(g)
  PROVE  Knows(Mark(g), g) /\ Mark(g).key[1] = g.id
<1>1. Mark(g).key = Key(g) /\ Mark(g).cell = g.cell /\ Mark(g).revision = Newest(g)
  BY MarkType
<1>2. Mark(g).key[1] = g.id /\ Mark(g).key[2] = g.epoch
  BY <1>1, GameType
<1>3. g.id \in Nat /\ g.epoch \in Nat /\ g.revision \in Nat
  BY GameType
<1>4. Newest(g) <= g.revision
  BY <1>3 DEF Newest, Lawful
<1>5. QED BY <1>1, <1>2, <1>3, <1>4 DEF Knows

(* Nothing counts as shown after no game.                                  *)
LEMMA NoGameKnown == \A o : Knows(o, NoGame)
BY DEF Knows

(* An answer carries the game as it is, or a denial.                       *)
LEMMA PollKeeps ==
  ASSUME PageInv, Poll
  PROVE  PageInv'
<1>1. /\ UNCHANGED <<game, games, layout, unsent, token, retired, address, socket>>
      /\ UNCHANGED <<accepted, due, rendered, observed, view, reduced, rare>>
  BY DEF Poll, server, page
<1>2. PageTypeOK /\ game \in Game /\ layout \in Nat
  BY GamesHeld DEF PageInv, PageTypeOK
<1>3. Shown' = Shown
  BY <1>1 DEF Shown
<1>4. CASE address # token
  <2>1. answer' = Denied /\ answer = None
    BY <1>4 DEF Poll
  <2>2. Answered' = NoGame /\ Answered = NoGame
    BY <2>1 DEF Answered
  <2>3. PageTypeOK'
    BY <1>1, <1>2, <2>1 DEF PageTypeOK
  <2>4. QED BY <1>1, <1>3, <2>2, <2>3, StillKeeps
<1>5. CASE address = token
  <2>1. answer' = [game |-> game, layout |-> layout]
    BY <1>5 DEF Poll
  <2>2. answer' \in Snapshot /\ answer' # None /\ answer'.game = game
    BY <1>2, <2>1, NoneAssumption DEF Snapshot
  <2>3. answer' # Denied
    <3>1. "layout" \in DOMAIN answer' /\ "layout" \notin DOMAIN Denied
      BY <2>1 DEF Denied
    <3>2. QED BY <3>1
  <2>4. Answered' = game
    BY <2>2, <2>3 DEF Answered
  <2>5. PageTypeOK'
    BY <1>1, <1>2, <2>2 DEF PageTypeOK
  <2>6. GamesLawful' /\ GamesNumbered'
    BY <1>1, <1>3, <2>4 DEF PageInv, GamesLawful, GamesNumbered
  <2>7. GamesOrdered'
    <3>1. Mark(Shown)' = Mark(Shown) /\ Mark(Answered)' = Mark(game)
      BY <1>3, <2>4 DEF Mark, Key, Newest, LastOf
    <3>2. Knows(Mark(game), game)
      BY <1>2, MarkKnows DEF PageInv, GamesLawful
    <3>3. QED BY <1>1, <1>3, <2>4, <3>1, <3>2 DEF GamesOrdered, PageInv, Knows, Key
  <2>8. RenderedObserved' /\ RenderedShown'
    BY <1>1, <1>3 DEF PageInv, RenderedObserved, RenderedShown, Key
  <2>9. ViewTrue(view, observed)' /\ (reduced' => view'.run = None)
    BY <1>1 DEF PageInv, ViewTrue, ViewTyped, Linked, Chain, Lands, Current, Ends, LastOf, To
  <2>10. QED BY <2>5, <2>6, <2>7, <2>8, <2>9 DEF PageInv
<1>6. QED BY <1>4, <1>5

(* What counts as nothing shown is before every game.                      *)
LEMMA NothingKnows ==
  ASSUME NEW g \in Game, Lawful(g), NEW o, o.key = <<0, 0>>
  PROVE  Knows(o, g)
<1>1. g # NoGame => g.id >= 1
  BY DEF Lawful
<1>2. o.key[1] = 0 /\ g.id \in Nat /\ g.epoch \in Nat /\ Key(g) = <<g.id, g.epoch>>
  BY GameType
<1>3. g # NoGame => o.key # Key(g) /\ o.key[1] # g.id /\ o.key[1] <= g.id
  BY <1>1, <1>2
<1>4. QED BY <1>3 DEF Knows

(* The page accepts: what it has advances to the answer, or to nothing.    *)
LEMMA AcceptKeeps ==
  ASSUME PageInv, PageTypeOK',
         UNCHANGED <<game, games, rendered, observed, view, reduced>>,
         \/ Shown' = Shown /\ (due => due')
         \/ Shown' \in {Answered, NoGame} /\ due',
         Answered' = NoGame
  PROVE  PageInv'
<1>1. GamesLawful' /\ GamesNumbered'
  <2>1. Lawful(NoGame) /\ NoGame.id <= games
    BY NoGameType, GamesHeld DEF PageInv, NoGame
  <2>2. QED BY <2>1 DEF PageInv, GamesLawful, GamesNumbered
<1>2. GamesOrdered'
  <2>1. Mark(Answered)' = Mark(NoGame)
    BY DEF Mark, Key, Newest, LastOf
  <2>2. Mark(Shown)' \in {Mark(Shown), Mark(Answered), Mark(NoGame)}
    BY DEF Mark, Key, Newest, LastOf
  <2>3. Knows(Mark(NoGame), game)
    BY NoGameType, GamesHeld, MarkType, NothingKnows DEF PageInv, GamesLawful
  <2>4. Knows(observed, Shown')
    BY NoGameKnown DEF PageInv, GamesOrdered
  <2>5. Knows(Mark(Shown)', game) /\ Knows(Mark(Answered)', game)
    BY <2>1, <2>2, <2>3 DEF PageInv, GamesOrdered
  <2>6. QED BY <2>4, <2>5, NoGameKnown DEF GamesOrdered, PageInv, Knows, Key
<1>3. RenderedObserved' /\ RenderedShown'
  BY DEF PageInv, RenderedObserved, RenderedShown, Key
<1>4. ViewTrue(view, observed)' /\ (reduced' => view'.run = None)
  BY DEF PageInv, ViewTrue, ViewTyped, Linked, Chain, Lands, Current, Ends, LastOf, To
<1>5. QED BY <1>1, <1>2, <1>3, <1>4 DEF PageInv

(* What the page accepts of an answer has the answer's game.               *)
LEMMA MergedType ==
  ASSUME PageTypeOK, answer \notin {None, Denied}
  PROVE  /\ Merged(answer) \in Snapshot /\ Merged(answer).game = answer.game
         /\ Merged(answer).layout >= answer.layout
         /\ accepted # None => Merged(answer).layout >= accepted.layout
<1>1. answer \in Snapshot /\ answer.layout \in Nat
  BY GamesHeld
<1>2. CASE accepted # None /\ accepted.layout > answer.layout
  <2>1. accepted.layout \in Nat
    BY <1>2, GamesHeld
  <2>2. Merged(answer) = [answer EXCEPT !.layout = accepted.layout]
    BY <1>2 DEF Merged
  <2>3. /\ Merged(answer) \in Snapshot /\ Merged(answer).game = answer.game
        /\ Merged(answer).layout = accepted.layout
    BY <1>1, <2>1, <2>2 DEF Snapshot
  <2>4. QED BY <1>1, <1>2, <2>1, <2>3
<1>3. CASE ~ (accepted # None /\ accepted.layout > answer.layout)
  <2>1. Merged(answer) = answer
    BY <1>3 DEF Merged
  <2>2. accepted # None => accepted.layout \in Nat
    BY GamesHeld
  <2>3. QED BY <1>1, <1>3, <2>1, <2>2
<1>4. QED BY <1>2, <1>3

(* An answer is accepted or dropped, a denial leaves nothing, or it is     *)
(* lost.                                                                   *)
LEMMA PollsKeep ==
  ASSUME PageInv, Accept \/ AcceptDenial \/ LosePoll
  PROVE  PageInv'
<1>1. /\ UNCHANGED <<game, games, layout, unsent, token, retired, address, socket>>
      /\ UNCHANGED <<rendered, observed, view, reduced>>
      /\ answer' = None /\ rare' \in {rare, rare + 1}
  BY DEF Accept, AcceptDenial, LosePoll, Rarely, server, page
<1>2. PageTypeOK
  BY DEF PageInv
<1>3. Answered' = NoGame
  BY <1>1 DEF Answered
<1>4. rare' \in Nat
  BY <1>1, <1>2 DEF PageTypeOK
<1>5. CASE UNCHANGED <<accepted, due>>
  <2>1. PageTypeOK'
    BY <1>1, <1>2, <1>4, <1>5 DEF PageTypeOK
  <2>2. Shown' = Shown
    BY <1>5 DEF Shown
  <2>3. QED BY <1>1, <1>3, <1>5, <2>1, <2>2, AcceptKeeps
<1>6. CASE answer \notin {None, Denied} /\ accepted' = Merged(answer) /\ due' = TRUE
  <2>1. accepted' \in Snapshot /\ accepted'.game = answer.game
    BY <1>2, <1>6, MergedType
  <2>2. PageTypeOK'
    BY <1>1, <1>2, <1>4, <1>6, <2>1 DEF PageTypeOK
  <2>3. accepted' # None
    BY <2>1, NoneAssumption
  <2>4. Shown' = Answered
    BY <1>6, <2>1, <2>3 DEF Shown, Answered
  <2>5. QED BY <1>1, <1>3, <1>6, <2>2, <2>4, AcceptKeeps
<1>7. CASE accepted' = None /\ due' = (due \/ accepted # None)
  <2>1. PageTypeOK'
    BY <1>1, <1>2, <1>4, <1>7 DEF PageTypeOK
  <2>2. Shown' = NoGame
    BY <1>7 DEF Shown
  <2>3. (Shown' = Shown /\ (due => due')) \/ (Shown' = NoGame /\ due')
    <3>1. CASE accepted = None
      BY <1>7, <2>2, <3>1 DEF Shown
    <3>2. CASE accepted # None
      BY <1>7, <2>2, <3>2
    <3>3. QED BY <3>1, <3>2
  <2>4. QED BY <1>1, <1>3, <2>1, <2>3, AcceptKeeps
<1>8. QED
  BY <1>5, <1>6, <1>7 DEF Accept, AcceptDenial, LosePoll, page

(* A page that is opened has nothing, shows nothing and counts nothing.    *)
LEMMA StillTrue ==
  /\ ViewTrue(StillView, Unobserved) /\ Unobserved \in Marks /\ Unobserved.key = <<0, 0>>
  /\ StillView \in View /\ StillView.run = None /\ StillView.left = <<>>
  /\ Unrendered = [key |-> Unobserved.key, cell |-> Unobserved.cell]
  /\ Unrendered = [key |-> Key(NoGame), cell |-> NoGame.cell]
  /\ Unrendered \in [key : Nat \X Nat, cell : Cell]
<1>1. 0 \in Cell /\ Key(NoGame) = <<0, 0>> /\ NoGame.cell = 0
  BY PageAssumption, NoGameType DEF Cell, NoGame
<1>2. /\ Unobserved = [key |-> <<0, 0>>, revision |-> 0, cell |-> 0]
      /\ Unrendered = [key |-> <<0, 0>>, cell |-> 0]
  BY <1>1 DEF Unobserved, Unrendered
<1>3. StillView \in View
  BY <1>1 DEF StillView, View
<1>4. Chain(<<>>)
  BY DEF Chain
<1>5. ViewTrue(StillView, Unobserved)
  BY <1>2, <1>3, <1>4 DEF ViewTrue, ViewTyped, Linked, Lands, Current, Ends, StillView
<1>6. QED BY <1>1, <1>2, <1>3, <1>5 DEF Marks, StillView

(* A page that is opened again counts nothing as shown.                    *)
LEMMA OpenKeeps ==
  ASSUME PageInv, Open
  PROVE  PageInv'
<1>1. /\ UNCHANGED <<game, games, layout, unsent, token, retired, reduced, rare>>
      /\ address' = token /\ socket' = "off" /\ answer' = None
      /\ accepted' = None /\ due' = FALSE /\ rendered' = Unrendered
      /\ observed' = Unobserved /\ view' = StillView
  BY DEF Open, server
<1>2. PageTypeOK /\ game \in Game /\ Lawful(game) /\ games \in Nat
  BY GamesHeld DEF PageInv, GamesLawful
<1>3. PageTypeOK'
  <2>1. observed' \in [key : Nat \X Nat, revision : Nat, cell : Cell]
    BY <1>1, StillTrue DEF Marks
  <2>2. rendered' \in [key : Nat \X Nat, cell : Cell]
    BY <1>1, StillTrue
  <2>3. view' \in View /\ (view'.run = None <=> view'.left = <<>>)
    BY <1>1, StillTrue
  <2>4. QED BY <1>1, <1>2, <2>1, <2>2, <2>3 DEF PageTypeOK
<1>4. Shown' = NoGame /\ Answered' = NoGame
  BY <1>1 DEF Shown, Answered
<1>5. GamesLawful' /\ GamesNumbered'
  <2>1. NoGame.id = 0 /\ Unobserved.key[1] = 0 /\ 0 <= games
    BY <1>2, StillTrue DEF NoGame
  <2>2. QED BY <1>1, <1>4, <2>1, NoGameType DEF PageInv, GamesLawful, GamesNumbered
<1>6. GamesOrdered'
  <2>1. Mark(Shown)' = Mark(NoGame) /\ Mark(Answered)' = Mark(NoGame)
    BY <1>4 DEF Mark, Key, Newest, LastOf
  <2>2. Knows(Mark(NoGame), game) /\ Knows(Unobserved, game)
    BY <1>2, NoGameType, MarkType, NothingKnows, StillTrue
  <2>3. QED BY <1>1, <1>4, <2>1, <2>2, NoGameKnown DEF GamesOrdered, Knows, Key
<1>7. RenderedObserved' /\ RenderedShown'
  BY <1>1, <1>4, StillTrue DEF RenderedObserved, RenderedShown, Key
<1>8. ViewTrue(view, observed)'
  BY <1>1, StillTrue DEF ViewTrue, ViewTyped, Linked, Chain, Lands, Current, Ends, LastOf, To
<1>9. view'.run = None
  BY <1>1, StillTrue
<1>10. QED BY <1>3, <1>5, <1>6, <1>7, <1>8, <1>9 DEF PageInv

(* ----------------------------- The animation ----------------------------- *)
Timer == [event : {"cell", "landing", "idle"}, cell : Cell]

(* A run's timers: the last of them, and only it, ends the run, and the one*)
(* before shows the pawn where its command ends.                           *)
LEMMA TimelineFacts ==
  ASSUME NEW c \in Command, NEW t, t = Timeline(c)
  PROVE  /\ t \in Seq(Timer) /\ Len(t) \in Nat /\ Len(t) # 1 /\ t # <<>>
         /\ \A i \in DOMAIN t : (t[i].event = "idle") <=> (i = Len(t))
         /\ t[Len(t) - 1].cell = To(c)
<1>1. /\ To(c) \in Cell /\ c.path \in Seq(Cell) /\ Len(c.path) \in Nat
      /\ DOMAIN c.path = 1 .. Len(c.path)
  BY ToType
<1>2. \A e \in {"cell", "landing", "idle"}, x \in Cell :
        At(e, x) \in Timer /\ At(e, x).event = e /\ At(e, x).cell = x
  BY DEF At, Timer
<1>3. PICK s : s = Steps(c)
  OBVIOUS
<1>4. s \in Seq(Timer) /\ \A i \in DOMAIN s : s[i].event = "cell"
  <2>1. CASE ~c.dice
    BY <1>1, <1>2, <1>3, <2>1 DEF Steps
  <2>2. CASE c.dice /\ Len(c.path) > LongPath
    BY <1>3, <2>2 DEF Steps
  <2>3. CASE c.dice /\ ~ (Len(c.path) > LongPath)
    <3>1. s = [i \in 1 .. Len(c.path) |-> At("cell", c.path[i])]
      BY <1>1, <1>3, <2>3 DEF Steps
    <3>2. \A i \in 1 .. Len(c.path) : c.path[i] \in Cell
      BY <1>1
    <3>3. QED BY <1>1, <1>2, <3>1, <3>2
  <2>4. QED BY <2>1, <2>2, <2>3
<1>5. PICK a, z : a = At("landing", To(c)) /\ z = At("idle", To(c))
  OBVIOUS
<1>6. /\ a \in Timer /\ z \in Timer /\ a.event = "landing" /\ z.event = "idle"
      /\ a.cell = To(c)
  BY <1>1, <1>2, <1>5
<1>7. t = s \o <<a, z>>
  BY <1>3, <1>5 DEF Timeline
<1>8. PICK n \in Nat : n = Len(s)
  BY <1>4
<1>9. /\ t \in Seq(Timer) /\ Len(t) = n + 2 /\ DOMAIN t = 1 .. n + 2
      /\ \A i \in 1 .. n : t[i] = s[i]
      /\ t[n + 1] = a /\ t[n + 2] = z
  BY <1>4, <1>6, <1>7, <1>8
<1>10. \A i \in DOMAIN t : (t[i].event = "idle") <=> (i = n + 2)
  <2> TAKE i \in DOMAIN t
  <2>1. i \in 1 .. n \/ i = n + 1 \/ i = n + 2
    BY <1>8, <1>9
  <2>2. CASE i \in 1 .. n
    BY <1>4, <1>8, <1>9, <2>2
  <2>3. CASE i = n + 1
    BY <1>6, <1>9, <2>3
  <2>4. CASE i = n + 2
    BY <1>6, <1>9, <2>4
  <2>5. QED BY <2>1, <2>2, <2>3, <2>4
<1>11. (n + 2) - 1 = n + 1 /\ n + 2 # 1
  OBVIOUS
<1>12. t[Len(t) - 1].cell = To(c)
  BY <1>6, <1>9, <1>11
<1>13. QED BY <1>9, <1>10, <1>11, <1>12

(* The fields of a view have their types.                                  *)
LEMMA ViewType ==
  ASSUME NEW V \in View
  PROVE  /\ V.cell \in Cell /\ V.queue \in Seq(Command) /\ V.run \in Run \cup {None}
         /\ V.left \in Seq(Timer) /\ V.seen \in SUBSET Nat
         /\ V = [cell |-> V.cell, queue |-> V.queue, run |-> V.run, left |-> V.left,
                 seen |-> V.seen]
         /\ V.run # None => V.run.command \in Command /\ V.run.key \in Nat \X Nat
BY DEF View, Timer, Run

(* A record has the fields it is written with.                             *)
LEMMA ViewOf ==
  ASSUME NEW W, NEW c, NEW q, NEW r, NEW l, NEW s,
         W = [cell |-> c, queue |-> q, run |-> r, left |-> l, seen |-> s]
  PROVE  W.cell = c /\ W.queue = q /\ W.run = r /\ W.left = l /\ W.seen = s
OBVIOUS

(* The commands of the queue after the i-th.                               *)
LEMMA TailFacts ==
  ASSUME NEW q \in Seq(Command), NEW i \in DOMAIN q, NEW r, r = SubSeq(q, i + 1, Len(q))
  PROVE  /\ r \in Seq(Command) /\ Len(r) = Len(q) - i
         /\ \A j \in 1 .. Len(q) - i : r[j] = q[i + j]
<1>1. Len(q) \in Nat /\ i \in 1 .. Len(q)
  OBVIOUS
<1>2. CASE i = Len(q)
  <2>1. i + 1 \in Int /\ Len(q) \in Int /\ Len(q) < i + 1 /\ Len(q) - i = 0
    BY <1>1, <1>2
  <2>2. SubSeq(q, i + 1, Len(q)) = <<>>
    BY <2>1, SubSeqEmpty, Zenon
  <2>3. r = <<>>
    BY <2>2
  <2>4. Len(r) = 0 /\ r \in Seq(Command)
    BY <2>3
  <2>5. QED BY <2>1, <2>4
<1>3. CASE i # Len(q)
  <2>1. PICK a \in 1 .. Len(q) : a = i + 1
    BY <1>1, <1>3
  <2>2. PICK t : t = SubSeq(q, a, Len(q))
    OBVIOUS
  <2>3. /\ t \in Seq(Command) /\ Len(t) = Len(q) - a + 1
        /\ \A j \in 1 .. Len(q) - a + 1 : t[j] = q[a + j - 1]
    BY <1>1, <2>1, <2>2
  <2>4. ASSUME NEW n \in Nat, NEW h \in Nat, NEW k \in Nat, k = h + 1
        PROVE  n - k + 1 = n - h /\ \A j \in 1 .. n - h : k + j - 1 = h + j
    BY <2>4
  <2>5. /\ Len(q) - a + 1 = Len(q) - i
        /\ \A j \in 1 .. Len(q) - i : a + j - 1 = i + j
    <3>1. i \in Nat /\ a \in Nat
      BY <1>1, <2>1
    <3>2. QED BY <1>1, <2>1, <2>4, <3>1
  <2>6. QED BY <2>1, <2>2, <2>3, <2>5
<1>4. QED BY <1>2, <1>3

(* Commands that show nothing begin where the first of them begins, and so *)
(* does the one after them.                                                *)
LEMMA InstantsStay ==
  ASSUME NEW q \in Seq(Command), Chain(q), ~reduced, NEW i \in DOMAIN q,
         \A j \in 1 .. i - 1 : Instant(q[j])
  PROVE  q[i].from = q[1].from
<1> DEFINE S == {n \in 0 .. i - 1 : q[n + 1].from = q[1].from}
<1>1. i \in Nat /\ Len(q) \in Nat /\ i \in 1 .. Len(q) /\ i - 1 \in Nat
  OBVIOUS
<1>2. 0 \in S
  BY <1>1
<1>3. ASSUME NEW n \in 0 .. (i - 1) - 1, n \in S PROVE n + 1 \in S
  <2>1. /\ n + 1 \in 1 .. i - 1 /\ n + 2 \in 2 .. Len(q) /\ (n + 2) - 1 = n + 1
        /\ (n + 1) + 1 = n + 2 /\ n + 1 \in 0 .. i - 1
    BY <1>1
  <2>2. q[n + 2].from = To(q[n + 1])
    BY <2>1 DEF Chain
  <2>3. q[n + 1].path = <<>>
    BY <2>1 DEF Instant
  <2>4. To(q[n + 1]) = q[n + 1].from
    BY <2>3 DEF To
  <2>5. q[n + 1].from = q[1].from
    BY <1>3
  <2>6. QED BY <2>1, <2>2, <2>4, <2>5
<1>4. i - 1 \in S
  <2> HIDE DEF S
  <2>1. \A n \in 0 .. (i - 1) - 1 : n \in S => n + 1 \in S
    BY <1>3
  <2>2. 0 .. i - 1 \subseteq S
    BY <1>1, <1>2, <2>1, UpTo
  <2>3. QED BY <1>1, <2>2
<1>5. QED BY <1>1, <1>4

(* What startNext makes of a view W that shows no run.                     *)
Passed(V, W) ==
  /\ W.run = None /\ W.left = <<>> /\ W.queue = <<>> /\ W.seen = V.seen
  /\ W.cell = IF V.queue = <<>> THEN V.cell ELSE To(LastOf(V.queue))
Started(V, W, key, i) ==
  /\ i \in DOMAIN V.queue /\ ~Instant(V.queue[i])
  /\ \A j \in 1 .. i - 1 : Instant(V.queue[j])
  /\ W.run = [key |-> key, command |-> V.queue[i]] /\ W.left = Timeline(V.queue[i])
  /\ W.queue = SubSeq(V.queue, i + 1, Len(V.queue)) /\ W.seen = V.seen
  /\ W.cell = V.queue[i].from

(* startNext passes all that is queued, or starts the first that shows.    *)
LEMMA StartNextIs ==
  ASSUME NEW V \in View, NEW key \in Nat \X Nat, NEW W, W = StartNext(V, key)
  PROVE  /\ W \in View
         /\ Passed(V, W) \/ \E i \in DOMAIN V.queue : Started(V, W, key, i)
<1> DEFINE slow == {i \in DOMAIN V.queue : ~Instant(V.queue[i])}
           first == CHOOSE j \in slow : \A k \in slow : j <= k
<1>1. /\ V.cell \in Cell /\ V.queue \in Seq(Command) /\ V.seen \in SUBSET Nat
      /\ V = [cell |-> V.cell, queue |-> V.queue, run |-> V.run, left |-> V.left,
              seen |-> V.seen]
      /\ Len(V.queue) \in Nat /\ DOMAIN V.queue = 1 .. Len(V.queue)
  BY ViewType
<1>2. CASE slow = {}
  <2>1. PICK c : c = IF V.queue = <<>> THEN V.cell ELSE To(V.queue[Len(V.queue)])
    OBVIOUS
  <2>2. c \in Cell
    <3>1. V.queue # <<>> => V.queue[Len(V.queue)] \in Command
      BY <1>1
    <3>2. QED BY <1>1, <2>1, <3>1, ToType
  <2>3. W = [cell |-> c, queue |-> <<>>, run |-> None, left |-> <<>>, seen |-> V.seen]
    BY <1>1, <1>2, <2>1 DEF StartNext
  <2>4. W \in View
    BY <1>1, <2>2, <2>3 DEF View
  <2>5. Passed(V, W)
    BY <2>1, <2>3 DEF Passed, LastOf
  <2>6. QED BY <2>4, <2>5
<1>3. CASE slow # {}
  <2>1. slow \in SUBSET Nat
    BY <1>1
  <2>2. \E n \in slow : \A k \in slow : n <= k
    <3> HIDE DEF slow
    <3>1. QED BY <1>3, <2>1, LeastOf, Zenon
  <2>3. first \in slow /\ \A k \in slow : first <= k
    <3> HIDE DEF slow
    <3>1. QED BY <2>2
  <2>4. PICK i : i = first
    OBVIOUS
  <2>5. i \in slow /\ \A k \in slow : i <= k
    BY <2>3, <2>4
  <2>6. W = [cell |-> V.queue[i].from, queue |-> SubSeq(V.queue, i + 1, Len(V.queue)),
             run |-> [key |-> key, command |-> V.queue[i]],
             left |-> Timeline(V.queue[i]), seen |-> V.seen]
    <3>1. W = [V EXCEPT !.run = [key |-> key, command |-> V.queue[first]],
                        !.left = Timeline(V.queue[first]),
                        !.queue = SubSeq(V.queue, first + 1, Len(V.queue)),
                        !.cell = V.queue[first].from]
      BY <1>3 DEF StartNext
    <3> HIDE DEF first
    <3>2. W = [V EXCEPT !.run = [key |-> key, command |-> V.queue[i]],
                        !.left = Timeline(V.queue[i]),
                        !.queue = SubSeq(V.queue, i + 1, Len(V.queue)),
                        !.cell = V.queue[i].from]
      BY <2>4, <3>1
    <3>3. QED BY <1>1, <3>2
  <2>7. i \in DOMAIN V.queue /\ ~Instant(V.queue[i]) /\ V.queue[i] \in Command
    BY <1>1, <2>5
  <2>8. \A j \in 1 .. i - 1 : Instant(V.queue[j])
    <3> SUFFICES ASSUME NEW j \in 1 .. i - 1, ~Instant(V.queue[j]) PROVE FALSE
      OBVIOUS
    <3>1. i \in 1 .. Len(V.queue) /\ j \in 1 .. Len(V.queue) /\ j < i
      BY <1>1, <2>7
    <3>2. j \in slow
      BY <1>1, <3>1
    <3>3. i <= j
      BY <2>5, <3>2
    <3>4. QED BY <3>1, <3>3
  <2>9. W \in View
    <3>1. Timeline(V.queue[i]) \in Seq(Timer)
      BY <2>7, TimelineFacts
    <3>2. SubSeq(V.queue, i + 1, Len(V.queue)) \in Seq(Command)
      BY <1>1, <2>7, TailFacts
    <3>3. [key |-> key, command |-> V.queue[i]] \in Run
      BY <2>7 DEF Run
    <3>4. V.queue[i].from \in Cell
      BY <2>7, ToType
    <3>5. QED BY <1>1, <2>6, <3>1, <3>2, <3>3, <3>4 DEF View, Timer
  <2>10. Started(V, W, key, i)
    <3>1. /\ W.cell = V.queue[i].from
          /\ W.queue = SubSeq(V.queue, i + 1, Len(V.queue))
          /\ W.run = [key |-> key, command |-> V.queue[i]]
          /\ W.left = Timeline(V.queue[i]) /\ W.seen = V.seen
      <4> HIDE DEF slow, first
      <4>2. PICK c, q, r, l : /\ c = V.queue[i].from
                              /\ q = SubSeq(V.queue, i + 1, Len(V.queue))
                              /\ r = [key |-> key, command |-> V.queue[i]]
                              /\ l = Timeline(V.queue[i])
        OBVIOUS
      <4>3. W = [cell |-> c, queue |-> q, run |-> r, left |-> l, seen |-> V.seen]
        BY <2>6, <4>2
      <4>4. W.cell = c /\ W.queue = q /\ W.run = r /\ W.left = l /\ W.seen = V.seen
        BY <4>3, ViewOf
      <4>5. QED BY <4>2, <4>4
    <3> HIDE DEF slow, first
    <3>2. QED BY <2>7, <2>8, <3>1, Zenon DEF Started
  <2>11. QED BY <2>7, <2>9, <2>10
<1>4. QED BY <1>2, <1>3

(* Where a view that has no run, and is about to start its queue, ends.    *)
Headed(V, o) ==
  /\ Chain(V.queue)
  /\ IF V.queue = <<>> THEN V.cell = o.cell ELSE To(LastOf(V.queue)) = o.cell
  /\ \A r \in V.seen : r <= o.revision

(* What is passed ends where the queue did.                                *)
LEMMA PassedTrue ==
  ASSUME NEW V \in View, NEW W \in View, NEW o \in Marks, Headed(V, o), Passed(V, W)
  PROVE  ViewTrue(W, o)
<1>1. W.cell = o.cell /\ W.run = None /\ W.left = <<>> /\ W.queue = <<>> /\ W.seen = V.seen
  BY DEF Headed, Passed
<1>2. ViewTyped(W) /\ Lands(W)
  BY <1>1 DEF ViewTyped, Lands
<1>3. Linked(W)
  <2>1. Chain(<<>>)
    BY DEF Chain
  <2>2. QED BY <1>1, <2>1 DEF Linked
<1>4. Current(W, o)
  BY <1>1 DEF Current, Headed, Ends
<1>5. QED BY <1>2, <1>3, <1>4 DEF ViewTrue

(* What is started ends where the queue did, and begins the run of its     *)
(* command.                                                                *)
LEMMA StartedTrue ==
  ASSUME NEW V \in View, NEW W \in View, NEW o \in Marks, Headed(V, o),
         NEW i \in DOMAIN V.queue, Started(V, W, o.key, i)
  PROVE  ViewTrue(W, o) /\ W.run # None /\ W.run.command = V.queue[i]
<1>1. PICK q : q = V.queue
  OBVIOUS
<1>2. PICK c : c = q[i]
  OBVIOUS
<1>3. PICK n \in Nat : n = Len(q)
  BY <1>1, ViewType
<1>4. /\ q \in Seq(Command) /\ c \in Command /\ i \in 1 .. n /\ i \in Nat /\ Chain(q)
      /\ To(q[n]) = o.cell /\ DOMAIN q = 1 .. n
  BY <1>1, <1>2, <1>3, ViewType DEF Headed, LastOf
<1>5. /\ W.run = [key |-> o.key, command |-> c] /\ W.left = Timeline(c)
      /\ W.queue = SubSeq(q, i + 1, Len(q)) /\ W.cell = c.from /\ W.seen = V.seen
  BY <1>1, <1>2 DEF Started
<1>6. W.run # None /\ W.run.command = c /\ W.run.key = o.key
  <2>1. W.run \in Run
    BY <1>4, <1>5 DEF Run, Marks
  <2>2. QED BY <1>5, <2>1, NoneAssumption
<1>7. PICK r : r = W.queue
  OBVIOUS
<1>8. r \in Seq(Command) /\ Len(r) = n - i /\ \A j \in 1 .. n - i : r[j] = q[i + j]
  <2>1. r = SubSeq(q, i + 1, Len(q)) /\ i \in DOMAIN q
    BY <1>4, <1>5, <1>7
  <2>2. /\ r \in Seq(Command) /\ Len(r) = Len(q) - i
        /\ \A j \in 1 .. Len(q) - i : r[j] = q[i + j]
    BY <1>4, <2>1, TailFacts
  <2>3. QED BY <1>3, <2>2
<1>9. ViewTyped(W) /\ Lands(W)
  <2>1. PICK t : t = W.left
    OBVIOUS
  <2>2. /\ Len(t) \in Nat /\ Len(t) # 1 /\ t # <<>>
        /\ \A j \in DOMAIN t : (t[j].event = "idle") <=> (j = Len(t))
        /\ t[Len(t) - 1].cell = To(c)
    BY <1>4, <1>5, <2>1, TimelineFacts
  <2>3. Len(t) # 1
    BY <2>2, Zenon
  <2>4. ViewTyped(W)
    <3>1. W.left # <<>>
      BY <2>1, <2>2, Zenon
    <3>2. W \in View
      OBVIOUS
    <3>3. QED BY <1>6, <3>1, <3>2, Zenon DEF ViewTyped
  <2>5. Lands(W)
    BY <1>6, <2>1, <2>2, <2>3, Zenon DEF Lands
  <2>6. QED BY <2>4, <2>5
<1>10. Linked(W)
  <2>1. Chain(r)
    <3> SUFFICES ASSUME NEW j \in 2 .. Len(r) PROVE r[j].from = To(r[j - 1])
      BY DEF Chain
    <3>1. /\ j \in 1 .. n - i /\ j - 1 \in 1 .. n - i /\ i + j \in 2 .. n
          /\ i + (j - 1) = (i + j) - 1
      BY <1>4, <1>8
    <3>2. r[j] = q[i + j] /\ r[j - 1] = q[(i + j) - 1]
      BY <1>8, <3>1
    <3>3. i + j \in 2 .. Len(q)
      BY <1>3, <3>1
    <3>4. QED BY <1>4, <3>2, <3>3 DEF Chain
  <2>2. ASSUME r # <<>> PROVE r[1].from = To(c)
    <3>1. 1 \in 1 .. n - i /\ i + 1 \in 2 .. n /\ (i + 1) - 1 = i
      BY <1>4, <1>8, <2>2
    <3>2. r[1] = q[i + 1] /\ i + 1 \in 2 .. Len(q)
      BY <1>3, <1>8, <3>1
    <3>3. QED BY <1>2, <1>4, <3>1, <3>2 DEF Chain
  <2>3. QED BY <1>6, <1>7, <2>1, <2>2 DEF Linked
<1>11. Ends(W) = o.cell
  <2>1. CASE r = <<>>
    <3>1. i = n
      BY <1>4, <1>8, <2>1
    <3>2. QED BY <1>2, <1>4, <1>6, <1>7, <2>1, <3>1 DEF Ends
  <2>2. CASE r # <<>>
    <3>1. n - i \in 1 .. n - i /\ i + (n - i) = n
      BY <1>4, <1>8, <2>2
    <3>2. LastOf(r) = q[n]
      BY <1>8, <3>1 DEF LastOf
    <3>3. QED BY <1>4, <1>7, <2>2, <3>2 DEF Ends
  <2>3. QED BY <2>1, <2>2
<1>12. Current(W, o)
  BY <1>5, <1>6, <1>11 DEF Current, Headed
<1>13. QED BY <1>1, <1>2, <1>6, <1>9, <1>10, <1>12 DEF ViewTrue

(* startNext keeps an animation true, starts nothing with reduced motion,  *)
(* and starts where the queue does.                                        *)
LEMMA StartNextTrue ==
  ASSUME NEW V \in View, NEW o \in Marks, Headed(V, o), NEW W, W = StartNext(V, o.key)
  PROVE  /\ W \in View /\ ViewTrue(W, o) /\ (reduced => W.run = None)
         /\ W.run # None => V.queue # <<>> /\ W.run.command.from = V.queue[1].from
         /\ W.run = None => W.cell = o.cell
<1>1. o.key \in Nat \X Nat
  BY DEF Marks
<1>2. W \in View /\ (Passed(V, W) \/ \E i \in DOMAIN V.queue : Started(V, W, o.key, i))
  BY <1>1, StartNextIs
<1>3. CASE Passed(V, W)
  <2>1. ViewTrue(W, o)
    BY <1>2, <1>3, PassedTrue
  <2>2. W.run = None /\ W.cell = o.cell
    BY <1>3 DEF Passed, Headed
  <2>3. QED BY <1>2, <2>1, <2>2
<1>4. ASSUME NEW i \in DOMAIN V.queue, Started(V, W, o.key, i)
      PROVE  /\ ViewTrue(W, o) /\ W.run # None /\ ~reduced
             /\ V.queue # <<>> /\ W.run.command.from = V.queue[1].from
  <2>1. ViewTrue(W, o) /\ W.run # None /\ W.run.command = V.queue[i]
    BY <1>2, <1>4, StartedTrue
  <2>2. ~reduced /\ \A j \in 1 .. i - 1 : Instant(V.queue[j])
    BY <1>4 DEF Started, Instant
  <2>3. PICK q : q = V.queue
    OBVIOUS
  <2>4. q \in Seq(Command) /\ Chain(q) /\ i \in DOMAIN q
    BY <1>4, <2>3, ViewType DEF Headed
  <2>5. \A j \in 1 .. i - 1 : Instant(q[j])
    BY <2>2, <2>3
  <2>6. q[i].from = q[1].from
    BY <2>2, <2>4, <2>5, InstantsStay
  <2>7. q # <<>>
    BY <2>4
  <2>8. QED BY <2>1, <2>2, <2>3, <2>6, <2>7
<1>5. QED BY <1>2, <1>3, <1>4

(* Commands that rise are none later than the last.                        *)
LEMMA LastIsLatest ==
  ASSUME NEW s \in Seq(Command), Rising(s), NEW i \in DOMAIN s
  PROVE  s[i].revision <= LastOf(s).revision
<1>1. PICK n \in Nat : n = Len(s)
  OBVIOUS
<1>2. DOMAIN s = 1 .. n /\ i \in 1 .. n /\ n - i \in Nat
  BY <1>1
<1>3. \A j \in 1 .. n : s[j].revision \in Nat
  BY <1>2, ToType
<1> DEFINE S == {k \in 0 .. n - i : s[i].revision <= s[i + k].revision}
<1>4. 0 \in S
  BY <1>2, <1>3
<1>5. ASSUME NEW k \in 0 .. (n - i) - 1, k \in S PROVE k + 1 \in S
  <2>1. /\ i + k + 1 \in 2 .. n /\ (i + k + 1) - 1 = i + k /\ i + k \in 1 .. n
        /\ i + k + 1 \in 1 .. n /\ k + 1 \in 0 .. n - i /\ i + (k + 1) = i + k + 1
    BY <1>2
  <2>2. s[i + k].revision < s[i + k + 1].revision
    BY <1>1, <2>1 DEF Rising
  <2>3. s[i].revision <= s[i + k].revision
    BY <1>5
  <2>4. s[i].revision <= s[i + k + 1].revision
    <3>1. /\ s[i].revision \in Nat /\ s[i + k].revision \in Nat
          /\ s[i + k + 1].revision \in Nat
      BY <1>2, <1>3, <2>1
    <3>2. \A x, y, z \in Nat : x <= y /\ y < z => x <= z
      OBVIOUS
    <3>3. QED BY <2>2, <2>3, <3>1, <3>2, Zenon
  <2>5. QED BY <2>1, <2>4
<1>6. n - i \in S
  <2> HIDE DEF S
  <2>1. \A k \in 0 .. (n - i) - 1 : k \in S => k + 1 \in S
    BY <1>5
  <2>2. 0 .. n - i \subseteq S
    BY <1>2, <1>4, <2>1, UpTo
  <2>3. QED BY <1>2, <2>2
<1>7. i + (n - i) = n
  BY <1>2
<1>8. QED BY <1>1, <1>6, <1>7 DEF LastOf

(* Two chains, the second from where the first ends, are one.              *)
LEMMA ChainsJoin ==
  ASSUME NEW s \in Seq(Command), NEW u \in Seq(Command), u # <<>>, Chain(s), Chain(u),
         s # <<>> => u[1].from = To(LastOf(s)), NEW q, q = s \o u
  PROVE  /\ q \in Seq(Command) /\ Chain(q) /\ q # <<>> /\ LastOf(q) = LastOf(u)
         /\ q[1] = IF s = <<>> THEN u[1] ELSE s[1]
<1>1. PICK m \in Nat, n \in Nat : m = Len(s) /\ n = Len(u)
  OBVIOUS
<1>2. /\ q \in Seq(Command) /\ Len(q) = m + n /\ n >= 1
      /\ \A i \in 1 .. m : q[i] = s[i]
      /\ \A i \in 1 .. n : q[m + i] = u[i]
  <2>1. n # 0
    BY <1>1
  <2>2. /\ q \in Seq(Command) /\ Len(q) = Len(s) + Len(u)
        /\ \A i \in 1 .. Len(s) : q[i] = s[i]
    OBVIOUS
  <2>3. \A i \in 1 .. n : q[m + i] = u[i]
    <3> TAKE i \in 1 .. n
    <3>1. m + i \in m + 1 .. m + n /\ (m + i) - m = i
      OBVIOUS
    <3>2. q[m + i] = u[(m + i) - m]
      BY <1>1, <3>1
    <3>3. QED BY <3>1, <3>2
  <2>4. QED BY <1>1, <2>1, <2>2, <2>3
<1>3. Chain(q)
  <2> SUFFICES ASSUME NEW i \in 2 .. m + n PROVE q[i].from = To(q[i - 1])
    BY <1>2 DEF Chain
  <2>1. CASE i <= m
    <3>1. i \in 2 .. Len(s) /\ i \in 1 .. m /\ i - 1 \in 1 .. m
      BY <1>1, <2>1
    <3>2. q[i] = s[i] /\ q[i - 1] = s[i - 1]
      BY <1>2, <3>1
    <3>3. QED BY <3>1, <3>2 DEF Chain
  <2>2. CASE i = m + 1
    <3>1. m \in 1 .. m /\ i - 1 = m /\ 1 \in 1 .. n /\ s # <<>>
      BY <1>1, <1>2, <2>2
    <3>2. q[m] = s[m] /\ q[m + 1] = u[1]
      BY <1>2, <3>1
    <3>3. s[m] = LastOf(s)
      BY <1>1 DEF LastOf
    <3>4. QED BY <2>2, <3>1, <3>2, <3>3
  <2>3. CASE i > m + 1
    <3>1. PICK j \in 2 .. n : i = m + j
      <4>1. i - m \in 2 .. n /\ i = m + (i - m)
        BY <2>3
      <4>2. QED BY <4>1
    <3>2. j \in 1 .. n /\ j - 1 \in 1 .. n /\ m + (j - 1) = i - 1
      BY <3>1
    <3>3. q[i] = u[j] /\ q[i - 1] = u[j - 1]
      BY <1>2, <3>1, <3>2
    <3>4. j \in 2 .. Len(u)
      BY <1>1
    <3>5. QED BY <3>3, <3>4 DEF Chain
  <2>4. i <= m \/ i = m + 1 \/ i > m + 1
    OBVIOUS
  <2>5. QED BY <2>1, <2>2, <2>3, <2>4, Zenon
<1>4. q # <<>> /\ LastOf(q) = LastOf(u)
  <2>1. n \in 1 .. n /\ m + n # 0
    BY <1>2
  <2>2. QED BY <1>1, <1>2, <2>1 DEF LastOf
<1>5. q[1] = IF s = <<>> THEN u[1] ELSE s[1]
  <2>1. CASE s = <<>>
    <3>1. m = 0 /\ 1 \in 1 .. n /\ m + 1 = 1
      BY <1>1, <1>2, <2>1
    <3>2. QED BY <1>2, <2>1, <3>1
  <2>2. CASE s # <<>>
    <3>1. 1 \in 1 .. m
      BY <1>1, <2>2
    <3>2. QED BY <1>2, <2>2, <3>1
  <2>3. QED BY <2>1, <2>2
<1>6. QED BY <1>2, <1>3, <1>4, <1>5

(* Commands none of which has been seen are all queued, and marked as seen.*)
LEMMA PlayIs ==
  ASSUME NEW V \in View, NEW u \in Seq(Command), \A i \in DOMAIN u : u[i].revision \notin V.seen,
         NEW key, NEW W, W = Play(V, u, key)
  PROVE  \E Q \in View :
           /\ Q.cell = V.cell /\ Q.run = V.run /\ Q.left = V.left
           /\ Q.queue = V.queue \o u
           /\ Q.seen = V.seen \cup {u[i].revision : i \in DOMAIN u}
           /\ W = IF Q.run = None THEN StartNext(Q, key) ELSE Q
<1>1. PICK I \in SUBSET (DOMAIN u) : I = {i \in DOMAIN u : u[i].revision \notin V.seen}
  OBVIOUS
<1>2. I = DOMAIN u
  BY <1>1
<1>3. Select(u, I) = u
  BY <1>2, SelectFacts
<1>4. PICK Q : Q = [V EXCEPT !.queue = V.queue \o u,
                             !.seen = V.seen \cup {u[i].revision : i \in DOMAIN u}]
  OBVIOUS
<1>5. W = IF Q.run = None THEN StartNext(Q, key) ELSE Q
  BY <1>1, <1>3, <1>4 DEF Play
<1>6. PICK q, s : q = V.queue \o u /\ s = V.seen \cup {u[i].revision : i \in DOMAIN u}
  OBVIOUS
<1>7. Q = [cell |-> V.cell, queue |-> q, run |-> V.run, left |-> V.left, seen |-> s]
  <2>1. V = [cell |-> V.cell, queue |-> V.queue, run |-> V.run, left |-> V.left,
             seen |-> V.seen]
    BY ViewType
  <2>2. Q = [V EXCEPT !.queue = q, !.seen = s]
    BY <1>4, <1>6
  <2>3. QED BY <2>1, <2>2
<1>8. q \in Seq(Command) /\ s \in SUBSET Nat
  <2>1. \A i \in DOMAIN u : u[i].revision \in Nat
    BY ToType
  <2>2. QED BY <1>6, <2>1, ViewType
<1>9. Q \in View
  BY <1>7, <1>8, ViewType DEF View, Timer
<1>10. Q.cell = V.cell /\ Q.run = V.run /\ Q.left = V.left /\ Q.queue = q /\ Q.seen = s
  BY <1>7
<1>11. QED BY <1>5, <1>6, <1>9, <1>10

(* Commands that are played continue the animation to where they end.  A   *)
(* view without a run may stand anywhere: it begins where they do.         *)
Continues(u, p, o) ==
  /\ u \in Seq(Command) /\ u # <<>> /\ Chain(u) /\ u[1].from = p.cell
  /\ \A i \in DOMAIN u : p.revision < u[i].revision /\ u[i].revision <= o.revision
  /\ o = [key |-> p.key, revision |-> o.revision, cell |-> To(LastOf(u))]

(* Play keeps an animation true: it runs on, or begins where the commands  *)
(* do.                                                                     *)
LEMMA PlayTrue ==
  ASSUME NEW V \in View, NEW p \in Marks, NEW o \in Marks, NEW u, Continues(u, p, o),
         V.run = None => V.queue = <<>>, V.run # None => ViewTrue(V, p),
         \A r \in V.seen : r <= p.revision, NEW W, W = Play(V, u, o.key)
  PROVE  /\ ViewTrue(W, o)
         /\ V.run # None => W.run = V.run /\ W.cell = V.cell
         /\ V.run = None => /\ reduced => W.run = None
                            /\ W.run # None => W.run.command.from = p.cell
                            /\ W.run = None => W.cell = o.cell
<1>1. /\ u \in Seq(Command) /\ u # <<>> /\ Chain(u) /\ u[1].from = p.cell
      /\ \A i \in DOMAIN u : p.revision < u[i].revision /\ u[i].revision <= o.revision
      /\ o.key = p.key /\ o.cell = To(LastOf(u))
  BY DEF Continues
<1>2. p.revision \in Nat /\ o.revision \in Nat /\ V.seen \in SUBSET Nat
      /\ \A i \in DOMAIN u : u[i].revision \in Nat
  BY <1>1, ViewType, ToType DEF Marks
<1>3. \A i \in DOMAIN u : u[i].revision \notin V.seen
  BY <1>1, <1>2
<1>4. PICK Q \in View :
        /\ Q.cell = V.cell /\ Q.run = V.run /\ Q.left = V.left
        /\ Q.queue = V.queue \o u
        /\ Q.seen = V.seen \cup {u[i].revision : i \in DOMAIN u}
        /\ W = IF Q.run = None THEN StartNext(Q, o.key) ELSE Q
  BY <1>1, <1>3, PlayIs
<1>5. \A r \in Q.seen : r <= o.revision
  <2>1. \E i \in DOMAIN u : TRUE
    BY <1>1
  <2>2. p.revision <= o.revision
    BY <1>1, <1>2, <2>1
  <2>3. ASSUME NEW r \in V.seen PROVE r <= o.revision
    BY <1>2, <2>2
  <2>4. QED BY <1>1, <1>4, <2>3
<1>6. PICK q, s : q = Q.queue /\ s = V.queue
  OBVIOUS
<1>7. s \in Seq(Command) /\ q = s \o u
  BY <1>4, <1>6, ViewType
<1>8. CASE V.run = None
  <2>1. s = <<>> /\ q = u
    BY <1>1, <1>6, <1>7, <1>8
  <2>2. Headed(Q, o)
    BY <1>1, <1>5, <1>6, <2>1 DEF Headed
  <2>3. W = StartNext(Q, o.key)
    BY <1>4, <1>8
  <2>4. /\ ViewTrue(W, o) /\ (reduced => W.run = None)
        /\ W.run # None => W.run.command.from = Q.queue[1].from
        /\ W.run = None => W.cell = o.cell
    BY <2>2, <2>3, StartNextTrue
  <2>5. QED BY <1>1, <1>6, <1>8, <2>1, <2>4
<1>9. CASE V.run # None
  <2>1. W = Q /\ Linked(V) /\ Lands(V) /\ Current(V, p) /\ ViewTyped(V)
    BY <1>4, <1>9 DEF ViewTrue
  <2>2. Chain(s) /\ (s # <<>> => s[1].from = To(V.run.command))
    BY <1>6, <2>1 DEF Linked
  <2>3. u[1].from = IF s # <<>> THEN To(LastOf(s)) ELSE To(V.run.command)
    BY <1>1, <1>6, <1>9, <2>1 DEF Current, Ends
  <2>4. /\ Chain(q) /\ q # <<>> /\ LastOf(q) = LastOf(u)
        /\ q[1] = IF s = <<>> THEN u[1] ELSE s[1]
    BY <1>1, <1>7, <2>2, <2>3, ChainsJoin
  <2>5. Linked(Q)
    BY <1>4, <1>6, <1>9, <2>2, <2>3, <2>4 DEF Linked
  <2>6. ViewTyped(Q) /\ Lands(Q)
    BY <1>4, <2>1 DEF ViewTyped, Lands
  <2>7. Current(Q, o)
    BY <1>1, <1>4, <1>5, <1>6, <1>9, <2>1, <2>4 DEF Current, Ends
  <2>8. ViewTrue(W, o)
    BY <2>1, <2>5, <2>6, <2>7 DEF ViewTrue
  <2>9. QED BY <1>4, <1>9, <2>1, <2>8
<1>10. QED BY <1>8, <1>9

(* A pawn that is put down keeps nothing of its animation.                 *)
LEMMA CancelTrue ==
  ASSUME NEW V \in View, NEW o \in Marks, \A r \in V.seen : r <= o.revision,
         NEW W, W = Cancel(V, o.cell)
  PROVE  W \in View /\ ViewTrue(W, o) /\ W.run = None /\ W.cell = o.cell /\ W.seen = V.seen
         /\ W.queue = <<>> /\ W.left = <<>>
<1>1. o.cell \in Cell
  BY DEF Marks
<1>2. V = [cell |-> V.cell, queue |-> V.queue, run |-> V.run, left |-> V.left, seen |-> V.seen]
  BY ViewType
<1>3. W = [V EXCEPT !.cell = o.cell, !.queue = <<>>, !.run = None, !.left = <<>>]
  BY DEF Cancel
<1>4. W = [cell |-> o.cell, queue |-> <<>>, run |-> None, left |-> <<>>, seen |-> V.seen]
  BY <1>2, <1>3
<1>5. W \in View
  BY <1>1, <1>4, ViewType DEF View
<1>6. /\ W.run = None /\ W.cell = o.cell /\ W.seen = V.seen
      /\ W.queue = <<>> /\ W.left = <<>>
  BY <1>4
<1>7. Chain(<<>>)
  BY DEF Chain
<1>8. ViewTrue(W, o)
  BY <1>5, <1>6, <1>7 DEF ViewTrue, ViewTyped, Linked, Lands, Current, Ends
<1>9. QED BY <1>5, <1>6, <1>8

(* What a timer makes of a view.                                           *)
Ticked(V) ==
  LET at == Head(V.left)
      U  == [V EXCEPT !.left = Tail(@)]
  IN IF at.event = "idle" THEN StartNext([U EXCEPT !.run = None], V.run.key)
     ELSE [U EXCEPT !.cell = at.cell]

(* A timer: the pawn steps on, or the run ends where its command does and  *)
(* the next one begins there.                                              *)
LEMMA TickTrue ==
  ASSUME NEW V \in View, NEW o \in Marks, ViewTrue(V, o), V.left # <<>>,
         NEW at, at = Head(V.left), NEW W, W = Ticked(V)
  PROVE  /\ W \in View /\ ViewTrue(W, o) /\ V.run # None
         /\ W.run # None /\ W.run # V.run => W.run.command.from = V.cell
<1>1. PICK l : l = V.left
  OBVIOUS
<1>2. PICK n \in Nat : n = Len(l)
  BY <1>1, ViewType
<1>3. /\ l \in Seq(Timer) /\ l # <<>> /\ n >= 1 /\ DOMAIN l = 1 .. n /\ at = l[1]
      /\ at \in Timer /\ at.cell \in Cell
  <2>1. l \in Seq(Timer) /\ l # <<>> /\ at = l[1] /\ DOMAIN l = 1 .. n
    BY <1>1, <1>2, ViewType
  <2>2. n # 0
    BY <1>2, <2>1
  <2>3. at \in Timer
    BY <2>1, <2>2
  <2>4. QED BY <2>1, <2>2, <2>3 DEF Timer
<1>4. PICK t : t = Tail(l)
  OBVIOUS
<1>5. t \in Seq(Timer) /\ Len(t) = n - 1 /\ \A i \in 1 .. n - 1 : t[i] = l[i + 1]
  BY <1>2, <1>3, <1>4
<1>6. /\ V.run # None /\ Linked(V) /\ Current(V, o)
      /\ \A i \in 1 .. n : (l[i].event = "idle") <=> (i = n)
      /\ IF n = 1 THEN V.cell = To(V.run.command) ELSE l[n - 1].cell = To(V.run.command)
  <2>1. V.run # None /\ Linked(V) /\ Current(V, o) /\ Lands(V)
    BY DEF ViewTrue, ViewTyped
  <2>2. /\ \A i \in DOMAIN V.left : (V.left[i].event = "idle") <=> (i = Len(V.left))
        /\ IF Len(V.left) = 1 THEN V.cell = To(V.run.command)
           ELSE V.left[Len(V.left) - 1].cell = To(V.run.command)
    BY <2>1, Zenon DEF Lands
  <2>3. QED BY <1>1, <1>2, <1>3, <2>1, <2>2
<1>7. V = [cell |-> V.cell, queue |-> V.queue, run |-> V.run, left |-> l, seen |-> V.seen]
  BY <1>1, ViewType
<1>8. CASE at.event = "idle"
  <2>1. n = 1 /\ V.cell = To(V.run.command)
    BY <1>3, <1>6, <1>8
  <2>2. PICK U : U = [[V EXCEPT !.left = Tail(@)] EXCEPT !.run = None]
    OBVIOUS
  <2>3. U = [cell |-> V.cell, queue |-> V.queue, run |-> None, left |-> t, seen |-> V.seen]
    <3>1. U = [[V EXCEPT !.left = t] EXCEPT !.run = None]
      BY <1>1, <1>4, <2>2
    <3>2. QED BY <1>7, <3>1
  <2>4. U \in View /\ U.queue = V.queue /\ U.cell = V.cell /\ U.seen = V.seen
    BY <1>5, <2>3, ViewType DEF View, Timer
  <2>5. Headed(U, o)
    BY <1>6, <2>1, <2>4 DEF Headed, Linked, Current, Ends
  <2>6. W = StartNext(U, o.key)
    <3>1. W = StartNext(U, V.run.key)
      BY <1>8, <2>2 DEF Ticked
    <3>2. QED BY <1>6, <3>1 DEF Current
  <2>7. /\ W \in View /\ ViewTrue(W, o)
        /\ W.run # None => U.queue # <<>> /\ W.run.command.from = U.queue[1].from
    BY <2>4, <2>5, <2>6, StartNextTrue
  <2>8. W.run # None => W.run.command.from = V.cell
    BY <1>6, <2>1, <2>4, <2>7 DEF Linked
  <2>9. QED BY <1>6, <2>7, <2>8
<1>9. CASE at.event # "idle"
  <2>1. n # 1 /\ n - 1 >= 1 /\ n - 1 \in Nat
    BY <1>3, <1>6, <1>9
  <2>2. W = [[V EXCEPT !.left = Tail(@)] EXCEPT !.cell = at.cell]
    BY <1>9 DEF Ticked
  <2>3. W = [cell |-> at.cell, queue |-> V.queue, run |-> V.run, left |-> t, seen |-> V.seen]
    <3>1. W = [[V EXCEPT !.left = t] EXCEPT !.cell = at.cell]
      BY <1>1, <1>4, <2>2
    <3>2. QED BY <1>7, <3>1
  <2>4. /\ W \in View /\ W.queue = V.queue /\ W.cell = at.cell /\ W.seen = V.seen
        /\ W.run = V.run /\ W.left = t
    <3>1. PICK c, q, r, k : c \in Cell /\ c = at.cell /\ q = V.queue /\ r = V.run /\ k = V.seen
      BY <1>3
    <3>2. W = [cell |-> c, queue |-> q, run |-> r, left |-> t, seen |-> k]
      BY <2>3, <3>1
    <3>3. W \in View
      BY <1>5, <3>1, <3>2, ViewType DEF View, Timer
    <3>4. W.queue = q /\ W.cell = c /\ W.seen = k /\ W.run = r /\ W.left = t
      BY <3>2
    <3>5. QED BY <3>1, <3>3, <3>4
  <2>5. t # <<>>
    BY <1>5, <2>1
  <2>6. ViewTyped(W)
    BY <1>6, <2>4, <2>5 DEF ViewTyped
  <2>7. \A i \in DOMAIN t : (t[i].event = "idle") <=> (i = Len(t))
    <3>1. DOMAIN t = 1 .. n - 1
      BY <1>5
    <3>2. TAKE i \in DOMAIN t
    <3>3. i \in 1 .. n - 1 /\ i + 1 \in 1 .. n /\ (i = n - 1 <=> i + 1 = n)
      BY <1>2, <3>1
    <3>4. QED BY <1>5, <1>6, <3>3
  <2>8. IF Len(t) = 1 THEN W.cell = To(W.run.command)
        ELSE t[Len(t) - 1].cell = To(W.run.command)
    <3>1. CASE n = 2
      <4>1. Len(t) = 1 /\ n - 1 = 1
        BY <1>5, <3>1
      <4>2. l[1].cell = To(V.run.command)
        BY <1>6, <2>1, <4>1
      <4>3. QED BY <1>3, <2>4, <4>1, <4>2
    <3>2. CASE n # 2
      <4>1. n - 2 \in 1 .. n - 1 /\ (n - 2) + 1 = n - 1 /\ (n - 1) - 1 = n - 2 /\ n - 1 # 1
        BY <2>1, <3>2
      <4>2. t[n - 2].cell = To(V.run.command)
        BY <1>5, <1>6, <2>1, <4>1
      <4>3. QED BY <1>5, <2>4, <4>1, <4>2
    <3>3. QED BY <3>1, <3>2
  <2>9. Lands(W)
    BY <2>4, <2>7, <2>8, Zenon DEF Lands
  <2>10. Linked(W) /\ Current(W, o)
    BY <1>6, <2>4 DEF Linked, Current, Ends
  <2>11. ViewTrue(W, o)
    BY <2>6, <2>9, <2>10 DEF ViewTrue
  <2>12. QED BY <1>6, <2>4, <2>11
<1>10. QED BY <1>8, <1>9

(* --------------------------- The effects of a render --------------------- *)
(* A new presentation begins with nothing seen.                            *)
LEMMA ResetTrue ==
  ASSUME NEW V \in View, NEW o \in Marks, NEW W, W = [Cancel(V, o.cell) EXCEPT !.seen = {}]
  PROVE  ViewTrue(W, o) /\ W.run = None /\ W.cell = o.cell
<1>1. o.cell \in Cell
  BY DEF Marks
<1>2. V = [cell |-> V.cell, queue |-> V.queue, run |-> V.run, left |-> V.left, seen |-> V.seen]
  BY ViewType
<1>3. PICK U : U = Cancel(V, o.cell)
  OBVIOUS
<1>4. U = [V EXCEPT !.cell = o.cell, !.queue = <<>>, !.run = None, !.left = <<>>]
  BY <1>3 DEF Cancel
<1>5. U = [cell |-> o.cell, queue |-> <<>>, run |-> None, left |-> <<>>, seen |-> V.seen]
  BY <1>2, <1>4
<1>6. W = [U EXCEPT !.seen = {}]
  BY <1>3
<1>7. W = [cell |-> o.cell, queue |-> <<>>, run |-> None, left |-> <<>>, seen |-> {}]
  BY <1>5, <1>6
<1>8. W \in View
  <2>1. ASSUME NEW c \in Cell
        PROVE  [cell |-> c, queue |-> <<>>, run |-> None, left |-> <<>>, seen |-> {}] \in View
    BY DEF View
  <2>2. QED BY <1>1, <1>7, <2>1, Zenon
<1>9. W.run = None /\ W.cell = o.cell /\ W.seen = {} /\ W.queue = <<>> /\ W.left = <<>>
  BY <1>7
<1>10. Chain(<<>>)
  BY DEF Chain
<1>11. ViewTrue(W, o)
  BY <1>8, <1>9, <1>10 DEF ViewTrue, ViewTyped, Linked, Lands, Current, Ends
<1>12. QED BY <1>9, <1>11

(* What the page plays are the commands it has not counted as shown, and   *)
(* if there are any, the newest is among them.                             *)
LEMMA UnseenFacts ==
  ASSUME PageInv
  PROVE  /\ Unseen \in Seq(Command)
         /\ \A i \in DOMAIN Unseen : /\ observed.revision < Unseen[i].revision
                                     /\ Unseen[i].revision <= Newest(Shown)
         /\ Unseen # <<>> => /\ Shown.commands # <<>> /\ LastOf(Unseen) = LastOf(Shown.commands)
                             /\ observed.revision <= Newest(Shown)
         /\ Unseen = <<>> =>
              \A i \in DOMAIN Shown.commands : Shown.commands[i].revision <= observed.revision
<1>1. PICK s : s = Shown.commands
  OBVIOUS
<1>2. /\ s \in Seq(Command) /\ Rising(s) /\ Len(s) \in Nat /\ DOMAIN s = 1 .. Len(s)
      /\ \A i \in DOMAIN s : s[i].revision \in Nat
      /\ observed.revision \in Nat
  BY <1>1, GamesHeld, GameType DEF PageInv, GamesLawful, Lawful, Marks
<1>3. PICK I \in SUBSET (DOMAIN s) : I = {i \in DOMAIN s : s[i].revision > observed.revision}
  OBVIOUS
<1>4. PICK u : u = Unseen
  OBVIOUS
<1>5. u = Select(s, I)
  BY <1>1, <1>3, <1>4 DEF Unseen
<1>6. /\ u \in Seq(Command)
      /\ \A i \in DOMAIN u : \E j \in I : u[i] = s[j]
      /\ u = <<>> <=> I = {}
      /\ Len(s) \in I => LastOf(u) = LastOf(s)
  BY <1>2, <1>5, SelectFacts
<1>7. \A j \in I : s[j].revision > observed.revision /\ s[j].revision <= LastOf(s).revision
  BY <1>2, <1>3, LastIsLatest
<1>8. \A j \in I : Newest(Shown) = LastOf(s).revision /\ s # <<>> /\ Len(s) \in DOMAIN s
  <2> TAKE j \in I
  <2>1. s # <<>>
    BY <1>3
  <2>2. QED BY <1>1, <1>2, <2>1 DEF Newest
<1>9. \A i \in DOMAIN u : observed.revision < u[i].revision /\ u[i].revision <= Newest(Shown)
  <2> TAKE i \in DOMAIN u
  <2>1. PICK j \in I : u[i] = s[j]
    BY <1>6
  <2>2. QED BY <1>7, <1>8, <2>1
<1>10. ASSUME u # <<>>
       PROVE  s # <<>> /\ LastOf(u) = LastOf(s) /\ observed.revision <= Newest(Shown)
  <2>1. PICK j \in I : TRUE
    BY <1>6, <1>10
  <2>2. /\ s[j].revision > observed.revision /\ s[j].revision <= LastOf(s).revision
        /\ Newest(Shown) = LastOf(s).revision /\ s # <<>> /\ Len(s) \in DOMAIN s
    BY <1>7, <1>8
  <2>3. s[j].revision \in Nat /\ LastOf(s).revision \in Nat /\ LastOf(s) = s[Len(s)]
    BY <1>2, <2>2 DEF LastOf
  <2>4. \A x, y, z \in Nat : x > y /\ x <= z => z > y /\ y <= z
    OBVIOUS
  <2>5. LastOf(s).revision > observed.revision /\ observed.revision <= LastOf(s).revision
    BY <1>2, <2>2, <2>3, <2>4, Zenon
  <2>6. Len(s) \in I
    BY <1>3, <2>2, <2>3, <2>5
  <2>7. QED BY <1>6, <2>2, <2>5, <2>6
<1>11. ASSUME u = <<>> PROVE \A i \in DOMAIN s : s[i].revision <= observed.revision
  <2>1. I = {}
    BY <1>6, <1>11
  <2>2. TAKE i \in DOMAIN s
  <2>3. ~ (s[i].revision > observed.revision)
    BY <1>3, <2>1
  <2>4. QED BY <1>2, <2>3
<1>12. QED BY <1>1, <1>4, <1>6, <1>9, <1>10, <1>11

(* A pawn that rests stands where the animation ends.                      *)
LEMMA RestsAt ==
  ASSUME NEW V, NEW o, ViewTrue(V, o), V.run = None
  PROVE  V.cell = o.cell /\ V.queue = <<>>
BY DEF ViewTrue, Linked, Current, Ends

(* What the hook leaves: nothing of an earlier presentation, and within one*)
(* what was there, a pawn that rests perhaps put elsewhere.                *)
LEMMA SyncedIs ==
  ASSUME PageInv, NEW V, V = Synced
  PROVE  /\ rendered.key # Key(Shown) =>
              /\ V \in View /\ V.run = None
              /\ \A o \in Marks : o.cell = Shown.cell => ViewTrue(V, o)
         /\ rendered.key = Key(Shown) =>
              \/ V = view
              \/ /\ view.run = None /\ rendered.cell # Shown.cell
                 /\ V = Cancel(view, Shown.cell)
<1>1. view \in View /\ Shown \in Game
  BY GamesHeld DEF PageInv, ViewTrue, ViewTyped
<1>2. CASE rendered.key # Key(Shown)
  <2>1. V = [Cancel(view, Shown.cell) EXCEPT !.seen = {}]
    BY <1>2 DEF Synced, NewPresentation
  <2>2. Mark(Shown) \in Marks /\ Mark(Shown).cell = Shown.cell
    BY <1>1, MarkType
  <2>3. ASSUME NEW o \in Marks, o.cell = Shown.cell PROVE ViewTrue(V, o) /\ V.run = None
    <3>1. V = [Cancel(view, o.cell) EXCEPT !.seen = {}]
      BY <2>1, <2>3
    <3>2. QED BY <1>1, <3>1, ResetTrue
  <2>4. ViewTrue(V, Mark(Shown)) /\ V.run = None
    BY <2>2, <2>3
  <2>5. V \in View
    BY <2>4 DEF ViewTrue, ViewTyped
  <2>6. QED BY <1>2, <2>3, <2>4, <2>5
<1>3. CASE rendered.key = Key(Shown)
  <2>1. V = IF /\ rendered.cell # Shown.cell /\ view.run = None /\ view.queue = <<>>
               /\ view.cell # Shown.cell
            THEN Cancel(view, Shown.cell) ELSE view
    BY <1>3 DEF Synced, NewPresentation
  <2>2. QED BY <1>3, <2>1
<1>4. QED BY <1>2, <1>3

(* What a render makes of what the page counts as shown and of its view.   *)
Renders(o, W) ==
  /\ o \in Marks /\ o.key = Key(Shown) /\ o.cell = Shown.cell
  /\ o \in {observed, Mark(Shown)} \/ (Shown = NoGame /\ o = Unobserved)
  /\ ViewTrue(W, o) /\ (reduced => W.run = None)
  /\ W.run # None /\ W.run # view.run => W.run.command.from = view.cell

(* Without a game, or with a new presentation: nothing is animated.        *)
LEMMA AnewRenders ==
  ASSUME PageInv, NEW o \in Marks, o.key = Key(Shown), o.cell = Shown.cell,
         o = Mark(Shown) \/ (Shown = NoGame /\ o = Unobserved),
         observed.key # Key(Shown), NEW W, W = Synced
  PROVE  Renders(o, W)
<1>1. rendered.key # Key(Shown)
  BY DEF PageInv, RenderedObserved
<1>2. ViewTrue(W, o) /\ W.run = None
  BY <1>1, SyncedIs
<1>3. QED BY <1>2 DEF Renders

(* Nothing new: the page keeps what it counts as shown, and its view.      *)
LEMMA NothingNewRenders ==
  ASSUME PageInv, observed.key = Key(Shown), observed.cell = Shown.cell, NEW W, W = Synced
  PROVE  Renders(observed, W)
<1>1. rendered.key = Key(Shown) /\ rendered.cell = Shown.cell
  BY DEF PageInv, RenderedObserved
<1>2. W = view
  BY <1>1, SyncedIs
<1>3. observed \in Marks /\ ViewTrue(view, observed) /\ (reduced => view.run = None)
  BY GamesHeld DEF PageInv
<1>4. QED BY <1>2, <1>3 DEF Renders

(* Commands that do not continue what the page counts as shown: the pawn is*)
(* put where the game has it, and all of them count as shown.              *)
LEMMA UnchainedRenders ==
  ASSUME PageInv, observed.key = Key(Shown), Unseen # <<>>, NEW W, W = Cancel(Synced, Shown.cell)
  PROVE  Renders(Mark(Shown), W)
<1>1. PICK V : V = Synced
  OBVIOUS
<1>2. /\ view \in View /\ Shown \in Game /\ ViewTrue(view, observed)
      /\ \A r \in view.seen : r <= observed.revision
      /\ observed \in Marks
  BY GamesHeld DEF PageInv, ViewTrue, ViewTyped, Current
<1>3. PICK o \in Marks : o = Mark(Shown) /\ o.key = Key(Shown) /\ o.cell = Shown.cell
                         /\ o.revision = Newest(Shown)
  BY <1>2, MarkType
<1>4. observed.revision <= o.revision
  BY <1>3, UnseenFacts
<1>5. V = view \/ V = Cancel(view, o.cell)
  <2>1. rendered.key = Key(Shown)
    BY DEF PageInv, RenderedObserved
  <2>2. QED BY <1>1, <1>3, <2>1, SyncedIs
<1>6. \A r \in view.seen : r <= o.revision
  <2>1. observed.revision \in Nat /\ o.revision \in Nat /\ view.seen \in SUBSET Nat
    BY <1>2, ViewType DEF Marks
  <2>2. QED BY <1>2, <1>4, <2>1
<1>7. V \in View /\ V.seen = view.seen
  <2>1. CASE V = view
    BY <1>2, <2>1
  <2>2. CASE V = Cancel(view, o.cell)
    BY <1>2, <1>6, <2>2, CancelTrue
  <2>3. QED BY <1>5, <2>1, <2>2
<1>8. W = Cancel(V, o.cell)
  BY <1>1, <1>3
<1>9. \A r \in V.seen : r <= o.revision
  BY <1>6, <1>7
<1>10. ViewTrue(W, o) /\ W.run = None
  BY <1>7, <1>8, <1>9, CancelTrue
<1>11. QED BY <1>3, <1>10 DEF Renders

(* Commands that continue it are played, and count as shown.               *)
LEMMA ChainedRenders ==
  ASSUME PageInv, observed.key = Key(Shown), Chained(Unseen), Unseen # <<>>, NEW o,
         o = Observed(Unseen[Len(Unseen)].revision, To(Unseen[Len(Unseen)])),
         NEW W, W = Play(Synced, Unseen, Key(Shown))
  PROVE  Renders(o, W)
<1>1. PICK V, u : V = Synced /\ u = Unseen
  OBVIOUS
<1>2. /\ view \in View /\ Shown \in Game /\ ViewTrue(view, observed) /\ Lawful(Shown)
      /\ \A r \in view.seen : r <= observed.revision
      /\ observed \in Marks /\ (reduced => view.run = None)
  BY GamesHeld DEF PageInv, GamesLawful, ViewTrue, ViewTyped, Current
<1>3. /\ u \in Seq(Command) /\ u # <<>>
      /\ \A i \in DOMAIN u : observed.revision < u[i].revision /\ u[i].revision <= Newest(Shown)
      /\ Shown.commands # <<>> /\ LastOf(u) = LastOf(Shown.commands)
  BY <1>1, UnseenFacts
<1>4. o = Mark(Shown) /\ o.cell = To(LastOf(u))
  <2>1. o = [key |-> Key(Shown), revision |-> LastOf(u).revision, cell |-> To(LastOf(u))]
    BY <1>1 DEF Observed, LastOf
  <2>2. Shown.cell = To(LastOf(u)) /\ Newest(Shown) = LastOf(u).revision
    BY <1>2, <1>3 DEF Lawful, Newest
  <2>3. QED BY <2>1, <2>2 DEF Mark
<1>5. o \in Marks /\ o.key = Key(Shown) /\ o.cell = Shown.cell /\ o.revision = Newest(Shown)
  BY <1>2, <1>4, MarkType
<1>6. PICK n \in Nat : n = Len(u)
  BY <1>3
<1>7. DOMAIN u = 1 .. n /\ n >= 1
  BY <1>3, <1>6
<1>8. Continues(u, observed, o)
  <2>1. \A i \in 1 .. n : u[i].from = IF i = 1 THEN observed.cell ELSE To(u[i - 1])
    BY <1>1, <1>7 DEF Chained
  <2>2. u[1].from = observed.cell /\ Chain(u)
    BY <1>6, <1>7, <2>1 DEF Chain
  <2>3. o = [key |-> observed.key, revision |-> o.revision, cell |-> To(LastOf(u))]
    BY <1>4, <1>5 DEF Marks
  <2>4. QED BY <1>3, <1>5, <2>2, <2>3 DEF Continues
<1>9. /\ V \in View /\ V.seen = view.seen /\ V.run = view.run
      /\ V.run = None => V.queue = <<>>
      /\ V.run # None => V = view
  <2>1. V = view \/ (view.run = None /\ V = Cancel(view, Shown.cell))
    <3>1. rendered.key = Key(Shown)
      BY DEF PageInv, RenderedObserved
    <3>2. QED BY <1>1, <3>1, SyncedIs
  <2>2. CASE V = view
    BY <1>2, <2>2, RestsAt
  <2>3. CASE view.run = None /\ V = Cancel(view, Shown.cell)
    <3>1. PICK p : p = [o EXCEPT !.revision = observed.revision]
      OBVIOUS
    <3>2. p \in Marks /\ p.cell = Shown.cell /\ p.revision = observed.revision
      BY <1>2, <1>5, <3>1 DEF Marks
    <3>3. /\ V = Cancel(view, p.cell)
          /\ \A r \in view.seen : r <= p.revision
      BY <1>2, <2>3, <3>2
    <3>4. V \in View /\ V.run = None /\ V.seen = view.seen /\ V.queue = <<>>
      BY <1>2, <3>2, <3>3, CancelTrue
    <3>5. QED BY <2>3, <3>4
  <2>4. QED BY <2>1, <2>2, <2>3
<1>10. W = Play(V, u, o.key)
  BY <1>1, <1>5
<1>11. /\ V.run # None => ViewTrue(V, observed)
       /\ \A r \in V.seen : r <= observed.revision
  BY <1>2, <1>9
<1>12. /\ ViewTrue(W, o)
       /\ V.run # None => W.run = V.run /\ W.cell = V.cell
       /\ V.run = None => /\ reduced => W.run = None
                          /\ W.run # None => W.run.command.from = observed.cell
  BY <1>2, <1>5, <1>8, <1>9, <1>10, <1>11, PlayTrue
<1>13. ASSUME V.run = None PROVE view.cell = observed.cell
  BY <1>2, <1>9, <1>13, RestsAt
<1>14. QED BY <1>2, <1>4, <1>5, <1>9, <1>12, <1>13 DEF Renders

(* Every render.                                                           *)
LEMMA EffectsRender ==
  ASSUME PageInv, Effects
  PROVE  Renders(observed', view')
<1>1. /\ Shown \in Game /\ observed \in Marks /\ Mark(Shown) \in Marks
      /\ Lawful(Shown) /\ Knows(observed, Shown)
      /\ Mark(Shown).key = Key(Shown) /\ Mark(Shown).cell = Shown.cell
  BY GamesHeld, MarkType DEF PageInv, GamesLawful, GamesOrdered
<1>2. Observed(LastRevision, Shown.cell) = Mark(Shown)
  BY DEF Observed, LastRevision, Mark, Newest, LastOf
<1>3. CASE Shown = NoGame
  <2>1. observed' = Unobserved /\ view' = Synced
    BY <1>3 DEF Effects
  <2>2. Key(Shown) = <<0, 0>> /\ Unobserved.cell = Shown.cell
    BY <1>3, NoGameType DEF Unobserved, NoGame
  <2>3. CASE observed.key # Key(Shown)
    BY <1>3, <2>1, <2>2, <2>3, StillTrue, AnewRenders
  <2>4. CASE observed.key = Key(Shown)
    <3>1. observed = Unobserved
      BY <2>2, <2>4 DEF PageInv, RenderedObserved
    <3>2. QED BY <2>1, <2>2, <2>4, <3>1, NothingNewRenders
  <2>5. QED BY <2>3, <2>4
<1>4. CASE Shown # NoGame /\ observed.key # Key(Shown)
  <2>1. observed' = Mark(Shown) /\ view' = Synced
    BY <1>2, <1>4 DEF Effects
  <2>2. QED BY <1>1, <1>4, <2>1, AnewRenders
<1>5. CASE Shown # NoGame /\ observed.key = Key(Shown) /\ ~Chained(Unseen)
  <2>1. observed' = Mark(Shown) /\ view' = Cancel(Synced, Shown.cell)
    BY <1>2, <1>5 DEF Effects
  <2>2. Unseen # <<>>
    BY <1>5 DEF Chained
  <2>3. QED BY <1>5, <2>1, <2>2, UnchainedRenders
<1>6. CASE Shown # NoGame /\ observed.key = Key(Shown) /\ Chained(Unseen) /\ Unseen = <<>>
  <2>1. observed' = observed /\ view' = Synced
    BY <1>6 DEF Effects
  <2>2. Shown.cell = observed.cell
    BY <1>1, <1>6, UnseenFacts DEF Knows
  <2>3. QED BY <1>6, <2>1, <2>2, NothingNewRenders
<1>7. CASE Shown # NoGame /\ observed.key = Key(Shown) /\ Chained(Unseen) /\ Unseen # <<>>
  <2>1. /\ observed' = Observed(Unseen[Len(Unseen)].revision, To(Unseen[Len(Unseen)]))
        /\ view' = Play(Synced, Unseen, Key(Shown))
    BY <1>7 DEF Effects
  <2>2. QED BY <1>7, <2>1, ChainedRenders
<1>8. QED BY <1>3, <1>4, <1>5, <1>6, <1>7

(* After a render the page counts what it has as shown.                    *)
LEMMA EffectsKeep ==
  ASSUME PageInv, Effects
  PROVE  PageInv'
<1>1. /\ UNCHANGED <<game, games, layout, unsent, token, retired, address, socket, answer>>
      /\ UNCHANGED <<accepted, reduced, rare>>
      /\ due' = FALSE /\ rendered' = [key |-> Key(Shown), cell |-> Shown.cell]
  BY DEF Effects, server, link
<1>2. Renders(observed', view')
  BY EffectsRender
<1>3. PageTypeOK /\ Shown \in Game /\ games \in Nat
  BY GamesHeld DEF PageInv
<1>4. Shown' = Shown /\ Answered' = Answered
  BY <1>1 DEF Shown, Answered
<1>5. /\ observed' \in Marks /\ observed'.key = Key(Shown) /\ observed'.cell = Shown.cell
      /\ ViewTrue(view', observed') /\ (reduced => view'.run = None)
  BY <1>2 DEF Renders
<1>6. PageTypeOK'
  <2>1. rendered' \in [key : Nat \X Nat, cell : Cell]
    BY <1>1, <1>3, GameType
  <2>2. observed' \in [key : Nat \X Nat, revision : Nat, cell : Cell]
    BY <1>5 DEF Marks
  <2>3. view' \in View /\ (view'.run = None <=> view'.left = <<>>)
    BY <1>5 DEF ViewTrue, ViewTyped
  <2>4. QED BY <1>1, <1>3, <2>1, <2>2, <2>3 DEF PageTypeOK
<1>7. GamesLawful' /\ GamesNumbered'
  <2>1. observed'.key[1] = Shown.id
    BY <1>3, <1>5, GameType
  <2>2. QED BY <1>1, <1>4, <2>1 DEF PageInv, GamesLawful, GamesNumbered
<1>8. GamesOrdered'
  <2>1. Mark(Shown)' = Mark(Shown) /\ Mark(Answered)' = Mark(Answered)
    BY <1>1, <1>4 DEF Mark, Key, Newest, LastOf
  <2>2. /\ Knows(Unobserved, game) /\ Knows(Unobserved, Answered)
        /\ Knows(Unobserved, Shown)
    BY GamesHeld, StillTrue, NothingKnows DEF PageInv, GamesLawful
  <2>3. Knows(Mark(Shown), Shown)
    BY <1>3, MarkKnows DEF PageInv, GamesLawful
  <2>4. /\ Knows(observed', game) /\ Knows(observed', Answered) /\ Knows(observed', Shown)
    <3>1. observed' \in {observed, Mark(Shown), Unobserved}
      BY <1>2 DEF Renders
    <3>2. QED BY <2>2, <2>3, <3>1 DEF PageInv, GamesOrdered
  <2>5. QED BY <1>1, <1>4, <2>1, <2>4 DEF GamesOrdered, PageInv, Knows, Key
<1>9. RenderedObserved' /\ RenderedShown'
  <2>1. rendered' = [key |-> observed'.key, cell |-> observed'.cell]
    BY <1>1, <1>5
  <2>2. ASSUME observed'.key = <<0, 0>> PROVE observed' = Unobserved
    <3>1. Key(Shown) = <<0, 0>>
      BY <1>5, <2>2
    <3>2. Shown.id = 0 /\ Lawful(Shown)
      BY <1>3, <3>1, GameType DEF PageInv, GamesLawful
    <3>3. Shown = NoGame
      BY <3>2 DEF Lawful
    <3>4. CASE observed' = Mark(Shown)
      BY <3>3, <3>4, NoGameType DEF Mark, Newest, NoGame, Unobserved
    <3>5. CASE observed' = observed
      BY <2>2, <3>5 DEF PageInv, RenderedObserved
    <3>6. QED BY <1>2, <3>4, <3>5 DEF Renders
  <2>3. RenderedObserved'
    BY <2>1, <2>2 DEF RenderedObserved, Unobserved
  <2>4. RenderedShown'
    BY <1>1, <1>4 DEF RenderedShown, Key
  <2>5. QED BY <2>3, <2>4
<1>10. ViewTrue(view, observed)' /\ (reduced' => view'.run = None)
  BY <1>1, <1>5 DEF ViewTrue, ViewTyped, Linked, Chain, Lands, Current, Ends, LastOf, To
<1>11. QED BY <1>6, <1>7, <1>8, <1>9, <1>10 DEF PageInv

(* Steps of the animation alone.                                           *)
LEMMA ViewKeeps ==
  ASSUME PageInv, UNCHANGED <<server, link, accepted, due, rendered, observed>>,
         ViewTrue(view', observed), reduced' \in BOOLEAN, reduced' => view'.run = None,
         rare' \in Nat
  PROVE  PageInv'
<1>1. UNCHANGED <<game, games, layout, unsent, token, retired, address, socket, answer,
                  accepted, due, rendered, observed>>
  BY DEF server, link
<1>2. Shown' = Shown /\ Answered' = Answered
  BY <1>1 DEF Shown, Answered
<1>3. PageTypeOK'
  <2>1. view' \in View /\ (view'.run = None <=> view'.left = <<>>)
    BY DEF ViewTrue, ViewTyped
  <2>2. QED BY <1>1, <2>1 DEF PageTypeOK, PageInv
<1>4. GamesLawful' /\ GamesNumbered'
  BY <1>1, <1>2 DEF PageInv, GamesLawful, GamesNumbered
<1>5. GamesOrdered'
  <2>1. Mark(Shown)' = Mark(Shown) /\ Mark(Answered)' = Mark(Answered)
    BY <1>2 DEF Mark, Key, Newest, LastOf
  <2>2. QED BY <1>1, <1>2, <2>1 DEF GamesOrdered, PageInv, Knows, Key
<1>6. RenderedObserved' /\ RenderedShown'
  BY <1>1, <1>2 DEF PageInv, RenderedObserved, RenderedShown, Key
<1>7. ViewTrue(view, observed)'
  BY <1>1 DEF ViewTrue, ViewTyped, Linked, Chain, Lands, Current, Ends, LastOf, To
<1>8. QED BY <1>3, <1>4, <1>5, <1>6, <1>7 DEF PageInv

(* A timer of the animation; what begins then begins where the pawn is.    *)
LEMMA TickKeeps ==
  ASSUME PageInv, Tick
  PROVE  /\ PageInv'
         /\ view'.run # None /\ view'.run # view.run => view'.run.command.from = view.cell
<1>1. /\ view.left # <<>> /\ view' = Ticked(view)
      /\ UNCHANGED <<server, link, accepted, due, rendered, observed, reduced, rare>>
  BY DEF Tick, Ticked
<1>2. /\ view \in View /\ observed \in Marks /\ ViewTrue(view, observed)
      /\ rare \in Nat /\ reduced \in BOOLEAN
      /\ (reduced => view.run = None) /\ (view.run = None <=> view.left = <<>>)
  BY GamesHeld DEF PageInv, PageTypeOK
<1>3. PICK at, W : at = Head(view.left) /\ W = view'
  OBVIOUS
<1>4. /\ ViewTrue(W, observed)
      /\ W.run # None /\ W.run # view.run => W.run.command.from = view.cell
  BY <1>1, <1>2, <1>3, TickTrue
<1>5. ~reduced
  BY <1>1, <1>2
<1>6. QED BY <1>1, <1>2, <1>3, <1>4, <1>5, ViewKeeps

(* The preference for reduced motion: what is animated is put down.        *)
LEMMA ToggleKeeps ==
  ASSUME PageInv, ToggleReduced
  PROVE  /\ PageInv'
         /\ view' = view \/ view'.run = None
<1>1. /\ reduced' = ~reduced /\ rare' = rare + 1
      /\ UNCHANGED <<server, link, accepted, due, rendered, observed>>
      /\ view' = IF reduced' /\ view.left # <<>> THEN Cancel(view, rendered.cell) ELSE view
  BY DEF ToggleReduced, Rarely
<1>2. /\ view \in View /\ observed \in Marks /\ ViewTrue(view, observed)
      /\ rare \in Nat /\ reduced \in BOOLEAN
      /\ (view.run = None <=> view.left = <<>>)
      /\ rendered.cell = observed.cell
      /\ \A r \in view.seen : r <= observed.revision
  BY GamesHeld DEF PageInv, PageTypeOK, RenderedObserved, ViewTrue, Current
<1>3. CASE reduced' /\ view.left # <<>>
  <2>1. view' = Cancel(view, observed.cell)
    BY <1>1, <1>2, <1>3
  <2>2. ViewTrue(view', observed) /\ view'.run = None
    BY <1>2, <2>1, CancelTrue
  <2>3. QED BY <1>1, <1>2, <2>2, ViewKeeps
<1>4. CASE ~ (reduced' /\ view.left # <<>>)
  <2>1. view' = view /\ (reduced' => view.run = None)
    BY <1>1, <1>2, <1>4
  <2>2. QED BY <1>1, <1>2, <2>1, ViewKeeps
<1>5. QED BY <1>3, <1>4

(* At the start there is no game, and the page has nothing.                *)
LEMMA InitHolds == Init => PageInv
<1> SUFFICES ASSUME Init PROVE PageInv
  OBVIOUS
<1>1. /\ game = NoGame /\ games = 0 /\ layout = 0 /\ unsent = {}
      /\ token = 1 /\ retired = {} /\ address = 1 /\ socket = "off" /\ answer = None
      /\ accepted = None /\ due = FALSE /\ rendered = Unrendered /\ observed = Unobserved
      /\ view = StillView /\ reduced = FALSE /\ rare = 0
  BY DEF Init
<1>2. PageTypeOK
  <2>1. observed \in [key : Nat \X Nat, revision : Nat, cell : Cell]
    BY <1>1, StillTrue DEF Marks
  <2>2. rendered \in [key : Nat \X Nat, cell : Cell]
    BY <1>1, StillTrue
  <2>3. view \in View /\ (view.run = None <=> view.left = <<>>)
    BY <1>1, StillTrue
  <2>4. QED BY <1>1, <2>1, <2>2, <2>3, NoGameType DEF PageTypeOK
<1>3. Shown = NoGame /\ Answered = NoGame
  BY <1>1 DEF Shown, Answered
<1>4. GamesLawful /\ GamesNumbered
  <2>1. NoGame.id = 0 /\ Unobserved.key[1] = 0
    BY StillTrue DEF NoGame
  <2>2. QED BY <1>1, <1>3, <2>1, NoGameType DEF GamesLawful, GamesNumbered
<1>5. GamesOrdered
  BY <1>1, <1>3, NoGameKnown DEF GamesOrdered
<1>6. RenderedObserved /\ RenderedShown
  BY <1>1, <1>3, StillTrue DEF RenderedObserved, RenderedShown
<1>7. ViewTrue(view, observed) /\ view.run = None
  BY <1>1, StillTrue
<1>8. QED BY <1>2, <1>4, <1>5, <1>6, <1>7 DEF PageInv

(* A step that changes nothing.                                            *)
LEMMA NothingKeeps ==
  ASSUME PageInv, UNCHANGED vars
  PROVE  PageInv'
<1>1. /\ UNCHANGED <<game, games, layout, unsent, token, retired, address, socket, answer>>
      /\ UNCHANGED <<accepted, due, rendered, observed, view, reduced, rare>>
  BY DEF vars, server, page, link
<1>2. Shown' = Shown /\ Answered' = Answered
  BY <1>1 DEF Shown, Answered
<1>3. PageTypeOK'
  BY <1>1 DEF PageInv, PageTypeOK
<1>4. QED BY <1>1, <1>2, <1>3, StillKeeps

(* PageInv is inductive.                                                   *)
LEMMA StepsKeep ==
  ASSUME PageInv, [Next]_vars
  PROVE  PageInv'
<1>1. CASE Games
  BY <1>1, GamesKeep
<1>2. CASE ChangeLayout \/ Rotate \/ Sockets
  BY <1>2, LinkKeeps
<1>3. CASE Open
  BY <1>3, OpenKeeps
<1>4. CASE Poll
  BY <1>4, PollKeeps
<1>5. CASE Accept \/ AcceptDenial \/ LosePoll
  BY <1>5, PollsKeep
<1>6. ASSUME NEW v \in unsent, LayoutUpdated(v) PROVE PageInv'
  BY <1>6, LayoutKeeps
<1>7. CASE Effects
  BY <1>7, EffectsKeep
<1>8. CASE Tick
  BY <1>8, TickKeeps
<1>9. CASE ToggleReduced
  BY <1>9, ToggleKeeps
<1>10. CASE UNCHANGED vars
  BY <1>10, NothingKeeps
<1>11. QED
  BY <1>1, <1>2, <1>3, <1>4, <1>5, <1>6, <1>7, <1>8, <1>9, <1>10, Zenon DEF Next, Polls

(* ------------------------------- Theorems -------------------------------- *)
(* What the page counts as shown, has accepted and is being sent never runs*)
(* ahead of the game, and its animation always ends where it counts the    *)
(* pawn as shown.                                                          *)
THEOREM PageInductive == Spec => []PageInv
<1>1. PageInv /\ [Next]_vars => PageInv'
  BY StepsKeep
<1>2. QED BY <1>1, InitHolds, PTL DEF Spec

(* The page's variables keep their types, and a pawn that rests stands     *)
(* where the accepted game has it.                                         *)
THEOREM PageIsSafe == Spec => []PageSafe
<1>1. PageInv => PageSafe
  <2> SUFFICES ASSUME PageInv PROVE PageTypeOK /\ PawnRestsRight
    BY DEF PageSafe
  <2>1. ASSUME AtRest PROVE view.cell = Shown.cell
    <3>1. view.run = None /\ ~due
      BY <2>1 DEF AtRest
    <3>2. view.cell = observed.cell
      BY <3>1, RestsAt DEF PageInv
    <3>3. observed.cell = Shown.cell
      BY <3>1 DEF PageInv, RenderedObserved, RenderedShown
    <3>4. QED BY <3>2, <3>3
  <2>2. QED BY <2>1 DEF PageInv, PawnRestsRight
<1>2. QED BY <1>1, PageInductive, PTL

(* What the page accepts is not before what it has.                        *)
Advances ==
  accepted # None /\ accepted' # None =>
    /\ accepted'.layout >= accepted.layout
    /\ accepted'.game = NoGame \/ accepted.game = NoGame
         \/ accepted'.game.id > accepted.game.id
         \/ /\ accepted'.game.id = accepted.game.id
            /\ accepted'.game.revision >= accepted.game.revision
            /\ accepted'.game.epoch >= accepted.game.epoch

(* An answer is accepted if its game is newer, and keeps a newer layout;   *)
(* the event of a layout only if the layout is newer.                      *)
LEMMA AcceptedAdvances ==
  ASSUME PageInv, [Next]_vars
  PROVE  Advances
<1> SUFFICES ASSUME accepted # None, accepted' # None
             PROVE  /\ accepted'.layout >= accepted.layout
                    /\ accepted'.game = accepted.game \/ Newer(accepted'.game, accepted.game)
  <2>1. accepted # None => /\ accepted.game.revision \in Nat /\ accepted.game.epoch \in Nat
    BY GamesHeld, GameType DEF PageInv
  <2>2. QED BY <2>1 DEF Advances, Newer
<1>1. /\ PageTypeOK /\ accepted \in Snapshot /\ accepted.game \in Game /\ accepted.layout \in Nat
  BY GamesHeld DEF PageInv
<1>2. CASE accepted' = accepted
  BY <1>1, <1>2
<1>3. CASE Accept
  <2>1. CASE accepted' = Merged(answer) /\ Newer(answer.game, accepted.game)
    <3>1. answer \notin {None, Denied}
      BY <1>3 DEF Accept
    <3>2. Merged(answer).game = answer.game /\ Merged(answer).layout >= accepted.layout
      BY <1>1, <3>1, MergedType
    <3>3. QED BY <2>1, <3>2
  <2>2. QED BY <1>2, <1>3, <2>1 DEF Accept
<1>4. CASE AcceptDenial
  BY <1>4 DEF AcceptDenial
<1>5. CASE Open
  BY <1>5 DEF Open
<1>6. ASSUME NEW v \in unsent, LayoutUpdated(v)
      PROVE  accepted'.layout >= accepted.layout /\ accepted'.game = accepted.game
  <2>1. CASE accepted.layout < v /\ accepted' = [accepted EXCEPT !.layout = v]
    <3>1. v \in Nat
      BY <1>1 DEF PageTypeOK
    <3>2. accepted'.layout = v /\ accepted'.game = accepted.game
      BY <1>1, <2>1 DEF Snapshot
    <3>3. QED BY <1>1, <2>1, <3>1, <3>2
  <2>2. CASE accepted' = accepted
    BY <1>1, <2>2
  <2>3. QED BY <1>6, <2>1, <2>2 DEF LayoutUpdated
<1>7. CASE Games
  <2>1. Elsewhere
    BY <1>7 DEF Games, StartGame, EndGame, Adjust, Wait, Roll, Travel, Invalidate, Depart,
           Turn, Changes
  <2>2. QED BY <1>2, <2>1 DEF Elsewhere, page
<1>8. CASE ChangeLayout \/ Rotate \/ Sockets \/ Poll \/ LosePoll \/ UNCHANGED vars
  <2>1. UNCHANGED page
    BY <1>8 DEF ChangeLayout, Rotate, Sockets, Connect, Register, Drop, Revalidate,
           DisconnectToken, Poll, LosePoll, vars
  <2>2. QED BY <1>2, <2>1 DEF page
<1>9. CASE Effects \/ Tick \/ ToggleReduced
  BY <1>2, <1>9 DEF Effects, Tick, ToggleReduced
<1>10. QED
  BY <1>3, <1>4, <1>5, <1>6, <1>7, <1>8, <1>9, Zenon DEF Next, Polls

(* What is shown never goes back, whether it came by a poll or was pushed. *)
THEOREM ShownGoesForward == Spec => ShownAdvances
<1>1. PageInv /\ [Next]_vars => [Advances]_vars
  BY AcceptedAdvances
<1>2. QED BY <1>1, PageInductive, PTL DEF Spec, ShownAdvances, Advances

(* A step that starts an animation starts it where the pawn stands.        *)
Begins == view'.run # None /\ view'.run # view.run => view'.run.command.from = view.cell

(* Only a render and a timer start one.                                    *)
LEMMA StepsBegin ==
  ASSUME PageInv, [Next]_vars
  PROVE  Begins
<1>1. CASE view' = view \/ view'.run = None
  BY <1>1 DEF Begins
<1>2. CASE Effects
  BY <1>2, EffectsRender DEF Renders, Begins
<1>3. CASE Tick
  BY <1>3, TickKeeps DEF Begins
<1>4. CASE ToggleReduced
  BY <1>1, <1>4, ToggleKeeps
<1>5. CASE Games
  <2>1. Elsewhere
    BY <1>5 DEF Games, StartGame, EndGame, Adjust, Wait, Roll, Travel, Invalidate, Depart,
           Turn, Changes
  <2>2. QED BY <1>1, <2>1 DEF Elsewhere, page
<1>6. CASE ChangeLayout \/ Rotate \/ Sockets \/ Poll \/ LosePoll \/ UNCHANGED vars
  <2>1. UNCHANGED page
    BY <1>6 DEF ChangeLayout, Rotate, Sockets, Connect, Register, Drop, Revalidate,
           DisconnectToken, Poll, LosePoll, vars
  <2>2. QED BY <1>1, <2>1 DEF page
<1>7. CASE Accept \/ AcceptDenial \/ \E v \in unsent : LayoutUpdated(v)
  BY <1>1, <1>7 DEF Accept, AcceptDenial, LayoutUpdated
<1>8. CASE Open
  <2>1. view'.run = None
    BY <1>8, StillTrue DEF Open
  <2>2. QED BY <1>1, <2>1
<1>9. QED
  BY <1>2, <1>3, <1>4, <1>5, <1>6, <1>7, <1>8, Zenon DEF Next, Polls

(* An animation begins where the pawn stands.                              *)
THEOREM AnimationBeginsAtPawn == Spec => BeginsAtPawn
<1>1. PageInv /\ [Next]_vars => [Begins]_vars
  BY StepsBegin
<1>2. QED BY <1>1, PageInductive, PTL DEF Spec, BeginsAtPawn, Begins

(* A pawn that is seen to move does so in the presentation that is shown.  *)
Moves ==
  view'.cell # view.cell =>
    \/ view'.cell = rendered'.cell
    \/ /\ view.run # None \/ view'.run # None
       /\ \A V \in {view, view'} : V.run # None => V.run.key \in {rendered.key, rendered'.key}

(* That much holds before and after a step: an animation is of what was    *)
(* rendered, and a pawn that rests where that is.                          *)
LEMMA StepsMove ==
  ASSUME PageInv, PageInv'
  PROVE  Moves
<1>1. /\ ViewTrue(view, observed) /\ rendered.key = observed.key
  BY DEF PageInv, RenderedObserved
<1>2. /\ ViewTrue(view', observed') /\ rendered'.key = observed'.key
      /\ rendered'.cell = observed'.cell
  BY DEF PageInv, RenderedObserved, ViewTrue, ViewTyped, Linked, Chain, Lands, Current, Ends,
         LastOf, To
<1>3. \A V \in {view, view'} : V.run # None => V.run.key \in {rendered.key, rendered'.key}
  BY <1>1, <1>2 DEF ViewTrue, Current
<1>4. CASE view'.run = None
  <2>1. view'.cell = observed'.cell
    BY <1>2, <1>4, RestsAt
  <2>2. QED BY <1>2, <2>1 DEF Moves
<1>5. CASE view'.run # None
  BY <1>3, <1>5 DEF Moves
<1>6. QED BY <1>4, <1>5

(* The pawn only moves along a command of the presentation that is shown,  *)
(* or to where the game has it.                                            *)
THEOREM PawnMovesInPresentation == Spec => MotionIsCurrent
<1>1. PageInv /\ PageInv' => [Moves]_<<view, rendered>>
  BY StepsMove
<1>2. QED BY <1>1, PageInductive, PTL DEF Spec, MotionIsCurrent, Moves

=============================================================================
