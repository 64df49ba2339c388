---------------------------- MODULE LiveLayoutProofs ------------------------
(***************************************************************************)
(* That neither panels nor styles are lost to somebody else's save, for any*)
(* number of operators, editors and widgets.                               *)
(*                                                                         *)
(* The argument: a save carries the panels and styles of the newest layout *)
(* its page had read, but the version of its canvas as its base.  A canvas *)
(* is never ahead of what the page has read, so a save whose base is still *)
(* the version in effect was made from the layout in effect.               *)
(***************************************************************************)
EXTENDS LiveLayoutProperties, TLAPS, WellFoundedInduction, SequenceTheorems

(* What holds of an editor E while L is the layout in effect.              *)
SeenTrue(E, L) ==
  /\ E.rev <= E.snap.version /\ E.snap.version <= L.version
  /\ E.snap.version = L.version => E.snap.layout = L.layout
  /\ E.deferred # None => E.deferred.version <= E.snap.version
SaveTrue(E, L) ==
  E.save # None =>
    /\ E.save.expected <= L.version
    /\ E.save.state = "sent" /\ E.save.expected = L.version =>
         E.save.layout.panels = L.layout.panels /\ E.save.layout.styles = L.layout.styles
    /\ E.save.state = "saved" =>
         /\ E.save.version <= L.version
         /\ E.save.version = L.version => E.save.layout = L.layout
StyleTrue(E, L) ==
  E.style # None =>
    /\ E.style.expected <= L.version
    /\ E.style.expected = L.version => E.style.layout.panels = L.layout.panels
Faithful(E, L) == E \in Editor /\ SeenTrue(E, L) /\ SaveTrue(E, L) /\ StyleTrue(E, L)

(* A console that has seen the last revision of its row has its document.  *)
ConsolesTrue ==
  \A o \in Operators : consoles[o].version # NoVersion =>
    /\ consoles[o].revision <= versions[consoles[o].version].revision
    /\ consoles[o].revision = versions[consoles[o].version].revision =>
         consoles[o].saved = versions[consoles[o].version].document
DraftInv == DraftsTypeOK /\ ConsolesTrue

LayoutInv ==
  /\ DraftInv /\ LayoutSafe
  /\ live.version = 0 => live.layout = Default
  /\ \A e \in Editors : Faithful(editors[e], live)

(* ---------------------------- The newest version ------------------------ *)
LEMMA NewestOf ==
  ASSUME NEW n \in Nat, NEW S \in SUBSET (1 .. n)
  PROVE  Newest(S) \in S \cup {NoVersion}
<1>1. CASE S = {}
  BY <1>1 DEF Newest
<1>2. CASE S # {}
  <2> DEFINE T == {n - x : x \in S}
  <2>1. T \subseteq Nat /\ T # {}
    <3>1. \A x \in S : n - x \in Nat
      OBVIOUS
    <3>2. T # {}
      <4>1. PICK x \in S : TRUE
        BY <1>2
      <4>2. n - x \in T
        OBVIOUS
      <4>3. QED BY <4>2
    <3>3. QED BY <3>1, <3>2
  <2>2. PICK m \in T : \A y \in T : ~ (<<y, m>> \in OpToRel(<, Nat))
    <3> HIDE DEF T
    <3>1. QED BY <2>1, NatLessThanWellFounded, WFMin
  <2>3. \A y \in T : ~ (y < m)
    BY <2>1, <2>2 DEF OpToRel
  <2>4. PICK x \in S : m = n - x
    OBVIOUS
  <2>5. \A w \in S : x >= w
    BY <2>3, <2>4
  <2>6. QED BY <1>2, <2>5 DEF Newest
<1>3. QED BY <1>1, <1>2

LEMMA NewestOfOne ==
  ASSUME NEW x \in Nat
  PROVE  Newest({x}) = x
BY DEF Newest

(* ------------------------------ An editor's steps ----------------------- *)
LEMMA DefaultType == Default \in Layout
BY DraftsAssumption DEF Default, Layout, Positions

LEMMA TakeFaithful ==
  ASSUME NEW L \in Snapshot, NEW E, Faithful(E, L), NEW s \in Snapshot,
         s.version <= L.version, s.version = L.version => s.layout = L.layout
  PROVE  /\ Faithful(Take(E, s), L) /\ s.version <= Take(E, s).snap.version
         /\ Take(E, s).save = E.save /\ Take(E, s).pending = E.pending
<1>1. CASE s.version > E.snap.version
  <2>1. E \in Editor
    BY DEF Faithful
  <2>2. Take(E, s) = [E EXCEPT !.snap = s, !.due = TRUE]
    BY <1>1 DEF Take
  <2>3. [E EXCEPT !.snap = s, !.due = TRUE] \in Editor
    BY <2>1 DEF Editor
  <2>4. SeenTrue([E EXCEPT !.snap = s, !.due = TRUE], L)
    <3>1. E.snap.version \in Nat /\ E.rev \in Nat /\ s.version \in Nat
          /\ (E.deferred # None => E.deferred.version \in Nat)
      BY <2>1 DEF Editor, Snapshot
    <3>2. QED BY <1>1, <2>1, <3>1 DEF SeenTrue, Faithful, Editor
  <2>5. SaveTrue([E EXCEPT !.snap = s, !.due = TRUE], L) /\ StyleTrue([E EXCEPT !.snap = s, !.due = TRUE], L)
    BY <2>1 DEF SaveTrue, StyleTrue, Faithful, Editor
  <2>6. QED BY <2>1, <2>2, <2>3, <2>4, <2>5 DEF Faithful, Editor, Snapshot
<1>2. CASE ~(s.version > E.snap.version)
  BY <1>2 DEF Take, Faithful, Editor, Snapshot
<1>3. QED BY <1>1, <1>2

LEMMA ShowFaithful ==
  ASSUME NEW L \in Snapshot, NEW E, Faithful(E, L), NEW s \in Snapshot,
         s.version <= E.snap.version
  PROVE  /\ Faithful(Show(E, s), L) /\ Show(E, s).save = E.save
         /\ Show(E, s).snap = E.snap /\ Show(E, s).pending = E.pending
<1> DEFINE F == [E EXCEPT !.rev = s.version, !.shown = s.layout.widgets]
<1>1. E \in Editor
  BY DEF Faithful
<1>2. F \in Editor /\ F.save = E.save /\ F.snap = E.snap /\ F.pending = E.pending
      /\ F.style = E.style /\ F.deferred = E.deferred /\ F.rev = s.version
  BY <1>1 DEF Editor, Snapshot, Layout
<1>3. Faithful(F, L)
  <2> HIDE DEF F
  <2>1. QED BY <1>2 DEF Faithful, SeenTrue, SaveTrue, StyleTrue
<1>4. QED BY <1>2, <1>3 DEF Show

LEMMA ShowDeferredFaithful ==
  ASSUME NEW L \in Snapshot, NEW E, Faithful(E, L)
  PROVE  Faithful(ShowDeferred(E), L)
<1>1. CASE E.deferred = None
  BY <1>1 DEF ShowDeferred
<1>2. CASE E.deferred # None
  <2>1. E.deferred \in Snapshot /\ E.deferred.version <= E.snap.version
    BY <1>2 DEF Faithful, Editor, SeenTrue
  <2>2. Faithful(Show(E, E.deferred), L)
    BY <2>1, ShowFaithful
  <2> DEFINE F == Show(E, E.deferred)
             G == [F EXCEPT !.deferred = None]
  <2> HIDE DEF F
  <2>3. F \in Editor
    BY <2>2 DEF Faithful, F
  <2>4. G \in Editor /\ G.save = F.save /\ G.style = F.style /\ G.snap = F.snap /\ G.rev = F.rev
        /\ G.deferred = None
    BY <2>3 DEF Editor
  <2>5. Faithful(G, L)
    <3> HIDE DEF G
    <3>1. Faithful(F, L)
      BY <2>2 DEF F
    <3>2. QED BY <2>4, <3>1 DEF Faithful, SeenTrue, SaveTrue, StyleTrue
  <2>6. QED BY <1>2, <2>5 DEF ShowDeferred, F
<1>3. QED BY <1>1, <1>2

LEMMA FlushFaithful ==
  ASSUME NEW L \in Snapshot, NEW E, Faithful(E, L), NEW widgets \in Positions
  PROVE  Faithful(Flush(E, widgets), L)
<1> DEFINE M == [E EXCEPT !.suppress = TRUE, !.timer = FALSE]
           s == [layout |-> [E.snap.layout EXCEPT !.widgets = widgets],
                 expected |-> E.rev, state |-> "sent", version |-> 0]
<1>1. E \in Editor
  BY DEF Faithful
<1>2. M \in Editor /\ M.save = E.save /\ M.style = E.style /\ M.snap = E.snap /\ M.rev = E.rev
      /\ M.deferred = E.deferred
  BY <1>1 DEF Editor
<1>3. CASE E.save # None
  <2> DEFINE F == [M EXCEPT !.pending = widgets]
  <2>1. F \in Editor /\ F.save = E.save /\ F.style = E.style /\ F.snap = E.snap /\ F.rev = E.rev
        /\ F.deferred = E.deferred
    <3> HIDE DEF M
    <3>1. QED BY <1>2 DEF Editor
  <2>2. Faithful(F, L)
    <3> HIDE DEF F
    <3>1. QED BY <2>1 DEF Faithful, SeenTrue, SaveTrue, StyleTrue
  <2>3. QED BY <1>3, <2>2 DEF Flush
<1>4. CASE E.save = None
  <2> DEFINE F == [M EXCEPT !.pending = None, !.save = s]
  <2>1. E.snap \in Snapshot /\ E.snap.layout \in Layout /\ E.rev \in Nat
    BY <1>1 DEF Editor, Snapshot
  <2>2. s \in Save /\ s.layout.panels = E.snap.layout.panels /\ s.layout.styles = E.snap.layout.styles
        /\ s.expected = E.rev /\ s.state = "sent"
    BY <2>1 DEF Save, Layout
  <2>3. F \in Editor /\ F.save = s /\ F.style = E.style /\ F.snap = E.snap /\ F.rev = E.rev
        /\ F.deferred = E.deferred
    <3> HIDE DEF M, s
    <3>1. QED BY <1>2, <2>2 DEF Editor
  <2>4. Faithful(F, L)
    <3> HIDE DEF F, s
    <3>1. E.snap.version \in Nat /\ L.version \in Nat
      BY <2>1 DEF Snapshot
    <3>2. SaveTrue(F, L)
      BY <2>1, <2>2, <2>3, <3>1 DEF SaveTrue, Faithful, SeenTrue
    <3>3. QED BY <2>3, <3>2 DEF Faithful, SeenTrue, StyleTrue
  <2>5. QED BY <1>4, <2>4 DEF Flush
<1>5. QED BY <1>3, <1>4

(* What a change of the rest of an editor leaves true.                     *)
LEMMA SameSightFaithful ==
  ASSUME NEW L \in Snapshot, NEW E, Faithful(E, L), NEW F \in Editor,
         F.snap = E.snap, F.rev = E.rev, F.style = E.style,
         F.save \in {E.save, None}, F.deferred \in {E.deferred, None}
  PROVE  Faithful(F, L)
BY DEF Faithful, SeenTrue, SaveTrue, StyleTrue

LEMMA SucceedFaithful ==
  ASSUME NEW L \in Snapshot, NEW E, Faithful(E, L), NEW v \in Nat, v <= E.snap.version
  PROVE  Faithful(Succeed(E, v), L)
<1> DEFINE F == [E EXCEPT !.rev = v, !.save = None]
           D == [F EXCEPT !.deferred = None]
           G == DropDeferred(F)
           H == ShowDeferred(G)
<1>1. E \in Editor
  BY DEF Faithful
<1>2. F \in Editor /\ F.snap = E.snap /\ F.rev = v /\ F.save = None /\ F.style = E.style
      /\ F.deferred = E.deferred
  BY <1>1 DEF Editor
<1>3. Faithful(F, L)
  <2> HIDE DEF F
  <2>1. QED BY <1>2 DEF Faithful, SeenTrue, SaveTrue, StyleTrue
<1> HIDE DEF F
<1>4. D \in Editor /\ D.snap = F.snap /\ D.rev = F.rev /\ D.style = F.style /\ D.save = F.save
      /\ D.deferred = None
  BY <1>2 DEF Editor
<1>5. Faithful(D, L)
  <2> HIDE DEF D
  <2>1. QED BY <1>3, <1>4, SameSightFaithful
<1>6. Faithful(G, L)
  BY <1>3, <1>5 DEF DropDeferred
<1> HIDE DEF G, D
<1>7. CASE G.pending # None
  <2>1. G.pending \in Positions
    BY <1>6, <1>7 DEF Faithful, Editor
  <2>2. Faithful(Flush(G, G.pending), L)
    BY <1>6, <2>1, FlushFaithful
  <2>3. Succeed(E, v) = Flush(G, G.pending)
    BY <1>7 DEF Succeed, G, F
  <2>4. QED BY <2>2, <2>3
<1>8. CASE G.pending = None
  <2>1. Faithful(H, L)
    BY <1>6, ShowDeferredFaithful
  <2> HIDE DEF H
  <2> DEFINE K == [H EXCEPT !.timer = TRUE]
  <2>2. K \in Editor /\ K.snap = H.snap /\ K.rev = H.rev /\ K.style = H.style /\ K.save = H.save
        /\ K.deferred = H.deferred
    BY <2>1 DEF Faithful, Editor
  <2>3. Faithful(K, L)
    <3> HIDE DEF K
    <3>1. QED BY <2>1, <2>2, SameSightFaithful
  <2>4. Succeed(E, v) = K
    BY <1>8 DEF Succeed, G, F, H
  <2>5. QED BY <2>3, <2>4
<1>9. QED BY <1>7, <1>8

LEMMA FailFaithful ==
  ASSUME NEW L \in Snapshot, NEW E, Faithful(E, L)
  PROVE  Faithful(Fail(E), L)
<1> DEFINE F == [E EXCEPT !.save = None, !.pending = None, !.throttle = FALSE, !.suppress = FALSE]
<1>1. F \in Editor /\ F.snap = E.snap /\ F.rev = E.rev /\ F.style = E.style /\ F.save = None
      /\ F.deferred = E.deferred
  BY DEF Faithful, Editor
<1> HIDE DEF F
<1>2. Faithful(F, L)
  BY <1>1, SameSightFaithful
<1>3. QED BY <1>2, ShowDeferredFaithful DEF Fail, F

(* A newer layout outdates what was seen, saved and styled before.         *)
LEMMA LaterFaithful ==
  ASSUME NEW L \in Snapshot, NEW E, Faithful(E, L), NEW K \in Snapshot, K.version > L.version
  PROVE  Faithful(E, K)
<1>1. /\ E \in Editor /\ L.version \in Nat /\ K.version \in Nat /\ E.rev \in Nat
      /\ E.snap.version \in Nat
  BY DEF Faithful, Editor, Snapshot
<1>2. SeenTrue(E, K)
  BY <1>1 DEF Faithful, SeenTrue
<1>3. SaveTrue(E, K)
  <2>1. E.save # None => E.save.expected \in Nat /\ E.save.version \in Nat
    BY <1>1 DEF Editor, Save
  <2>2. QED BY <1>1, <2>1 DEF Faithful, SaveTrue
<1>4. StyleTrue(E, K)
  <2>1. E.style # None => E.style.expected \in Nat
    BY <1>1 DEF Editor, Style
  <2>2. QED BY <1>1, <2>1 DEF Faithful, StyleTrue
<1>5. QED BY <1>1, <1>2, <1>3, <1>4 DEF Faithful

(* ------------------------------ The drafts ------------------------------ *)
LEMMA DraftRange ==
  ASSUME DraftsTypeOK
  PROVE  /\ Draft \in 0 .. Len(versions) /\ Len(versions) \in Nat
         /\ DOMAIN versions = 1 .. Len(versions)
         /\ \A v \in 1 .. Len(versions) : versions[v] \in Version
<1>1. versions \in Seq(Version)
  BY DEF DraftsTypeOK
<1>2. Len(versions) \in Nat /\ DOMAIN versions = 1 .. Len(versions)
  BY <1>1, LenProperties
<1>3. \A v \in 1 .. Len(versions) : versions[v] \in Version
  BY <1>1, ElementOfSeq
<1>4. WithStatus({"draft", "validated"}) \in SUBSET (1 .. Len(versions))
  BY <1>2 DEF WithStatus
<1>5. Draft \in (1 .. Len(versions)) \cup {NoVersion}
  <2>1. Draft \in WithStatus({"draft", "validated"}) \cup {NoVersion}
    BY <1>2, <1>4, NewestOf DEF Draft
  <2>2. QED BY <2>1, <1>4
<1>6. QED BY <1>2, <1>3, <1>5 DEF NoVersion

LEMMA LoadDraft ==
  ASSUME DraftInv, NEW o \in Operators, NEW effective \in Document, Load(o, effective)
  PROVE  DraftInv'
<1>1. /\ Draft \in 0 .. Len(versions) /\ Len(versions) \in Nat
      /\ \A v \in 1 .. Len(versions) : versions[v] \in Version
  BY DraftRange DEF DraftInv
<1> DEFINE c == Loaded(effective)
<1>2. c \in Console /\ c.version \in 0 .. Len(versions)
      /\ (c.version # NoVersion =>
            c.revision = versions[c.version].revision /\ c.saved = versions[c.version].document)
  <2>1. CASE Draft = NoVersion
    BY <2>1, <1>1 DEF Loaded, Console, Status, NoVersion
  <2>2. CASE Draft # NoVersion
    <3>1. Draft \in 1 .. Len(versions)
      BY <2>2, <1>1 DEF NoVersion
    <3>2. versions[Draft] \in Version
      BY <3>1, <1>1
    <3>3. QED BY <2>2, <1>1, <3>1, <3>2 DEF Loaded, Console, Version
  <2>3. QED BY <2>1, <2>2
<1> HIDE DEF c
<1>3. consoles' = [consoles EXCEPT ![o] = c] /\ UNCHANGED <<versions, edits, faults>>
  BY DEF Load, c
<1>4. DraftsTypeOK'
  BY <1>2, <1>3 DEF DraftInv, DraftsTypeOK
<1>5. ConsolesTrue'
  <2> SUFFICES ASSUME NEW p \in Operators, consoles'[p].version # NoVersion
               PROVE  /\ consoles'[p].revision <= versions[consoles'[p].version].revision
                      /\ consoles'[p].revision = versions[consoles'[p].version].revision =>
                           consoles'[p].saved = versions[consoles'[p].version].document
    BY <1>3 DEF ConsolesTrue
  <2>1. consoles \in [Operators -> Console]
    BY DEF DraftInv, DraftsTypeOK
  <2>2. CASE p = o
    <3>1. consoles'[p] = c
      BY <2>1, <2>2, <1>3
    <3>2. c.revision \in Nat
      BY <1>2 DEF Console
    <3>3. QED BY <1>2, <3>1, <3>2
  <2>3. CASE p # o
    BY <2>1, <2>3, <1>3 DEF DraftInv, ConsolesTrue
  <2>4. QED BY <2>2, <2>3
<1>6. QED BY <1>4, <1>5 DEF DraftInv

LEMMA EditDraft ==
  ASSUME DraftInv, NEW o \in Operators, Edit(o)
  PROVE  DraftInv'
<1>1. /\ consoles \in [Operators -> Console] /\ edits \in 0 .. MaxEdits /\ edits < MaxEdits
      /\ MaxEdits \in Nat
  BY DraftsAssumption DEF DraftInv, DraftsTypeOK, Edit
<1>2. edits + 1 \in Document
  BY <1>1 DEF Document
<1>3. consoles' = [consoles EXCEPT ![o].document = edits + 1] /\ edits' = edits + 1
      /\ UNCHANGED <<versions, faults>>
  BY DEF Edit
<1>4. consoles' \in [Operators -> Console]
  BY <1>1, <1>2, <1>3 DEF Console
<1>5. \A p \in Operators : /\ consoles'[p].version = consoles[p].version
                           /\ consoles'[p].revision = consoles[p].revision
                           /\ consoles'[p].saved = consoles[p].saved
  BY <1>1, <1>3 DEF Console
<1>6. DraftsTypeOK'
  BY <1>1, <1>3, <1>4, <1>5 DEF DraftInv, DraftsTypeOK
<1>7. ConsolesTrue'
  BY <1>3, <1>5 DEF DraftInv, ConsolesTrue
<1>8. QED BY <1>6, <1>7 DEF DraftInv

(* A call changes rows only by raising their revision; the console that    *)
(* made it knows the row it is answered, or what it knew.                  *)
LEMMA RowsChange ==
  ASSUME DraftInv, NEW o \in Operators, NEW v \in DOMAIN versions',
         versions' \in Seq(Version), Len(versions') <= MaxVersions,
         DOMAIN versions \subseteq DOMAIN versions',
         \A w \in DOMAIN versions :
           \/ versions'[w].revision > versions[w].revision
           \/ /\ versions'[w].revision = versions[w].revision
              /\ versions'[w].document = versions[w].document,
         AnsweredOrLost(o, v)
  PROVE  DraftsTypeOK' /\ ConsolesTrue'
<1>1. /\ consoles \in [Operators -> Console] /\ edits \in 0 .. MaxEdits
      /\ faults \in 0 .. MaxFaults /\ MaxFaults \in Nat
      /\ \A p \in Operators : consoles[p].version \in 0 .. Len(versions)
  BY DraftsAssumption DEF DraftInv, DraftsTypeOK
<1>2. /\ DOMAIN versions = 1 .. Len(versions) /\ Len(versions) \in Nat
      /\ \A w \in DOMAIN versions : versions[w] \in Version
  BY DraftRange DEF DraftInv
<1>3. /\ DOMAIN versions' = 1 .. Len(versions') /\ Len(versions') \in Nat
      /\ \A w \in DOMAIN versions' : versions'[w] \in Version
  <2>1. Len(versions') \in Nat /\ DOMAIN versions' = 1 .. Len(versions')
    BY LenProperties
  <2>2. QED BY <2>1, ElementOfSeq
<1>4. Len(versions) <= Len(versions')
  <2>1. CASE Len(versions) = 0
    BY <2>1, <1>3
  <2>2. CASE Len(versions) # 0
    <3>1. Len(versions) \in DOMAIN versions
      BY <2>2, <1>2
    <3>2. Len(versions) \in 1 .. Len(versions')
      BY <3>1, <1>3
    <3>3. QED BY <3>2, <1>3
  <2>3. QED BY <2>1, <2>2
<1>5. edits' = edits /\ faults' \in 0 .. MaxFaults
  BY <1>1 DEF AnsweredOrLost
<1> DEFINE Knows(c) ==
      /\ c \in Console /\ c.version \in 0 .. Len(versions')
      /\ c.version # NoVersion =>
           /\ c.revision <= versions'[c.version].revision
           /\ c.revision = versions'[c.version].revision =>
                c.saved = versions'[c.version].document
<1>6. \A p \in Operators : Knows(consoles[p])
  <2> SUFFICES ASSUME NEW p \in Operators PROVE Knows(consoles[p])
    OBVIOUS
  <2>1. consoles[p] \in Console /\ consoles[p].version \in 0 .. Len(versions')
    BY <1>1, <1>2, <1>3, <1>4
  <2>2. ASSUME consoles[p].version # NoVersion
        PROVE  /\ consoles[p].revision <= versions'[consoles[p].version].revision
               /\ consoles[p].revision = versions'[consoles[p].version].revision =>
                    consoles[p].saved = versions'[consoles[p].version].document
    <3> DEFINE w == consoles[p].version
    <3>1. w \in DOMAIN versions
      BY <1>1, <1>2, <2>2 DEF NoVersion
    <3>2. /\ consoles[p].revision \in Nat /\ versions[w].revision \in Nat
          /\ versions'[w].revision \in Nat
      BY <2>1, <1>2, <1>3, <3>1 DEF Console, Version
    <3>3. /\ consoles[p].revision <= versions[w].revision
          /\ consoles[p].revision = versions[w].revision =>
               consoles[p].saved = versions[w].document
      BY <2>2 DEF DraftInv, ConsolesTrue
    <3>4. \/ versions'[w].revision > versions[w].revision
          \/ /\ versions'[w].revision = versions[w].revision
             /\ versions'[w].document = versions[w].document
      BY <3>1
    <3>5. CASE versions'[w].revision > versions[w].revision
      BY <3>2, <3>3, <3>5
    <3>6. CASE versions'[w].revision = versions[w].revision
               /\ versions'[w].document = versions[w].document
      BY <3>2, <3>3, <3>6
    <3>7. QED BY <3>4, <3>5, <3>6
  <2>3. QED BY <2>1, <2>2
<1>7. consoles' \in [Operators -> Console] /\ \A p \in Operators : Knows(consoles'[p])
  <2>1. CASE UNCHANGED consoles
    <3>1. \A p \in Operators : consoles'[p] = consoles[p]
      BY <2>1
    <3> HIDE DEF Knows
    <3>2. QED BY <2>1, <3>1, <1>1, <1>6
  <2>2. CASE Accept(o, v)
    <3> DEFINE c == [version |-> IF versions'[v].status = "published" THEN NoVersion ELSE v,
                     revision |-> versions'[v].revision, status |-> versions'[v].status,
                     document |-> versions'[v].document, saved |-> versions'[v].document]
    <3>1. versions'[v] \in Version /\ v \in 1 .. Len(versions')
      BY <1>3
    <3>2. c \in Console /\ c.version \in 0 .. Len(versions')
      BY <3>1, <1>3 DEF Console, Version, NoVersion
    <3>3. Knows(c)
      BY <3>1, <3>2 DEF Version
    <3>4. consoles' = [consoles EXCEPT ![o] = c]
      BY <2>2 DEF Accept
    <3> HIDE DEF c
    <3>5. consoles' \in [Operators -> Console]
          /\ \A p \in Operators : consoles'[p] = IF p = o THEN c ELSE consoles[p]
      BY <3>2, <3>4, <1>1
    <3> HIDE DEF Knows
    <3>6. QED BY <3>3, <3>5, <1>6
  <2>3. QED BY <2>1, <2>2 DEF AnsweredOrLost
<1>8. DraftsTypeOK'
  BY <1>1, <1>5, <1>7 DEF DraftsTypeOK
<1>9. ConsolesTrue'
  BY <1>7 DEF ConsolesTrue
<1>10. QED BY <1>8, <1>9

LEMMA CreateDraft ==
  ASSUME DraftInv, NEW o \in Operators, Create(o)
  PROVE  DraftInv' /\ Published' = Published
<1> DEFINE row == [document |-> consoles[o].document, revision |-> 1, status |-> "draft"]
<1>1. /\ versions \in Seq(Version) /\ Len(versions) \in Nat /\ MaxVersions \in Nat
      /\ consoles \in [Operators -> Console]
  BY DraftRange, DraftsAssumption DEF DraftInv, DraftsTypeOK
<1>2. row \in Version
  BY <1>1 DEF Console, Version, Status
<1>3. versions' = Append(versions, row) /\ AnsweredOrLost(o, Len(versions'))
      /\ Len(versions) < MaxVersions
  BY DEF Create
<1> HIDE DEF row
<1>4. /\ versions' \in Seq(Version) /\ Len(versions') = Len(versions) + 1
      /\ \A w \in 1 .. Len(versions) : versions'[w] = versions[w]
      /\ versions'[Len(versions) + 1] = row
  BY <1>1, <1>2, <1>3
<1>5. DOMAIN versions = 1 .. Len(versions) /\ DOMAIN versions' = 1 .. (Len(versions) + 1)
  BY <1>1, <1>4, LenProperties
<1>6. DraftsTypeOK' /\ ConsolesTrue'
  <2>1. Len(versions') \in DOMAIN versions' /\ DOMAIN versions \subseteq DOMAIN versions'
        /\ Len(versions') <= MaxVersions
    BY <1>1, <1>3, <1>4, <1>5
  <2>2. QED BY <1>3, <1>4, <1>5, <2>1, RowsChange
<1>7. row.status = "draft"
  BY DEF row
<1>8. WithStatus({"published"})' = WithStatus({"published"})
  BY <1>1, <1>4, <1>5, <1>7 DEF WithStatus
<1>9. Published' = Published
  BY <1>8 DEF Published
<1>10. QED BY <1>6, <1>9 DEF DraftInv

(* The row o edits, as r.                                                  *)
LEMMA RowChanges ==
  ASSUME DraftInv, NEW o \in Operators, NEW statuses, RowAt(o, statuses),
         NEW r \in Version, r.revision = versions[consoles[o].version].revision + 1,
         versions' = [versions EXCEPT ![consoles[o].version] = r],
         AnsweredOrLost(o, consoles[o].version)
  PROVE  DraftsTypeOK' /\ ConsolesTrue'
<1> DEFINE v == consoles[o].version
<1>1. v \in 1 .. Len(versions) /\ versions \in Seq(Version) /\ Len(versions) <= MaxVersions
      /\ Len(versions) \in Nat
  BY DraftRange DEF DraftInv, DraftsTypeOK, RowAt, RowAtAnyRevision, NoVersion
<1>2. /\ versions' \in Seq(Version) /\ Len(versions') = Len(versions)
      /\ \A w \in 1 .. Len(versions) : versions'[w] = IF w = v THEN r ELSE versions[w]
  BY <1>1, ExceptSeq
<1>3. DOMAIN versions = 1 .. Len(versions) /\ DOMAIN versions' = 1 .. Len(versions)
      /\ \A w \in 1 .. Len(versions) : versions[w] \in Version
  BY <1>1, <1>2, LenProperties, ElementOfSeq
<1>4. \A w \in DOMAIN versions :
        \/ versions'[w].revision > versions[w].revision
        \/ /\ versions'[w].revision = versions[w].revision
           /\ versions'[w].document = versions[w].document
  <2> SUFFICES ASSUME NEW w \in DOMAIN versions
               PROVE  \/ versions'[w].revision > versions[w].revision
                      \/ /\ versions'[w].revision = versions[w].revision
                         /\ versions'[w].document = versions[w].document
    OBVIOUS
  <2>1. versions[w].revision \in Nat /\ r.revision \in Nat
    BY <1>3 DEF Version
  <2>2. QED BY <1>2, <1>3, <2>1
<1>5. Len(versions') <= MaxVersions /\ v \in DOMAIN versions' /\ DOMAIN versions \subseteq DOMAIN versions'
  BY <1>1, <1>2, <1>3
<1> HIDE DEF v
<1>6. AnsweredOrLost(o, v)
  BY DEF v
<1>7. QED BY <1>2, <1>4, <1>5, <1>6, RowsChange

LEMMA UnpublishedRowChanges ==
  ASSUME DraftInv, NEW o \in Operators, RowAt(o, {"draft", "validated"}),
         NEW r \in Version, r.revision = versions[consoles[o].version].revision + 1,
         r.status \in {"draft", "validated"},
         versions' = [versions EXCEPT ![consoles[o].version] = r],
         AnsweredOrLost(o, consoles[o].version)
  PROVE  DraftInv' /\ Published' = Published
<1>1. DraftsTypeOK' /\ ConsolesTrue'
  BY RowChanges
<1>2. versions[consoles[o].version].status \in {"draft", "validated"}
  BY DEF RowAt, RowAtAnyRevision
<1>3. WithStatus({"published"})' = WithStatus({"published"})
  BY <1>2 DEF WithStatus
<1>4. QED BY <1>1, <1>3 DEF DraftInv, Published

LEMMA UpdateDraft ==
  ASSUME DraftInv, NEW o \in Operators, Update(o)
  PROVE  DraftInv' /\ Published' = Published
<1> DEFINE v == consoles[o].version
           r == Revised(v, consoles[o].document, "draft")
<1>1. versions[v] \in Version /\ consoles[o] \in Console
  BY DraftRange DEF DraftInv, DraftsTypeOK, Update, RowAt, RowAtAnyRevision, NoVersion
<1>2. r \in Version /\ r.revision = versions[v].revision + 1 /\ r.status = "draft"
  BY <1>1 DEF Version, Console, Status, Revised
<1>3. versions' = [versions EXCEPT ![v] = r]
  BY DEF Update
<1>4. RowAt(o, {"draft", "validated"}) /\ AnsweredOrLost(o, v)
  BY DEF Update
<1> HIDE DEF r
<1>5. QED BY <1>2, <1>3, <1>4, UnpublishedRowChanges

LEMMA ValidateDraft ==
  ASSUME DraftInv, NEW o \in Operators, Validate(o)
  PROVE  DraftInv' /\ Published' = Published
<1> DEFINE v == consoles[o].version
           document == versions[v].document
           status == IF document \in Invalid THEN "draft" ELSE "validated"
           r == Revised(v, document, status)
<1>1. versions[v] \in Version
  BY DraftRange DEF DraftInv, DraftsTypeOK, Validate, RowAt, RowAtAnyRevision, NoVersion
<1>2. status \in {"draft", "validated"}
  OBVIOUS
<1>3. r \in Version /\ r.revision = versions[v].revision + 1 /\ r.status = status
  <2> HIDE DEF status
  <2>1. QED BY <1>1, <1>2 DEF Version, Status, Revised
<1>4. versions' = [versions EXCEPT ![v] = r]
  BY DEF Validate
<1>5. RowAt(o, {"draft", "validated"}) /\ AnsweredOrLost(o, v)
  BY DEF Validate, RowAt, RowAtAnyRevision
<1> HIDE DEF r, status
<1>6. QED BY <1>2, <1>3, <1>4, <1>5, UnpublishedRowChanges

(* What is published is the row its operator sees, the only one published. *)
LEMMA PublishDraft ==
  ASSUME DraftInv, NEW o \in Operators, Publish(o)
  PROVE  /\ DraftInv' /\ Published' = consoles[o].version
         /\ versions[consoles[o].version].status = "validated"
         /\ versions'[consoles[o].version].document = consoles[o].document
         /\ consoles[o].document \notin Invalid
<1> DEFINE v == consoles[o].version
           n == Len(versions)
           Row(w) == IF w = v THEN Revised(v, versions[v].document, "published")
                     ELSE IF versions[w].status = "published" THEN [versions[w] EXCEPT !.status = "superseded"]
                     ELSE versions[w]
<1>1. /\ versions \in Seq(Version) /\ n <= MaxVersions /\ n \in Nat /\ DOMAIN versions = 1 .. n
      /\ \A w \in 1 .. n : versions[w] \in Version
  BY DraftRange DEF DraftInv, DraftsTypeOK
<1>2. /\ v \in 1 .. n /\ v # NoVersion /\ versions[v].status = "validated"
      /\ versions[v].revision = consoles[o].revision /\ consoles[o].document = consoles[o].saved
      /\ versions[v].document \notin Invalid
  <2>1. /\ v # NoVersion /\ versions[v].status \in {"validated"}
        /\ versions[v].revision = consoles[o].revision
        /\ consoles[o].document = consoles[o].saved /\ versions[v].document \notin Invalid
    BY DEF Publish, RowAt, RowAtAnyRevision, Dirty
  <2>2. v \in 0 .. n
    BY DEF DraftInv, DraftsTypeOK
  <2>3. QED BY <2>1, <2>2, <1>1 DEF NoVersion
<1>3. versions[v].document = consoles[o].document
  BY <1>2 DEF DraftInv, ConsolesTrue
<1>4. versions' = [w \in 1 .. n |-> Row(w)]
  BY <1>1 DEF Publish
<1>5. \A w \in 1 .. n : Row(w) \in Version
  <2>1. \A r \in Version : [r EXCEPT !.status = "superseded"] \in Version
    BY DEF Version, Status
  <2>2. Revised(v, versions[v].document, "published") \in Version
    BY <1>1, <1>2 DEF Revised, Version, Status
  <2>3. QED BY <1>1, <2>1, <2>2
<1>6. \A w \in 1 .. n : versions'[w] = Row(w)
  BY <1>4
<1>7. versions'[v] = Revised(v, versions[v].document, "published")
  BY <1>2, <1>6
<1>8. versions' \in Seq(Version) /\ Len(versions') = n /\ DOMAIN versions' = 1 .. n
  <2>1. versions' \in [1 .. n -> Version]
    <3> HIDE DEF Row
    <3>1. QED BY <1>4, <1>5
  <2>2. versions' \in Seq(Version)
    BY <2>1, <1>1, SeqDef
  <2>3. QED BY <2>1, <2>2, <1>1, LenProperties
<1>9. DraftsTypeOK' /\ ConsolesTrue'
  <2>1. \A w \in DOMAIN versions :
          \/ versions'[w].revision > versions[w].revision
          \/ /\ versions'[w].revision = versions[w].revision
             /\ versions'[w].document = versions[w].document
    <3> SUFFICES ASSUME NEW w \in 1 .. n
                 PROVE  \/ versions'[w].revision > versions[w].revision
                        \/ /\ versions'[w].revision = versions[w].revision
                           /\ versions'[w].document = versions[w].document
      BY <1>1
    <3>1. versions[w] \in Version /\ versions'[w] = Row(w)
      BY <1>1, <1>6
    <3>2. QED BY <3>1 DEF Version, Revised
  <2>2. AnsweredOrLost(o, v) /\ v \in DOMAIN versions'
    BY <1>2, <1>8 DEF Publish
  <2> HIDE DEF v
  <2>3. QED BY <1>1, <1>8, <2>1, <2>2, RowsChange
<1>10. WithStatus({"published"})' = {v}
  <2>1. \A w \in 1 .. n : w # v => versions'[w].status # "published"
    BY <1>1, <1>6 DEF Version
  <2>2. versions'[v].status = "published"
    BY <1>7 DEF Revised
  <2>3. QED BY <2>1, <2>2, <1>2, <1>8 DEF WithStatus
<1>11. Published' = v
  BY <1>2, <1>10, NewestOfOne DEF Published
<1>12. versions'[v].document = versions[v].document
  BY <1>7 DEF Revised
<1>13. QED BY <1>2, <1>3, <1>9, <1>11, <1>12 DEF DraftInv

(* ------------------------------ The steps ------------------------------- *)
LEMMA InvFacts ==
  ASSUME LayoutInv
  PROVE  /\ live \in Snapshot /\ live.version \in Nat /\ live.layout \in Layout
         /\ editors \in [Editors -> Editor]
         /\ edits \in 0 .. MaxEdits /\ faults \in 0 .. MaxFaults
         /\ MaxEdits \in Nat /\ MaxFaults \in Nat
         /\ \A e \in Editors : Faithful(editors[e], live) /\ editors[e] \in Editor
BY DraftsAssumption DEF LayoutInv, LayoutSafe, LayoutTypeOK, DraftsTypeOK, Snapshot, Faithful

LEMMA StartsFaithful ==
  Init => LayoutInv
<1> SUFFICES ASSUME Init PROVE LayoutInv
  OBVIOUS
<1>0. {MaxEdits, MaxVersions, MaxRevision, MaxFaults} \subseteq Nat
  BY DraftsAssumption
<1>1. Draft = NoVersion /\ DOMAIN versions = {}
  BY DEF Init, DraftsInit, Draft, WithStatus, Newest
<1>2. DraftInv
  <2>1. Loaded(0) \in Console /\ Loaded(0).version = 0
    BY <1>0, <1>1 DEF Loaded, Console, Status, Document, NoVersion
  <2>2. versions = <<>> /\ consoles = [o \in Operators |-> Loaded(0)] /\ edits = 0 /\ faults = 0
    BY DEF Init, DraftsInit
  <2> HIDE DEF Init
  <2>3. DraftsTypeOK
    BY <1>0, <2>1, <2>2 DEF DraftsTypeOK
  <2>4. ConsolesTrue
    BY <2>1, <2>2 DEF ConsolesTrue, NoVersion
  <2>5. QED BY <2>3, <2>4 DEF DraftInv
<1>3. live = [layout |-> Default, version |-> 0] /\ live \in Snapshot
  BY DefaultType DEF Init, Snapshot
<1> DEFINE E == [snap |-> live, due |-> FALSE, rev |-> 0, shown |-> Default.widgets,
                 pending |-> None, throttle |-> FALSE, save |-> None, style |-> None,
                 suppress |-> FALSE, timer |-> FALSE, deferred |-> None]
<1>4. editors = [e \in Editors |-> E]
  BY DEF Init
<1>5. E \in Editor
  BY <1>3, DefaultType DEF Editor, Layout
<1>6. Faithful(E, live)
  BY <1>3, <1>5 DEF Faithful, SeenTrue, SaveTrue, StyleTrue
<1> HIDE DEF E
<1>7. editors \in [Editors -> Editor] /\ \A e \in Editors : Faithful(editors[e], live)
  BY <1>4, <1>5, <1>6
<1>8. LayoutSafe
  <2>1. published = 0 /\ styled = 0 /\ Default.panels = 0 /\ Default.styles = 0
    BY DEF Init, Default
  <2> HIDE DEF Init
  <2>2. live.layout = Default
    BY <1>3
  <2>3. QED BY <1>0, <1>2, <1>3, <1>7, <2>1, <2>2 DEF LayoutSafe, LayoutTypeOK, OthersKept, DraftInv
<1>9. QED BY <1>2, <1>3, <1>7, <1>8 DEF LayoutInv

(* An editor changes no row.                                               *)
LEMMA EditorMoves ==
  ASSUME LayoutInv, NEW e \in Editors, NEW E, Faithful(E, live), Becomes(e, E),
         UNCHANGED <<draftVars, layoutVars>>,
         edits' \in 0 .. MaxEdits, faults' \in 0 .. MaxFaults
  PROVE  LayoutInv'
<1>1. UNCHANGED <<versions, consoles, live, published, styled>>
  BY DEF draftVars, layoutVars
<1>2. editors' \in [Editors -> Editor] /\ \A f \in Editors : Faithful(editors'[f], live)
  BY InvFacts DEF Becomes, Faithful
<1>3. DraftInv'
  BY <1>1 DEF LayoutInv, DraftInv, DraftsTypeOK, ConsolesTrue
<1>4. LayoutSafe'
  BY <1>1, <1>2, <1>3 DEF LayoutInv, LayoutSafe, LayoutTypeOK, OthersKept, DraftInv
<1>5. (live.version = 0 => live.layout = Default)'
  BY <1>1 DEF LayoutInv
<1>6. (\A f \in Editors : Faithful(editors[f], live))'
  BY <1>1, <1>2
<1>7. QED BY <1>3, <1>4, <1>5, <1>6 DEF LayoutInv

(* A save is accepted: the panels stay, the styles are those of history.   *)
LEMMA EditorPuts ==
  ASSUME LayoutInv, NEW e \in Editors, NEW E,
         live' \in Snapshot, live'.version > live.version, Faithful(E, live'), Becomes(e, E),
         live'.layout.panels = live.layout.panels,
         live'.layout.styles = styled', styled' \in 0 .. MaxEdits,
         UNCHANGED <<draftVars, edits, published>>, faults' \in 0 .. MaxFaults
  PROVE  LayoutInv'
<1>1. UNCHANGED <<versions, consoles, edits, published>>
  BY DEF draftVars
<1>2. \A f \in Editors : Faithful(editors[f], live')
  BY InvFacts, LaterFaithful
<1>3. editors' \in [Editors -> Editor] /\ \A f \in Editors : Faithful(editors'[f], live')
  BY <1>2, InvFacts DEF Becomes, Faithful
<1>4. DraftInv'
  BY <1>1 DEF LayoutInv, DraftInv, DraftsTypeOK, ConsolesTrue
<1>5. LayoutSafe'
  BY <1>1, <1>3, <1>4 DEF LayoutInv, LayoutSafe, LayoutTypeOK, OthersKept, DraftInv
<1>6. live'.version # 0
  BY InvFacts DEF Snapshot
<1>7. QED BY <1>3, <1>4, <1>5, <1>6 DEF LayoutInv

LEMMA DraftsMove ==
  ASSUME LayoutInv, NEW o \in Operators, Panels(o)
  PROVE  LayoutInv' /\ (Published' = Published)
<1>1. UNCHANGED <<live, published, styled, editors>>
  BY DEF Panels, layoutVars
<1>2. DraftInv
  BY DEF LayoutInv
<1>3. DraftInv' /\ Published' = Published
  <2>1. CASE Load(o, live.layout.panels)
    <3>1. live.layout.panels \in Document
      BY InvFacts DEF Layout, Document
    <3>2. DraftInv'
      BY <1>2, <2>1, <3>1, LoadDraft
    <3>3. QED BY <2>1, <3>2 DEF Load, Published, WithStatus
  <2>2. CASE Edit(o)
    <3>1. DraftInv'
      BY <1>2, <2>2, EditDraft
    <3>2. QED BY <2>2, <3>1 DEF Edit, Published, WithStatus
  <2>3. CASE Create(o)
    BY <1>2, <2>3, CreateDraft
  <2>4. CASE Update(o)
    BY <1>2, <2>4, UpdateDraft
  <2>5. CASE Validate(o)
    BY <1>2, <2>5, ValidateDraft
  <2>6. QED BY <2>1, <2>2, <2>3, <2>4, <2>5 DEF Panels, DraftStep
<1>4. LayoutSafe'
  BY <1>1, <1>3 DEF LayoutInv, LayoutSafe, LayoutTypeOK, OthersKept, DraftInv
<1>5. (\A f \in Editors : Faithful(editors[f], live))' /\ (live.version = 0 => live.layout = Default)'
  BY <1>1 DEF LayoutInv
<1>6. QED BY <1>3, <1>4, <1>5 DEF LayoutInv

LEMMA LayoutPublished ==
  ASSUME LayoutInv, NEW o \in Operators, PublishLayout(o)
  PROVE  LayoutInv' /\ live'.layout.widgets = live.layout.widgets
<1>1. DraftInv' /\ consoles[o].document \in Document
  BY PublishDraft DEF LayoutInv, PublishLayout, DraftInv, DraftsTypeOK, Console
<1>2. published' = consoles[o].document /\ published' \in 0 .. MaxEdits
      /\ UNCHANGED <<styled, editors>>
      /\ live' = [layout |-> ResetLayout(published'), version |-> live.version + 1]
  BY <1>1 DEF PublishLayout, Put, Document
<1>3. live.layout \in Layout /\ live.version \in Nat
      /\ live.layout.panels = published /\ live.layout.styles = styled
      /\ (live.version = 0 => live.layout = Default) /\ styled \in 0 .. MaxEdits
  BY InvFacts DEF LayoutInv, LayoutSafe, LayoutTypeOK, OthersKept
<1>4. ResetLayout(published') = [live.layout EXCEPT !.panels = published']
  BY <1>3 DEF ResetLayout
<1> DEFINE layout == [live.layout EXCEPT !.panels = published']
<1>5. layout \in Layout /\ layout.panels = published' /\ layout.styles = styled
      /\ layout.widgets = live.layout.widgets
  BY <1>2, <1>3 DEF Layout
<1>6. live' = [layout |-> layout, version |-> live.version + 1]
  BY <1>2, <1>4
<1> HIDE DEF layout
<1>7. live' \in Snapshot /\ live'.version > live.version
  BY <1>3, <1>5, <1>6 DEF Snapshot
<1>8. LayoutSafe'
  BY <1>1, <1>2, <1>3, <1>5, <1>6, <1>7, InvFacts DEF LayoutSafe, LayoutTypeOK, OthersKept, DraftInv
<1>9. (\A f \in Editors : Faithful(editors[f], live))'
  <2>1. \A f \in Editors : Faithful(editors[f], live')
    BY <1>7, InvFacts, LaterFaithful
  <2>2. QED BY <1>2, <2>1
<1>10. live'.version # 0
  BY <1>3, <1>6
<1>11. QED BY <1>1, <1>5, <1>6, <1>8, <1>9, <1>10 DEF LayoutInv

LEMMA PageMoves ==
  ASSUME LayoutInv, NEW e \in Editors,
         ThrottleFires(e) \/ SuppressEnds(e) \/ Render(e) \/ Poll(e) \/ SaveAnswered(e)
  PROVE  LayoutInv'
<1> DEFINE F == editors[e]
<1>1. /\ Faithful(F, live) /\ F \in Editor /\ live \in Snapshot /\ live.version \in Nat
      /\ edits \in 0 .. MaxEdits /\ faults \in 0 .. MaxFaults
  BY InvFacts
<1>2. ASSUME NEW E, Faithful(E, live), Becomes(e, E), Local, UNCHANGED edits PROVE LayoutInv'
  BY <1>1, <1>2, EditorMoves DEF Local
<1> HIDE DEF F
<1>3. CASE ThrottleFires(e)
  <2> DEFINE E == [F EXCEPT !.throttle = FALSE]
  <2>1. /\ Becomes(e, IF E.pending = None THEN E ELSE Flush(E, E.pending))
        /\ Local /\ UNCHANGED edits
    BY <1>3 DEF ThrottleFires, F
  <2>2. E \in Editor /\ E.snap = F.snap /\ E.rev = F.rev /\ E.style = F.style /\ E.save = F.save
        /\ E.deferred = F.deferred
    BY <1>1 DEF Editor
  <2> HIDE DEF E
  <2>3. Faithful(E, live)
    BY <1>1, <2>2, SameSightFaithful
  <2>4. CASE E.pending = None
    BY <1>2, <2>1, <2>3, <2>4
  <2>5. CASE E.pending # None
    <3>1. E.pending \in Positions
      BY <2>2, <2>5 DEF Editor
    <3>2. Faithful(Flush(E, E.pending), live)
      BY <1>1, <2>3, <3>1, FlushFaithful
    <3>3. QED BY <1>2, <2>1, <2>5, <3>2
  <2>6. QED BY <2>4, <2>5
<1>4. CASE SuppressEnds(e)
  <2> DEFINE E == [F EXCEPT !.timer = FALSE, !.suppress = FALSE]
  <2>1. Becomes(e, E) /\ Local /\ UNCHANGED edits
    BY <1>4 DEF SuppressEnds, F
  <2>2. E \in Editor /\ E.snap = F.snap /\ E.rev = F.rev /\ E.style = F.style /\ E.save = F.save
        /\ E.deferred = F.deferred
    BY <1>1 DEF Editor
  <2> HIDE DEF E
  <2>3. Faithful(E, live)
    BY <1>1, <2>2, SameSightFaithful
  <2>4. QED BY <1>2, <2>1, <2>3
<1>5. CASE Render(e)
  <2> DEFINE E == [F EXCEPT !.due = FALSE]
             D == [E EXCEPT !.deferred = E.snap]
  <2>1. Becomes(e, IF E.suppress THEN D ELSE Show(E, E.snap)) /\ Local /\ UNCHANGED edits
    BY <1>5 DEF Render, F
  <2>2. E \in Editor /\ E.snap = F.snap /\ E.rev = F.rev /\ E.style = F.style /\ E.save = F.save
        /\ E.deferred = F.deferred
    BY <1>1 DEF Editor
  <2> HIDE DEF E
  <2>3. Faithful(E, live)
    BY <1>1, <2>2, SameSightFaithful
  <2>4. E.snap \in Snapshot /\ E.snap.version \in Nat
    BY <2>2 DEF Editor, Snapshot
  <2>5. Faithful(D, live)
    <3>1. D \in Editor /\ D.snap = E.snap /\ D.rev = E.rev /\ D.style = E.style /\ D.save = E.save
          /\ D.deferred = E.snap
      BY <2>2, <2>4 DEF Editor
    <3> HIDE DEF D
    <3>2. QED BY <2>3, <2>4, <3>1 DEF Faithful, SeenTrue, SaveTrue, StyleTrue
  <2>6. Faithful(Show(E, E.snap), live)
    BY <1>1, <2>3, <2>4, ShowFaithful
  <2> HIDE DEF D
  <2>7. QED BY <1>2, <2>1, <2>5, <2>6
<1>6. CASE Poll(e)
  <2>1. Becomes(e, Take(F, live)) /\ Local /\ UNCHANGED edits
    BY <1>6 DEF Poll, F
  <2>2. Faithful(Take(F, live), live)
    BY <1>1, TakeFaithful
  <2>3. QED BY <1>2, <2>1, <2>2
<1>7. CASE SaveAnswered(e)
  <2> DEFINE s == F.save
             answer == [layout |-> s.layout, version |-> s.version]
  <2>1. s # None /\ s \in Save /\ s.state \in {"saved", "refused", "lost"} /\ Local /\ UNCHANGED edits
    BY <1>1, <1>7 DEF SaveAnswered, F, Editor, Save
  <2>2. Becomes(e, CASE s.state = "saved" -> Succeed(Take(F, answer), s.version)
                     [] s.state = "refused" -> Fail(Take(F, live))
                     [] s.state = "lost" -> Fail(F))
    BY <1>7 DEF SaveAnswered, F
  <2>3. CASE s.state = "saved"
    <3>1. answer \in Snapshot /\ answer.version = s.version /\ answer.layout = s.layout
          /\ s.version \in Nat
      BY <2>1 DEF Save, Snapshot
    <3>2. s.version <= live.version /\ (s.version = live.version => s.layout = live.layout)
      BY <1>1, <2>1, <2>3 DEF Faithful, SaveTrue
    <3> HIDE DEF answer
    <3>3. Faithful(Take(F, answer), live) /\ s.version <= Take(F, answer).snap.version
      BY <1>1, <3>1, <3>2, TakeFaithful
    <3>4. Faithful(Succeed(Take(F, answer), s.version), live)
      BY <1>1, <3>1, <3>3, SucceedFaithful
    <3>5. Becomes(e, Succeed(Take(F, answer), s.version))
      BY <2>2, <2>3
    <3>6. QED BY <1>2, <2>1, <3>4, <3>5
  <2>4. CASE s.state = "refused"
    <3>1. Faithful(Take(F, live), live)
      BY <1>1, TakeFaithful
    <3>2. Faithful(Fail(Take(F, live)), live)
      BY <1>1, <3>1, FailFaithful
    <3>3. Becomes(e, Fail(Take(F, live)))
      BY <2>2, <2>4
    <3>4. QED BY <1>2, <2>1, <3>2, <3>3
  <2>5. CASE s.state = "lost"
    <3>1. Faithful(Fail(F), live)
      BY <1>1, FailFaithful
    <3>2. Becomes(e, Fail(F))
      BY <2>2, <2>5
    <3>3. QED BY <1>2, <2>1, <3>1, <3>2
  <2>6. QED BY <2>1, <2>3, <2>4, <2>5
<1>8. QED BY <1>3, <1>4, <1>5, <1>6, <1>7

LEMMA HandMoves ==
  ASSUME LayoutInv, NEW e \in Editors, NEW w \in Widgets, Drag(e, w) \/ Drop(e, w)
  PROVE  LayoutInv'
<1> DEFINE F == editors[e]
           E == [F EXCEPT !.shown = Moved(e, w), !.throttle = FALSE]
           D == [F EXCEPT !.shown = Moved(e, w), !.pending = Moved(e, w), !.throttle = TRUE]
<1>1. /\ Faithful(F, live) /\ F \in Editor /\ live \in Snapshot
      /\ edits \in 0 .. MaxEdits /\ faults \in 0 .. MaxFaults /\ MaxEdits \in Nat
  BY InvFacts
<1>2. edits < MaxEdits /\ edits' = edits + 1 /\ edits' \in 0 .. MaxEdits
      /\ edits + 1 \in 0 .. MaxEdits
      /\ UNCHANGED <<draftVars, layoutVars, faults>>
  BY <1>1 DEF Drag, Drop, Local
<1>3. Moved(e, w) \in Positions
  BY <1>1, <1>2 DEF Moved, Positions, Editor
<1>4. E \in Editor /\ E.snap = F.snap /\ E.rev = F.rev /\ E.style = F.style /\ E.save = F.save
      /\ E.deferred = F.deferred
  BY <1>1, <1>3 DEF Editor
<1>5. D \in Editor /\ D.snap = F.snap /\ D.rev = F.rev /\ D.style = F.style /\ D.save = F.save
      /\ D.deferred = F.deferred
  BY <1>1, <1>3 DEF Editor
<1>6. CASE Drag(e, w)
  <2>1. Becomes(e, D)
    BY <1>6 DEF Drag
  <2> HIDE DEF D, F
  <2>2. Faithful(D, live)
    BY <1>1, <1>5, SameSightFaithful
  <2>3. QED BY <1>1, <1>2, <2>1, <2>2, EditorMoves
<1>7. CASE Drop(e, w)
  <2>1. Becomes(e, Flush(E, Moved(e, w)))
    BY <1>7 DEF Drop
  <2> HIDE DEF E, F
  <2>2. Faithful(E, live)
    BY <1>1, <1>4, SameSightFaithful
  <2>3. Faithful(Flush(E, Moved(e, w)), live)
    BY <1>1, <1>3, <2>2, FlushFaithful
  <2>4. QED BY <1>1, <1>2, <2>1, <2>3, EditorMoves
<1>8. QED BY <1>6, <1>7

LEMMA SavesServed ==
  ASSUME LayoutInv, NEW e \in Editors, ServeSave(e) \/ LoseSave(e)
  PROVE  LayoutInv'
<1> DEFINE F == editors[e]
           s == F.save
<1>1. /\ Faithful(F, live) /\ F \in Editor /\ live \in Snapshot /\ live.version \in Nat
      /\ live.layout \in Layout
      /\ edits \in 0 .. MaxEdits /\ faults \in 0 .. MaxFaults /\ MaxFaults \in Nat
  BY InvFacts
<1>2. s # None /\ s \in Save /\ s.expected \in Nat /\ s.layout \in Layout
  BY <1>1 DEF ServeSave, LoseSave, Editor, Save
<1>3. UNCHANGED <<draftVars, edits, published, styled>>
  BY DEF ServeSave, LoseSave, layoutVars
<1> HIDE DEF s
<1>4. ASSUME NEW t \in Save, NEW E, E = [F EXCEPT !.save = t]
      PROVE  /\ E \in Editor /\ E.snap = F.snap /\ E.rev = F.rev /\ E.style = F.style
             /\ E.save = t /\ E.deferred = F.deferred
  BY <1>1, <1>4 DEF Editor
<1>5. CASE ServeSave(e) /\ Accepted(s.expected)
  <2> DEFINE t == [s EXCEPT !.state = "saved", !.version = live'.version]
             E == [F EXCEPT !.save = t]
  <2>1. /\ Put(s.layout) /\ s.state = "sent" /\ s.expected = live.version /\ faults' = faults
        /\ Becomes(e, E)
    BY <1>5 DEF ServeSave, Accepted, s
  <2>2. /\ live' = [layout |-> s.layout, version |-> live.version + 1]
        /\ live' \in Snapshot /\ live'.version > live.version
    BY <1>1, <1>2, <2>1 DEF Put, Snapshot
  <2>3. s.layout.panels = live.layout.panels /\ s.layout.styles = live.layout.styles
    BY <1>1, <1>2, <2>1 DEF Faithful, SaveTrue, s
  <2>4. t \in Save /\ t.state = "saved" /\ t.version = live'.version /\ t.layout = live'.layout
        /\ t.expected <= live'.version
    <3>1. live'.version \in Nat /\ live'.layout = s.layout /\ s.expected <= live'.version
      BY <1>1, <1>2, <2>1, <2>2
    <3>2. \A v \in Nat : LET r == [s EXCEPT !.state = "saved", !.version = v]
                       IN /\ r \in Save /\ r.state = "saved" /\ r.version = v
                          /\ r.layout = s.layout /\ r.expected = s.expected
      BY <1>2 DEF Save
    <3>3. QED BY <3>1, <3>2
  <2> HIDE DEF t, F
  <2>5. E \in Editor /\ E.snap = F.snap /\ E.rev = F.rev /\ E.style = F.style
        /\ E.save = t /\ E.deferred = F.deferred
    BY <1>4, <2>4
  <2> HIDE DEF E
  <2>6. Faithful(F, live')
    BY <1>1, <2>2, LaterFaithful
  <2>7. Faithful(E, live')
    <3>1. SaveTrue(E, live')
      BY <2>2, <2>4, <2>5 DEF SaveTrue, Snapshot
    <3>2. QED BY <2>5, <2>6, <3>1 DEF Faithful, SeenTrue, StyleTrue
  <2>8. live'.layout.panels = live.layout.panels /\ live'.layout.styles = styled'
         /\ styled' \in 0 .. MaxEdits
    BY <1>3, <2>2, <2>3 DEF LayoutInv, LayoutSafe, LayoutTypeOK, OthersKept
  <2>9. QED BY <1>1, <1>3, <2>1, <2>2, <2>7, <2>8, EditorPuts
<1>6. ASSUME NEW state \in {"refused", "lost"},
             Becomes(e, [F EXCEPT !.save.state = state]), UNCHANGED live, faults' \in 0 .. MaxFaults
      PROVE  LayoutInv'
  <2> DEFINE t == [s EXCEPT !.state = state]
             E == [F EXCEPT !.save = t]
  <2>1. t \in Save /\ t.state = state /\ t.expected = s.expected
    BY <1>2, <1>6 DEF Save
  <2>2. [F EXCEPT !.save.state = state] = E
    BY <1>1, <1>2 DEF Editor, Save, s
  <2>3. Becomes(e, E)
    BY <1>6, <2>2
  <2> HIDE DEF t, F
  <2>4. E \in Editor /\ E.snap = F.snap /\ E.rev = F.rev /\ E.style = F.style
        /\ E.save = t /\ E.deferred = F.deferred
    BY <1>4, <2>1
  <2> HIDE DEF E
  <2>5. Faithful(E, live)
    BY <1>1, <1>2, <1>6, <2>1, <2>4 DEF Faithful, SeenTrue, SaveTrue, StyleTrue, s
  <2>6. QED BY <1>1, <1>3, <1>6, <2>3, <2>5, EditorMoves DEF layoutVars
<1>7. CASE ServeSave(e) /\ ~Accepted(s.expected)
  BY <1>1, <1>6, <1>7 DEF ServeSave, s
<1>8. CASE LoseSave(e)
  BY <1>1, <1>6, <1>8 DEF LoseSave, layoutVars
<1>9. QED BY <1>5, <1>7, <1>8

LEMMA StylesServed ==
  ASSUME LayoutInv, NEW e \in Editors, SetStyle(e) \/ ServeStyle(e) \/ LoseStyle(e)
  PROVE  LayoutInv'
<1> DEFINE F == editors[e]
           s == F.style
           E == [F EXCEPT !.style = None]
<1>1. /\ Faithful(F, live) /\ F \in Editor /\ live \in Snapshot /\ live.version \in Nat
      /\ live.layout \in Layout
      /\ edits \in 0 .. MaxEdits /\ faults \in 0 .. MaxFaults
      /\ MaxEdits \in Nat /\ MaxFaults \in Nat
  BY InvFacts
<1>2. E \in Editor /\ E.snap = F.snap /\ E.rev = F.rev /\ E.style = None /\ E.save = F.save
      /\ E.deferred = F.deferred
  BY <1>1 DEF Editor
<1>3. ASSUME NEW L \in Snapshot, Faithful(F, L) PROVE Faithful(E, L)
  <2> HIDE DEF E, F
  <2>1. QED BY <1>2, <1>3 DEF Faithful, SeenTrue, SaveTrue, StyleTrue
<1>4. ASSUME s # None, Accepted(s.expected), Put(s.layout), styled' = s.layout.styles
      PROVE  /\ live' \in Snapshot /\ live'.version > live.version
             /\ live'.layout.panels = live.layout.panels
             /\ live'.layout.styles = styled' /\ styled' \in 0 .. MaxEdits
  <2>1. s \in Style /\ s.layout \in Layout
    BY <1>1, <1>4 DEF Editor, Style
  <2>2. s.layout.panels = live.layout.panels
    BY <1>1, <1>4 DEF Accepted, Faithful, StyleTrue
  <2> HIDE DEF s
  <2>3. live' = [layout |-> s.layout, version |-> live.version + 1]
    BY <1>4 DEF Put
  <2>4. s.layout.styles \in 0 .. MaxEdits
    BY <2>1 DEF Layout
  <2>5. QED BY <1>1, <1>4, <2>1, <2>2, <2>3, <2>4 DEF Snapshot
<1>5. CASE SetStyle(e)
  <2> DEFINE t == [layout |-> [F.snap.layout EXCEPT !.styles = edits + 1],
                   expected |-> F.snap.version]
             D == [F EXCEPT !.style = t]
  <2>1. /\ edits < MaxEdits /\ edits' = edits + 1 /\ Becomes(e, D)
        /\ UNCHANGED <<draftVars, layoutVars, faults>>
    BY <1>5 DEF SetStyle, Local
  <2>2. F.snap \in Snapshot /\ F.snap.layout \in Layout /\ F.snap.version \in Nat
        /\ edits + 1 \in 0 .. MaxEdits /\ edits' \in 0 .. MaxEdits
    BY <1>1, <2>1 DEF Editor, Snapshot
  <2>3. t \in Style /\ t.expected = F.snap.version /\ t.layout.panels = F.snap.layout.panels
    BY <2>2 DEF Style, Layout
  <2> HIDE DEF t
  <2>4. D \in Editor /\ D.snap = F.snap /\ D.rev = F.rev /\ D.style = t /\ D.save = F.save
        /\ D.deferred = F.deferred
    BY <1>1, <2>3 DEF Editor
  <2> HIDE DEF D, F
  <2>5. StyleTrue(D, live)
    BY <1>1, <2>3, <2>4 DEF Faithful, SeenTrue, StyleTrue
  <2>6. Faithful(D, live)
    BY <1>1, <2>4, <2>5 DEF Faithful, SeenTrue, SaveTrue
  <2>7. QED BY <1>1, <2>1, <2>2, <2>6, EditorMoves
<1>6. CASE ServeStyle(e) /\ Accepted(s.expected)
  <2>1. /\ s # None /\ Put(s.layout) /\ styled' = s.layout.styles /\ Becomes(e, Take(E, live'))
        /\ UNCHANGED <<draftVars, edits, faults, published>>
    BY <1>6 DEF ServeStyle
  <2> HIDE DEF s, E, F
  <2>2. /\ live' \in Snapshot /\ live'.version > live.version
        /\ live'.layout.panels = live.layout.panels
        /\ live'.layout.styles = styled' /\ styled' \in 0 .. MaxEdits
    BY <1>4, <1>6, <2>1
  <2>3. Faithful(F, live')
    BY <1>1, <2>2, LaterFaithful
  <2>4. Faithful(E, live')
    BY <1>3, <2>2, <2>3
  <2>5. live'.version <= live'.version
    BY <2>2 DEF Snapshot
  <2>6. Faithful(Take(E, live'), live')
    BY <2>2, <2>4, <2>5, TakeFaithful
  <2>7. QED BY <1>1, <2>1, <2>2, <2>6, EditorPuts
<1>7. CASE ServeStyle(e) /\ ~Accepted(s.expected)
  <2>1. Becomes(e, Take(E, live)) /\ UNCHANGED <<draftVars, layoutVars, edits, faults>>
    BY <1>7 DEF ServeStyle, layoutVars
  <2> HIDE DEF s, E, F
  <2>2. Faithful(Take(E, live), live)
    BY <1>1, <1>3, TakeFaithful
  <2>3. QED BY <1>1, <2>1, <2>2, EditorMoves
<1>8. CASE LoseStyle(e)
  <2>1. /\ s # None /\ faults' \in 0 .. MaxFaults /\ Becomes(e, E)
        /\ UNCHANGED <<draftVars, edits, published>>
        /\ \/ Accepted(s.expected) /\ Put(s.layout) /\ styled' = s.layout.styles
           \/ UNCHANGED <<live, styled>>
    BY <1>1, <1>8 DEF LoseStyle
  <2> HIDE DEF s, E, F
  <2>2. CASE Accepted(s.expected) /\ Put(s.layout) /\ styled' = s.layout.styles
    <3>1. /\ live' \in Snapshot /\ live'.version > live.version
          /\ live'.layout.panels = live.layout.panels
          /\ live'.layout.styles = styled' /\ styled' \in 0 .. MaxEdits
      BY <1>4, <2>1, <2>2
    <3>2. Faithful(E, live')
      BY <1>1, <1>3, <3>1, LaterFaithful
    <3>3. QED BY <1>1, <2>1, <3>1, <3>2, EditorPuts
  <2>3. CASE UNCHANGED <<live, styled>>
    BY <1>1, <1>3, <2>1, <2>3, EditorMoves DEF layoutVars
  <2>4. QED BY <2>1, <2>2, <2>3
<1>9. QED BY <1>5, <1>6, <1>7, <1>8

LEMMA LayoutSteps ==
  LayoutInv /\ [Next]_vars => LayoutInv'
<1> SUFFICES ASSUME LayoutInv, [Next]_vars PROVE LayoutInv'
  OBVIOUS
<1>1. CASE UNCHANGED vars
  BY <1>1 DEF vars, draftVars, layoutVars, LayoutInv, DraftInv, DraftsTypeOK, ConsolesTrue,
              LayoutSafe, LayoutTypeOK, OthersKept
<1>2. CASE \E o \in Operators : Panels(o) \/ PublishLayout(o)
  BY <1>2, DraftsMove, LayoutPublished
<1>3. CASE \E e \in Editors :
             \/ Page(e) \/ Poll(e) \/ LoseSave(e)
             \/ SetStyle(e) \/ ServeStyle(e) \/ LoseStyle(e)
             \/ \E w \in Widgets : Drag(e, w) \/ Drop(e, w)
  BY <1>3, PageMoves, HandMoves, SavesServed, StylesServed DEF Page
<1>4. QED BY <1>1, <1>2, <1>3 DEF Next

(* Whoever saves what, on however old a page, and whatever is published in *)
(* between: the panels in effect are those published last, the styles those*)
(* saved last.                                                             *)
THEOREM OthersAreKept == Spec => []LayoutSafe
<1>1. LayoutInv => LayoutSafe
  BY DEF LayoutInv
<1>2. QED BY <1>1, StartsFaithful, LayoutSteps, PTL DEF Spec

(* What is published has passed validation and is what its operator sees,  *)
(* though others edit the same draft, and no widget moves by it.           *)
THEOREM ReviewedIsPublished == Spec => PublishedAsReviewed
<1> DEFINE Reviewed ==
      Published' \notin {Published, NoVersion} =>
        /\ versions[Published'].status = "validated"
        /\ versions'[Published'].document \notin Invalid
        /\ \E o \in Operators :
             /\ consoles[o].version = Published'
             /\ consoles[o].document = versions'[Published'].document
        /\ live'.layout.widgets = live.layout.widgets
<1>1. LayoutInv /\ [Next]_vars => [Reviewed]_vars
  <2> SUFFICES ASSUME LayoutInv, Next PROVE Reviewed
    OBVIOUS
  <2>1. CASE \E o \in Operators : Panels(o)
    BY <2>1, DraftsMove
  <2>2. CASE \E o \in Operators : PublishLayout(o)
    <3>1. PICK o \in Operators : PublishLayout(o)
      BY <2>2
    <3>2. /\ Published' = consoles[o].version
          /\ versions[consoles[o].version].status = "validated"
          /\ versions'[consoles[o].version].document = consoles[o].document
          /\ consoles[o].document \notin Invalid
      BY <3>1, PublishDraft DEF PublishLayout, LayoutInv
    <3>3. live'.layout.widgets = live.layout.widgets
      BY <3>1, LayoutPublished
    <3>4. QED BY <3>2, <3>3
  <2>3. CASE UNCHANGED versions
    <3>1. Published' = Published
      BY <2>3 DEF Published, WithStatus
    <3>2. QED BY <3>1
  <2>4. CASE \E e \in Editors :
               \/ Page(e) \/ Poll(e) \/ LoseSave(e)
               \/ SetStyle(e) \/ ServeStyle(e) \/ LoseStyle(e)
               \/ \E w \in Widgets : Drag(e, w) \/ Drop(e, w)
    <3>1. UNCHANGED versions
      BY <2>4 DEF Page, ThrottleFires, SuppressEnds, Render, ServeSave, SaveAnswered, Poll, LoseSave,
                  SetStyle, ServeStyle, LoseStyle, Drag, Drop, Local, draftVars
    <3>2. QED BY <2>3, <3>1
  <2>5. QED BY <2>1, <2>2, <2>4 DEF Next
<1>2. QED BY <1>1, StartsFaithful, LayoutSteps, PTL DEF Spec, PublishedAsReviewed
=============================================================================
