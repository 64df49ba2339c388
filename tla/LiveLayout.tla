----------------------------- MODULE LiveLayout -----------------------------
(***************************************************************************)
(* The live layout of a channel's overlay (overlay-layout.ts), the editors *)
(* that move its widgets and set their styles (live-layout-editor.tsx with *)
(* the canvas of total-overlay-layout-settings.tsx), and the publication of*)
(* panels and themes, which writes the same row.                           *)
(*                                                                         *)
(* A layout says of each widget which edit placed it, and which edits its  *)
(* styles and its panels (everything a publication sets) are of.  The      *)
(* server's calls are transactions under one advisory lock.  The answer to *)
(* a save of widgets is a step of its own; polls and the saves of a style  *)
(* are answered at once, for an editor takes only newer layouts from them. *)
(***************************************************************************)
EXTENDS ConfigDrafts

CONSTANTS
  Editors, Widgets,
  None        (* nothing waits, is in flight or was put off                 *)

VARIABLES
  live,       (* the row: its layout and version                            *)
  editors,    (* Editors -> the state of the page                           *)
  published, styled (* history: the edits last published, last saved as style *)
layoutVars == <<live, published, styled>>
vars == <<draftVars, edits, faults, layoutVars, editors>>

Positions == [Widgets -> 0 .. MaxEdits]
Layout    == [widgets : Positions, styles : 0 .. MaxEdits, panels : 0 .. MaxEdits]
Snapshot  == [layout : Layout, version : Nat]
Save  == [layout : Layout, expected : Nat, state : {"sent", "saved", "refused", "lost"},
          version : Nat]
Style == [layout : Layout, expected : Nat]

(* snap: the newest layout read; due: it is not rendered yet; rev: the     *)
(* version the canvas counts as its base; shown: the widgets on the canvas;*)
(* pending, throttle: widgets to save, the timer of a drag that will; save,*)
(* style: the calls in flight; suppress, timer: snapshots are put off, the *)
(* timer that ends it; deferred: the snapshot put off.                     *)
Editor == [snap : Snapshot, due : BOOLEAN, rev : Nat, shown : Positions,
           pending : Positions \cup {None}, throttle : BOOLEAN,
           save : Save \cup {None}, style : Style \cup {None},
           suppress : BOOLEAN, timer : BOOLEAN, deferred : Snapshot \cup {None}]

LayoutTypeOK ==
  /\ DraftsTypeOK /\ live \in Snapshot /\ editors \in [Editors -> Editor]
  /\ published \in 0 .. MaxEdits /\ styled \in 0 .. MaxEdits

Default == [widgets |-> [w \in Widgets |-> 0], styles |-> 0, panels |-> 0]

(* Version 0 is no row: the default layout is in effect.                   *)
Init ==
  /\ DraftsInit
  /\ live = [layout |-> Default, version |-> 0] /\ published = 0 /\ styled = 0
  /\ editors = [e \in Editors |->
       [snap |-> live, due |-> FALSE, rev |-> 0, shown |-> Default.widgets,
        pending |-> None, throttle |-> FALSE, save |-> None, style |-> None,
        suppress |-> FALSE, timer |-> FALSE, deferred |-> None]]

---------------------------------------------------------------------------
(* The server.                                                             *)
AcceptedAnyway(expected) == TRUE

Accepted(expected) == live.version = expected
Put(layout) == live' = [layout |-> layout, version |-> live.version + 1]

(* A publication keeps widgets and styles once there is a row.             *)
ResetLayout(panels) ==
  IF live.version = 0 THEN [Default EXCEPT !.panels = panels]
  ELSE [live.layout EXCEPT !.panels = panels]

PublishLayout(o) ==
  /\ Publish(o)
  /\ published' = consoles[o].document /\ Put(ResetLayout(published'))
  /\ UNCHANGED <<styled, editors>>

Panels(o) ==
  /\ DraftStep(o) \/ Load(o, live.layout.panels)
  /\ UNCHANGED <<layoutVars, editors>>

---------------------------------------------------------------------------
(* The editor: what changes a record E of its state.                       *)
Show(E, s) ==
  IF s.version < E.rev THEN E
  ELSE [E EXCEPT !.rev = s.version, !.shown = s.layout.widgets]
ShowDeferred(E) ==
  IF E.deferred = None THEN E ELSE [Show(E, E.deferred) EXCEPT !.deferred = None]

(* applySnapshot: only a newer one is taken, and rendered in a later step. *)
Take(E, s) == IF s.version > E.snap.version THEN [E EXCEPT !.snap = s, !.due = TRUE] ELSE E

(* flushSave.  The base is that of the canvas, the rest of the layout that *)
(* of the newest snapshot.                                                 *)
Flush(E, widgets) ==
  LET muted == [E EXCEPT !.suppress = TRUE, !.timer = FALSE]
  IN IF E.save # None THEN [muted EXCEPT !.pending = widgets]
     ELSE [muted EXCEPT !.pending = None,
             !.save = [layout |-> [E.snap.layout EXCEPT !.widgets = widgets],
                       expected |-> E.rev, state |-> "sent", version |-> 0]]

(* onSuccess and onSettled of a save that succeeded as version v.          *)
DropDeferred(E) ==
  IF E.deferred # None /\ E.deferred.version <= E.rev THEN [E EXCEPT !.deferred = None] ELSE E
Succeed(E, v) ==
  LET saved == DropDeferred([E EXCEPT !.rev = v, !.save = None])
  IN IF saved.pending # None THEN Flush(saved, saved.pending)
     ELSE [ShowDeferred(saved) EXCEPT !.timer = TRUE]

FailStillSaving(E) ==
  ShowDeferred([E EXCEPT !.pending = None, !.throttle = FALSE, !.suppress = FALSE])

(* onSettled of one that did not.                                          *)
Fail(E) ==
  ShowDeferred([E EXCEPT !.save = None, !.pending = None,
                         !.throttle = FALSE, !.suppress = FALSE])

---------------------------------------------------------------------------
Becomes(e, E) == editors' = [editors EXCEPT ![e] = E]
Local == UNCHANGED <<draftVars, layoutVars, faults>>

(* A drag saves at most every 150 ms, its end, a toggle or a key at once.  *)
Moved(e, w) == [editors[e].shown EXCEPT ![w] = edits + 1]
Drag(e, w) ==
  /\ edits < MaxEdits /\ edits' = edits + 1
  /\ Becomes(e, [editors[e] EXCEPT !.shown = Moved(e, w), !.pending = Moved(e, w),
                                   !.throttle = TRUE])
  /\ Local
Drop(e, w) ==
  /\ edits < MaxEdits /\ edits' = edits + 1
  /\ Becomes(e, Flush([editors[e] EXCEPT !.shown = Moved(e, w), !.throttle = FALSE],
                      Moved(e, w)))
  /\ Local

ThrottleFires(e) ==
  /\ editors[e].throttle
  /\ LET E == [editors[e] EXCEPT !.throttle = FALSE]
     IN Becomes(e, IF E.pending = None THEN E ELSE Flush(E, E.pending))
  /\ Local /\ UNCHANGED edits

SuppressEnds(e) ==
  /\ editors[e].timer
  /\ Becomes(e, [editors[e] EXCEPT !.timer = FALSE, !.suppress = FALSE])
  /\ Local /\ UNCHANGED edits

Poll(e) ==
  /\ live.version > editors[e].snap.version
  /\ Becomes(e, Take(editors[e], live))
  /\ Local /\ UNCHANGED edits

(* The effect on a new snapshot.                                           *)
Render(e) ==
  /\ editors[e].due
  /\ LET E == [editors[e] EXCEPT !.due = FALSE]
     IN Becomes(e, IF E.suppress THEN [E EXCEPT !.deferred = E.snap] ELSE Show(E, E.snap))
  /\ Local /\ UNCHANGED edits

---------------------------------------------------------------------------
(* The calls of an editor.                                                 *)
ServeSave(e) ==
  /\ editors[e].save # None /\ editors[e].save.state = "sent"
  /\ LET s == editors[e].save
     IN IF Accepted(s.expected)
        THEN /\ Put(s.layout)
             /\ Becomes(e, [editors[e] EXCEPT
                  !.save = [s EXCEPT !.state = "saved", !.version = live'.version]])
        ELSE /\ Becomes(e, [editors[e] EXCEPT !.save.state = "refused"])
             /\ UNCHANGED live
  /\ UNCHANGED <<draftVars, edits, faults, published, styled>>

LoseSave(e) ==
  /\ faults < MaxFaults /\ faults' = faults + 1
  /\ editors[e].save # None /\ editors[e].save.state # "lost"
  /\ Becomes(e, [editors[e] EXCEPT !.save.state = "lost"])
  /\ UNCHANGED <<draftVars, edits, layoutVars>>

(* A refused save reads the layout first.                                  *)
SaveAnswered(e) ==
  /\ editors[e].save # None /\ editors[e].save.state # "sent"
  /\ LET s == editors[e].save
     IN Becomes(e, CASE s.state = "saved" ->
                          Succeed(Take(editors[e], [layout |-> s.layout, version |-> s.version]),
                                  s.version)
                     [] s.state = "refused" -> Fail(Take(editors[e], live))
                     [] s.state = "lost" -> Fail(editors[e]))
  /\ Local /\ UNCHANGED edits

(* A style is set on the newest snapshot, at its version.                  *)
SetStyle(e) ==
  /\ editors[e].style = None /\ edits < MaxEdits /\ edits' = edits + 1
  /\ Becomes(e, [editors[e] EXCEPT
       !.style = [layout |-> [editors[e].snap.layout EXCEPT !.styles = edits + 1],
                  expected |-> editors[e].snap.version]])
  /\ Local

ServeStyle(e) ==
  /\ editors[e].style # None
  /\ LET s == editors[e].style
         E == [editors[e] EXCEPT !.style = None]
     IN IF Accepted(s.expected)
        THEN Put(s.layout) /\ styled' = s.layout.styles /\ Becomes(e, Take(E, live'))
        ELSE Becomes(e, Take(E, live)) /\ UNCHANGED <<live, styled>>
  /\ UNCHANGED <<draftVars, edits, faults, published>>

LoseStyle(e) ==
  /\ faults < MaxFaults /\ faults' = faults + 1
  /\ editors[e].style # None
  /\ LET s == editors[e].style
     IN \/ Accepted(s.expected) /\ Put(s.layout) /\ styled' = s.layout.styles
        \/ UNCHANGED <<live, styled>>
  /\ Becomes(e, [editors[e] EXCEPT !.style = None])
  /\ UNCHANGED <<draftVars, edits, published>>

---------------------------------------------------------------------------
Page(e) == ThrottleFires(e) \/ SuppressEnds(e) \/ Render(e) \/ ServeSave(e) \/ SaveAnswered(e)

Next ==
  \/ \E o \in Operators : Panels(o) \/ PublishLayout(o)
  \/ \E e \in Editors :
       \/ Page(e) \/ Poll(e) \/ LoseSave(e)
       \/ SetStyle(e) \/ ServeStyle(e) \/ LoseStyle(e)
       \/ \E w \in Widgets : Drag(e, w) \/ Drop(e, w)

(* Timers fire, effects run, calls are answered, and the editor polls.     *)
Spec == Init /\ [][Next]_vars /\ \A e \in Editors : WF_vars(Page(e)) /\ WF_vars(Poll(e))
=============================================================================
