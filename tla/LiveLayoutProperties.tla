------------------------ MODULE LiveLayoutProperties ------------------------
(* What the layout of a channel keeps while several people change it.      *)
EXTENDS LiveLayout

(* Whoever saves what, on however old a page, and whatever is published in *)
(* between: the panels in effect are those published last, the styles those*)
(* saved last.                                                             *)
OthersKept == live.layout.panels = published /\ live.layout.styles = styled

(* The rows and the pages have their types, and nobody's panels or styles  *)
(* are lost to someone else's save.                                        *)
LayoutSafe == LayoutTypeOK /\ OthersKept

(* A publication does not move widgets ("publication does not reset the    *)
(* positions of the OBS widgets arbitrarily", docs/overlays.md:20), and    *)
(* what is published is what its operator sees and has had validated,      *)
(* though others edit the same draft.                                      *)
PublishedAsReviewed ==
  [][Published' \notin {Published, NoVersion} =>
       /\ versions[Published'].status = "validated"
       /\ versions'[Published'].document \notin Invalid
       /\ \E o \in Operators :
            /\ consoles[o].version = Published'
            /\ consoles[o].document = versions'[Published'].document
       /\ live'.layout.widgets = live.layout.widgets]_vars

(* No editor is stuck: again and again its throttle has run out, no save is*)
(* under way and no change is queued, whichever saves fail, lose their     *)
(* answers or are refused on the way.  It does not say what became of a    *)
(* change: one that is queued behind a save that fails is dropped.         *)
Settled(e)  == /\ editors[e].save = None /\ editors[e].pending = None
               /\ ~editors[e].throttle
EditsSettle == \A e \in Editors : []<>Settled(e)

(* A saved move is never undone by the save of someone who had not seen it:*)
(* concurrent changes are noticed by the revision of the saved layout      *)
(* (docs/overlays.md:5).                                                   *)
MovesKept == [][\A w \in Widgets : live'.layout.widgets[w] >= live.layout.widgets[w]]_vars

(* In the end an editor shows the newest layout.                           *)
EditorCatchesUp ==
  \A e \in Editors : <>[](editors[e].rev = live.version) \/ ~<>[](Settled(e))
=============================================================================
