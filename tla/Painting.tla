------------------------------- MODULE Painting -------------------------------
(***************************************************************************)
(* The pictures a view gives to its host: the frame request that           *)
(* mbViewIsDirty reports, the damage of view/mb_damage_tracker.cc and the  *)
(* paints of view/mb_webview.cc.  The host of this module copies nothing   *)
(* of a paint but the damaged rectangle, as mbViewGetDirtyRect invites to. *)
(*                                                                         *)
(* The picture is a row of pixels, a rectangle an interval of them.  What  *)
(* Blink does is taken from how the code uses it: it asks for a frame when *)
(* the page changes, calls the hook in every paint cycle, and a cycle that *)
(* repaints frees the artifact before it.                                  *)
(***************************************************************************)
EXTENDS Integers, FiniteSetsExt

CONSTANTS
  Width,       \* the widest the view may be
  Values,      \* of a pixel of the page
  None,        \* no baseline; a pixel the host does not have
  MovesUnseen, \* what was painted may be moved in place under full damage
  MaxChanges   \* bound: changes of the page and by the host

VARIABLES
  (* Blink. *)
  page,        \* pixel -> value the document would paint now
  raf,         \* a script waits for its animation frame
  artifact,    \* number of the current PaintArtifact
  stale,       \* it was painted before the page changed
  freed,       \* artifacts whose backing store is gone
  changes,
  (* The view and its widget. *)
  width,       \* view_width_
  raster,      \* background and device scale, which change every pixel
  composited,  \* the widget draws through the compositor
  force_repaint,
  needs_frame, \* MbWidget::needs_frame_
  painting,    \* where PaintToBitmap is: "no", "serve", "end"
  was_dirty,
  last_paint_damage,
  (* The tracker. *)
  pending,     \* pending_
  baseline,    \* the artifact the invalidator holds, and its picture; or None
  (* The host. *)
  copy,        \* pixel -> what its buffer shows
  calm         \* paints since something changed, up to 3

blinkVars   == <<page, raf, artifact, stale, freed, changes>>
viewVars    == <<width, raster, composited, force_repaint>>
paintVars   == <<needs_frame, painting, was_dirty, last_paint_damage>>
trackerVars == <<pending, baseline>>
hostVars    == <<copy, calm>>
paintingVars == <<blinkVars, viewVars, paintVars, trackerVars, hostVars>>

Pixels == 1 .. Width

ASSUME PaintingAssumption ==
  /\ Width \in Nat \ {0} /\ MaxChanges \in Nat
  /\ None \notin Values \X {0, 1}
  /\ None \notin [of : Nat, picture : [Pixels -> Values]]

View   == 1 .. width
Hull(S) == IF S = {} THEN {} ELSE Min(S) .. Max(S)
Blank  == [p \in Pixels |-> None]

PaintingInit ==
  /\ \E v \in Values : page = [p \in Pixels |-> v]
  /\ raf = FALSE /\ artifact = 0 /\ stale = TRUE /\ freed = {} /\ changes = 0
  /\ width = Width /\ raster = 0 /\ composited \in BOOLEAN /\ force_repaint = FALSE
  /\ needs_frame = TRUE /\ painting = "no" /\ was_dirty = FALSE
  /\ last_paint_damage = {}
  /\ pending = {} /\ baseline = None
  /\ copy = Blank /\ calm = 0

PaintingTypeOK ==
  /\ page \in [Pixels -> Values] /\ stale \in BOOLEAN /\ raf \in BOOLEAN
  /\ artifact \in Nat /\ freed \subseteq 0 .. artifact /\ changes \in 0 .. MaxChanges
  /\ width \in Pixels /\ raster \in {0, 1}
  /\ {composited, force_repaint, needs_frame, was_dirty} \subseteq BOOLEAN
  /\ painting \in {"no", "serve", "end"}
  /\ last_paint_damage \subseteq Pixels /\ pending \subseteq Pixels
  /\ calm \in 0 .. 3

Changes == changes < MaxChanges /\ changes' = changes + 1 /\ calm' = 0

------------------------------------------------------------------------------
(* The page, in tasks and in the callbacks a paint runs.  A change is      *)
(* painted anew, or moves what is painted: a scroll.                       *)
PageChanges(p, v, moves) ==
  /\ page[p] # v /\ Changes
  /\ page' = [page EXCEPT ![p] = v]
  /\ stale' = (stale \/ ~moves)
  /\ needs_frame' = TRUE
  /\ UNCHANGED <<raf, artifact, freed, viewVars, painting, was_dirty, last_paint_damage,
                 trackerVars, copy>>

RequestAnimationFrame ==
  /\ ~raf /\ Changes
  /\ raf' = TRUE /\ needs_frame' = TRUE
  /\ UNCHANGED <<page, artifact, stale, freed, viewVars, painting, was_dirty,
                 last_paint_damage, trackerVars, copy>>

------------------------------------------------------------------------------
(* MbDamageTracker::OnNonCompositedPaint, in a cycle that has made         *)
(* artifact a: what pending_ and the baseline are after it.                *)
Skips == View \subseteq pending
Moved == IF baseline = None THEN View ELSE {p \in View : baseline.picture[p] # page[p]}

DamageAfter == IF composited \/ Skips THEN pending ELSE Hull(pending \cup Moved)

Anchor(a) == [of |-> a, picture |-> page]

(* Mutant: a skip has nothing to learn and does nothing.                   *)
BaselineKept(a) == IF Skips THEN baseline ELSE Anchor(a)

(* Mutant: a skip always drops the baseline.                               *)
BaselineDropped(a) == IF Skips THEN None ELSE Anchor(a)

BaselineAfter(a) ==
  IF ~Skips THEN Anchor(a)
  ELSE IF baseline # None /\ baseline.of = a THEN baseline ELSE None

AddDamage(S) == pending' = Hull(pending \cup S)

(* UpdateAllLifecyclePhases, whose hook NotifyNonCompositedPaint is called *)
(* whether the cycle has repainted or not.                                 *)
UpdateAllLifecyclePhases ==
  LET unseen == Skips /\ baseline # None /\ baseline.picture # page
      repaints == stale \/ (unseen /\ ~MovesUnseen)
  IN  IF composited THEN UNCHANGED <<artifact, stale, freed, baseline>>
      ELSE /\ artifact' = IF repaints THEN artifact + 1 ELSE artifact
           /\ freed' = IF repaints THEN freed \cup {artifact} ELSE freed
           /\ stale' = FALSE
           /\ baseline' = BaselineAfter(artifact')

(* Waits, scripts that measure, captures: cycles that report no damage.    *)
Drive ==
  /\ UpdateAllLifecyclePhases /\ pending' = DamageAfter
  /\ UNCHANGED <<page, raf, changes, viewVars, paintVars, hostVars>>

(* Another document: another LocalFrameView, with artifacts of its own;    *)
(* the last one of the old view is never painted over.                     *)
CommitDocument(v) ==
  /\ Changes
  /\ page' = [p \in Pixels |-> v] /\ raf' = FALSE
  /\ artifact' = artifact + 1 /\ stale' = TRUE
  /\ needs_frame' = TRUE
  /\ UNCHANGED <<freed, viewVars, painting, was_dirty, last_paint_damage, trackerVars,
                 copy>>

------------------------------------------------------------------------------
(* The host.                                                               *)
IsDirty == force_repaint \/ composited \/ needs_frame

(* A buffer that is purged, of a view that is hidden.                      *)
SetDirty ==
  /\ painting = "no" /\ Changes
  /\ needs_frame' = TRUE /\ AddDamage(View)
  /\ copy' = Blank
  /\ UNCHANGED <<page, raf, artifact, stale, freed, viewVars, painting, was_dirty,
                 last_paint_damage, baseline>>

(* Mutant: the frame that Blink asks for will bring the damage.            *)
ResizeUndamaged(n) ==
  /\ painting = "no" /\ n # width /\ Changes
  /\ width' = n
  /\ needs_frame' = TRUE
  /\ stale' \in {stale, TRUE}
  /\ copy' = Blank
  /\ UNCHANGED <<page, raf, artifact, freed, raster, composited, force_repaint, painting,
                 was_dirty, last_paint_damage, trackerVars>>

Resize(n) ==
  /\ painting = "no" /\ n # width /\ Changes
  /\ width' = n
  /\ AddDamage(1 .. n) /\ needs_frame' = TRUE
  /\ stale' \in {stale, TRUE}
  /\ copy' = Blank
  /\ UNCHANGED <<page, raf, artifact, freed, raster, composited, force_repaint, painting,
                 was_dirty, last_paint_damage, baseline>>

(* SetTransparentBackground and SetDeviceScaleFactor.  Whether Blink asks  *)
(* for a frame depends on the document.                                    *)
SetRaster ==
  /\ painting = "no" /\ Changes
  /\ raster' = 1 - raster
  /\ AddDamage(View)
  /\ needs_frame' \in {needs_frame, TRUE}
  /\ UNCHANGED <<page, raf, artifact, stale, freed, width, composited, force_repaint,
                 painting, was_dirty, last_paint_damage, baseline, copy>>

SetForceRepaint(on) ==
  /\ painting = "no" /\ on # force_repaint /\ Changes
  /\ force_repaint' = on
  /\ UNCHANGED <<page, raf, artifact, stale, freed, width, raster, composited, paintVars,
                 trackerVars, copy>>

------------------------------------------------------------------------------
(* PaintToBitmap.  The request is taken before anything runs.              *)
BeginPaint ==
  /\ painting = "no"
  /\ painting' = "serve"
  /\ was_dirty' = needs_frame
  /\ needs_frame' = FALSE
  /\ UNCHANGED <<blinkVars, viewVars, last_paint_damage, trackerVars, hostVars>>

(* ServiceAnimations: callbacks change the page or ask for another frame.  *)
ServiceAnimations ==
  /\ painting # "no"
  /\ painting' = "end"
  /\ \/ /\ ~raf
        /\ UNCHANGED <<page, raf, stale, needs_frame, changes, calm>>
     \/ /\ raf
        /\ raf' = FALSE /\ calm' = 0
        /\ \E p \in View, v \in Values :
             /\ page' = [page EXCEPT ![p] = v]
             /\ stale' = (stale \/ page[p] # v)
             /\ needs_frame' = (needs_frame \/ page[p] # v)
        /\ UNCHANGED changes
     \/ /\ raf /\ Changes
        /\ needs_frame' = TRUE
        /\ UNCHANGED <<page, raf, stale>>
  /\ UNCHANGED <<artifact, freed, viewVars, was_dirty, last_paint_damage, trackerVars, copy>>

(* Mutant: the request that was taken is gone.                             *)
PaintFailsForGood ==
  /\ painting # "no" /\ Changes
  /\ painting' = "no"
  /\ UNCHANGED <<page, raf, artifact, stale, freed, viewVars, needs_frame, was_dirty,
                 last_paint_damage, trackerVars, copy>>

(* No frame to paint, or no memory for the bitmap: the request stands.     *)
PaintFails ==
  /\ painting # "no" /\ Changes
  /\ painting' = "no"
  /\ needs_frame' = (needs_frame \/ was_dirty)
  /\ UNCHANGED <<page, raf, artifact, stale, freed, viewVars, was_dirty,
                 last_paint_damage, trackerVars, copy>>

(* RecordPaintDamage.                                                      *)
LastDamage == IF composited \/ force_repaint THEN View ELSE DamageAfter \cap View

(* The last cycle, after which no task runs, the replay and the damage;    *)
(* the host copies what is damaged.                                        *)
EndPaint ==
  /\ painting = "end" /\ UpdateAllLifecyclePhases
  /\ painting' = "no"
  /\ last_paint_damage' = LastDamage
  /\ pending' = {}
  /\ copy' = [p \in Pixels |-> IF p \in last_paint_damage' THEN <<page[p], raster>> ELSE copy[p]]
  /\ calm' = Min({calm + 1, 3})
  /\ UNCHANGED <<page, raf, changes, viewVars, needs_frame, was_dirty>>

Host == SetDirty \/ (\E n \in Pixels : Resize(n)) \/ SetRaster
        \/ (\E on \in BOOLEAN : SetForceRepaint(on))
Blink ==
  \/ \E p \in Pixels, v \in Values, moves \in BOOLEAN : PageChanges(p, v, moves)
  \/ RequestAnimationFrame \/ Drive
  \/ \E v \in Values : CommitDocument(v)
Paint == BeginPaint \/ ServiceAnimations \/ PaintFails \/ EndPaint
PaintingNext  == Host \/ Blink \/ Paint

PaintingSpec == PaintingInit /\ [][PaintingNext]_paintingVars

------------------------------------------------------------------------------
(* Properties.                                                             *)

(* Nothing has changed since the last paint: then a host that has copied   *)
(* the damaged rectangles alone shows what was painted.                    *)
HostIsCurrent == calm > 0 => \A p \in View : copy[p] = <<page[p], raster>>

(* A host that paints only when the view is dirty misses nothing: a view   *)
(* that reports itself clean shows its page, though it may have done so    *)
(* before the last change of the background or the scale.                  *)
CleanIsCurrent ==
  painting = "no" /\ ~IsDirty => ~raf /\ \A p \in View : copy[p] # None /\ copy[p][1] = page[p]

(* What the next diff would read still exists.                             *)
BaselineIsAlive == baseline # None => baseline.of \notin freed

(* A page that has come to rest costs the host no more copies.             *)
RestIsFree == calm = 3 /\ ~composited /\ ~force_repaint => last_paint_damage = {}

PicturesAreTrue == HostIsCurrent /\ CleanIsCurrent /\ BaselineIsAlive /\ RestIsFree
=============================================================================
