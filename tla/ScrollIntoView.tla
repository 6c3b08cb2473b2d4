--------------------------- MODULE ScrollIntoView ---------------------------
(***************************************************************************)
(* Where a scroller goes to show an item (assets/js/goradd-scrollIntoView. *)
(* js).  Lengths are whole numbers of pixels.                              *)
(***************************************************************************)
EXTENDS Integers

NotNegative(n) == IF n < 0 THEN 0 ELSE n

\* Mutant of newScrollTop: an item not in view goes to the top of the view, also at
\* the end of the list, where there is no such position.
newScrollTopPast(viewTop, viewBottom, scrollHeight, itemTop, itemBottom) ==
  IF viewTop <= itemTop /\ itemBottom <= viewBottom THEN viewTop ELSE itemTop

(***************************************************************************)
(* _newScrollTop: viewTop if the item is in view, else the position from   *)
(* which it is just in view.  topPos is the position with the item at the  *)
(* top of the view, bottomPos the one with the item at its bottom.         *)
(***************************************************************************)
newScrollTop(viewTop, viewBottom, scrollHeight, itemTop, itemBottom) ==
  LET viewHeight == viewBottom - viewTop
      topPos == IF itemTop + viewHeight > scrollHeight
                  THEN NotNegative(scrollHeight - viewHeight)
                  ELSE itemTop
      bottomPos == NotNegative(itemBottom - viewHeight)
      between(a, b) == a <= viewTop /\ viewTop <= b
  IN IF bottomPos > topPos
       THEN IF between(topPos, bottomPos) THEN viewTop ELSE topPos
       ELSE IF between(bottomPos, topPos) THEN viewTop
            ELSE IF itemTop < viewTop THEN topPos ELSE bottomPos

-----------------------------------------------------------------------------
(* The reference: what "just in view" means *)

Fits(viewHeight, itemTop, itemBottom) == itemBottom - itemTop <= viewHeight

InView(pos, viewHeight, itemTop, itemBottom) ==
  pos <= itemTop /\ itemBottom <= pos + viewHeight

Distance(a, b) == IF a < b THEN b - a ELSE a - b

\* new is a position with the item in view, and none is nearer to old.
JustInView(old, new, viewHeight, scrollHeight, itemTop, itemBottom) ==
  /\ new \in 0..(scrollHeight - viewHeight)
  /\ InView(new, viewHeight, itemTop, itemBottom)
  /\ \A pos \in 0..(scrollHeight - viewHeight) :
       InView(pos, viewHeight, itemTop, itemBottom)
         => Distance(old, new) <= Distance(old, pos)

\* An item larger than the view fills it, or its top is at the top of the view.
FillsView(new, viewHeight, itemTop, itemBottom) ==
  itemTop <= new /\ new + viewHeight <= itemBottom
=============================================================================
