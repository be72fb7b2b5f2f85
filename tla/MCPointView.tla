---------------------------- MODULE MCPointView -----------------------------
(***************************************************************************)
(* Model-checking instance of PointView.  A page size of one makes every   *)
(* point a page, so three ids give up to three pages and the window, the   *)
(* previous and the next buttons all matter; three operator requests are   *)
(* enough for two loads to race and for a double click on a stale pager.   *)
(***************************************************************************)
EXTENDS PointView

=============================================================================
