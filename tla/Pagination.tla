----------------------------- MODULE Pagination -----------------------------
(***************************************************************************)
(* The page arithmetic of updatePointsPagination (sys.js 354-402): the     *)
(* number of pages, the window of at most five page-number buttons around  *)
(* the current page, and the "previous" / "next" affordances.  Pure        *)
(* operators of (current page, total count, page size); the view module    *)
(* PointView renders them into the pager it keeps as state.                *)
(***************************************************************************)
EXTENDS Integers, FiniteSets

(* Math.ceil(totalPoints / pageSize) for totalPoints >= 0, pageSize > 0.   *)
TotalPages(total, size) == (total + size - 1) \div size

(* startPage = Math.max(1, currentPage.points - 2)                         *)
StartPage(cp) == IF cp - 2 > 1 THEN cp - 2 ELSE 1

(* endPage = Math.min(totalPages, startPage + 4)                           *)
EndPage(cp, tp) == IF tp < StartPage(cp) + 4 THEN tp ELSE StartPage(cp) + 4

\* Mutant: the button loop written as i < endPage instead of i <= endPage.
MutPageButtonsOpenLoop(cp, tp) == StartPage(cp) .. (EndPage(cp, tp) - 1)

(* The loop for (i = startPage; i <= endPage; i++) creates one button per  *)
(* page number in this set; it is empty when endPage < startPage.          *)
PageButtons(cp, tp) == StartPage(cp) .. EndPage(cp, tp)

(* The "上一页" button exists iff currentPage.points > 1.                   *)
HasPrev(cp) == cp > 1

(* The "下一页" button exists iff currentPage.points < totalPages.          *)
HasNext(cp, tp) == cp < tp

=============================================================================
