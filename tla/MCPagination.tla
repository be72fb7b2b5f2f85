---------------------------- MODULE MCPagination ----------------------------
(***************************************************************************)
(* Exhaustive check of the pagination arithmetic over bounded inputs.  The *)
(* state is one input of updatePointsPagination: the total count the last  *)
(* response reported and the value of currentPage.points when it is        *)
(* rendered.  The current page ranges over values below 1 and above the    *)
(* last page too, because the point view can reach them (see PointView).   *)
(***************************************************************************)
EXTENDS Pagination

CONSTANTS
    PageSize,   \* pageSize (sys.js line 6 fixes it to 20)
    MaxTotal,   \* largest totalCount tried
    PageBelow,  \* how many values below 1 currentPage.points takes
    PageHi      \* largest currentPage.points tried

ASSUME MCPaginationAssumption ==
    /\ PageSize \in Nat \ {0}
    /\ MaxTotal \in Nat
    /\ PageBelow \in Nat /\ PageHi \in Nat

VARIABLES total, cp

vars == <<total, cp>>

PageLo == 1 - PageBelow

Inputs == [total : 0..MaxTotal, cp : PageLo..PageHi]

Init == \E in \in Inputs : total = in.total /\ cp = in.cp

\* Any later render may see any other input.
Next == \E in \in Inputs : total' = in.total /\ cp' = in.cp /\ vars' # vars

Spec == Init /\ [][Next]_vars

tp == TotalPages(total, PageSize)

TypeOK == total \in 0..MaxTotal /\ cp \in PageLo..PageHi

(* The rendered buttons (sys.js 372-384) name only existing pages, never   *)
(* more than five, and include the current page whenever it is a valid     *)
(* page: spec section 8, "always contains currentPage when                 *)
(* 1 <= currentPage <= totalPages".                                         *)
WindowSound ==
    /\ PageButtons(cp, tp) \subseteq 1..tp
    /\ Cardinality(PageButtons(cp, tp)) <= 5
    /\ cp \in 1..tp => cp \in PageButtons(cp, tp)

=============================================================================
