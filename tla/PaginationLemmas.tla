-------------------------- MODULE PaginationLemmas --------------------------
(***************************************************************************)
(* Facts about the operators of Pagination, for every argument: cited by   *)
(* the proofs about MCPagination and about the point view.                 *)
(***************************************************************************)
EXTENDS Pagination, FiniteSetTheorems, TLAPS

(* Math.ceil as (total + size - 1) \div size: tp pages hold the total and  *)
(* the last one is not empty.                                              *)
LEMMA TotalPagesBounds ==
    ASSUME NEW t \in Nat, NEW s \in Nat \ {0}
    PROVE  /\ TotalPages(t, s) \in Nat
           /\ TotalPages(t, s) * s >= t
           /\ t > 0 => (TotalPages(t, s) - 1) * s < t
           /\ TotalPages(t, s) <= t
  BY DEF TotalPages

(* The page-button window of sys.js 372-384 lies within 1..tp, holds at   *)
(* most five buttons, and contains the current page when it is a page.     *)
LEMMA WindowFacts ==
    ASSUME NEW c \in Int, NEW t \in Int
    PROVE  /\ PageButtons(c, t) \subseteq 1..t
           /\ Cardinality(PageButtons(c, t)) <= 5
           /\ c \in 1..t => c \in PageButtons(c, t)
<1>1. StartPage(c) \in Int /\ EndPage(c, t) \in Int
  BY DEF StartPage, EndPage
<1>2. PageButtons(c, t) \subseteq 1..t
  BY DEF PageButtons, StartPage, EndPage
<1>3. Cardinality(PageButtons(c, t)) <= 5
  <2>1. Cardinality(PageButtons(c, t))
          = IF StartPage(c) > EndPage(c, t) THEN 0 ELSE EndPage(c, t) - StartPage(c) + 1
    BY <1>1, FS_Interval DEF PageButtons
  <2>2. EndPage(c, t) <= StartPage(c) + 4
    BY DEF EndPage, StartPage
  <2>. QED  BY <1>1, <2>1, <2>2
<1>4. c \in 1..t => c \in PageButtons(c, t)
  BY DEF PageButtons, StartPage, EndPage
<1>. QED  BY <1>2, <1>3, <1>4

=============================================================================
