-------------------------- MODULE PaginationProofs --------------------------
(***************************************************************************)
(* Proofs about the pagination arithmetic of updatePointsPagination: the   *)
(* facts MCPagination checks on bounded inputs hold for every total, every *)
(* page size and every current page.                                       *)
(***************************************************************************)
EXTENDS MCPagination, PaginationLemmas, TLAPS

(* Every state of MCPagination is an input in range.                       *)
LEMMA TypeCorrect == Spec => []TypeOK
<1>1. Init => TypeOK
  BY DEF Init, TypeOK, Inputs
<1>2. TypeOK /\ [Next]_vars => TypeOK'
  BY DEF TypeOK, Next, vars, Inputs
<1>. QED  BY <1>1, <1>2, PTL DEF Spec

(* The window property of spec section 8, for every input.                 *)
THEOREM WindowAlwaysSound == Spec => []WindowSound
<1>1. TypeOK => WindowSound
  <2>. SUFFICES ASSUME TypeOK PROVE WindowSound
    OBVIOUS
  <2>1. tp \in Int
    BY TotalPagesBounds, MCPaginationAssumption DEF TypeOK, tp
  <2>2. cp \in Int
    BY MCPaginationAssumption DEF TypeOK, PageLo
  <2>. QED  BY <2>1, <2>2, WindowFacts DEF WindowSound
<1>. QED  BY <1>1, TypeCorrect, PTL

=============================================================================
