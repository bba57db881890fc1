--------------------------- MODULE MCCartCheckout ---------------------------
(* Instances of CartCheckout for TLC. *)
EXTENDS CartCheckout, TLC

\* Requests, users, products and order numbers are interchangeable.
Symmetry ==
    Permutations(Procs) \cup Permutations(Users) \cup Permutations(Products)
        \cup Permutations(OrderNos)
=============================================================================
