------------------------------- MODULE MCCatalog -------------------------------
EXTENDS Catalog, TLC

CONSTANTS p1, p2, k1, k2, m1, n1, j1, h1

(* A provider with a key, with a model and without; a second provider and  *)
(* a second key can be created.                                            *)
Stocked(model) ==
    [providers |-> (p1 :> [status |-> "active", address |-> j1]) @@ (p2 :> NoRow),
     keys |-> (k1 :> [provider |-> p1, status |-> "active"]) @@ (k2 :> NoRow),
     models |-> m1 :> model]

MCCatalogs == {Stocked([name |-> n1, provider |-> p1, enabled |-> TRUE]), Stocked(NoRow)}
=============================================================================
