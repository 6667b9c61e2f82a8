---------------------------- MODULE MCStorefront ----------------------------
(* An instance of Storefront for the model checker: a product that has one   *)
(* of the two sub-categories.                                                *)
EXTENDS Storefront, TLC

CONSTANTS p1, cars

MCTags == p1 :> {cars}
=============================================================================
