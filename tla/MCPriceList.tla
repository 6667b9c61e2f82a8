---------------------------- MODULE MCPriceList ----------------------------
(* An instance of PriceList for the model checker. *)
EXTENDS PriceList, TLC

\* Half off, and more off than the cheaper product costs: the one is the better
\* offer for a price of 400, the other for 100.  Each comes on one product or
\* on both, and lasts one second or two.
MCOffers ==
  {[kind |-> "percent", value |-> 50, ends |-> 1, products |-> {1, 2}],
   [kind |-> "percent", value |-> 50, ends |-> 2, products |-> {1}],
   [kind |-> "fixed", value |-> 150, ends |-> 1, products |-> {1}],
   [kind |-> "fixed", value |-> 150, ends |-> 2, products |-> {1, 2}]}

Symmetry == Permutations(EventIds)
=============================================================================
