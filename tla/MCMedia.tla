------------------------------ MODULE MCMedia -------------------------------
(* Media on small instances: admins and file names are interchangeable.     *)
EXTENDS Media, TLC

Symmetry == Permutations(Admins) \union Permutations(Urls)

=============================================================================
