------------------------- MODULE MCSchemaMigration -------------------------
(* The containers are interchangeable: no definition chooses one of them. *)
EXTENDS SchemaMigration

ContainerSymmetry == Permutations(Containers)

=============================================================================
