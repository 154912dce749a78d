------------------------------ MODULE MCCatalog ------------------------------
(***************************************************************************)
(* Small catalogs for model checking Catalog: a property with one unit, of *)
(* an inactive type as the seeder leaves one (DbSeeder.cs:147-149).        *)
(***************************************************************************)
EXTENDS Catalog

CONSTANTS p1, u1, n1, inactive

OneProperty == {p1}

LegacyUnit == [u \in {u1} |-> [property |-> p1, number |-> n1, type |-> inactive]]

=============================================================================
