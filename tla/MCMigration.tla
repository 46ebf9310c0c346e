---- MODULE MCMigration ----
(* The store and its migration, with the graphs and commands of MCGraphStore. *)
EXTENDS Migration, MCGraphStore

====
