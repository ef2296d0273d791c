----------------------------- MODULE MCMigrations -----------------------------
(* The migrations alone, with one partition beside the default one.         *)
EXTENDS Migrations

OnePartition == {"chunk_embedding_m1"}
=============================================================================
