--------------------------- MODULE MCSchemaInstall ---------------------------
(* Instance of SchemaInstall for TLC. *)
EXTENDS SchemaInstall
=============================================================================
