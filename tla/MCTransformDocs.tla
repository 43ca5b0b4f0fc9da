--------------------------- MODULE MCTransformDocs ---------------------------
(* TransformDocs on the files and requests of MCTransforms. *)
EXTENDS TransformDocs, MCTransforms
=============================================================================
