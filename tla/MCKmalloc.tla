----------------------------- MODULE MCKmalloc -----------------------------
(* Kmalloc on a small arena: the values of its constants are in the cfgs.  *)
EXTENDS Kmalloc
=============================================================================
