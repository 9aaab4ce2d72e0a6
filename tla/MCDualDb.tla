------------------------------ MODULE MCDualDb ------------------------------
(* An instance of DualDb whose user has a first byte at the median, so that  *)
(* it is migrated, and no end_median.                                        *)
EXTENDS DualDb

Unset == -1
=============================================================================
