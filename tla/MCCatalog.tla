----------------------------- MODULE MCCatalog -----------------------------
(* One title on one page of one addon, for TLC. *)
EXTENDS Catalog, TLC

CONSTANTS t1, page, addon

MCLists == [k \in {page} |-> Titles]
=============================================================================
