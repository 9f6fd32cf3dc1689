---------------------------- MODULE MCCatalogOutputs ----------------------------
(* The two files of the script and three contents.                            *)
EXTENDS CatalogOutputs

CONSTANTS g1, g2, g3
================================================================================
