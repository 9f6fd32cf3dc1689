-------------------------------- MODULE MCCatalog --------------------------------
(* Lists of one or two models out of seven that differ in vendor, capitals,  *)
(* listed efforts and limits, and filters that name them in several ways.    *)
EXTENDS Catalog

CONSTANTS a, b

Def(v, s, c, out, src, cap, efforts) ==
    [id |-> [vendor |-> v, short |-> s, capitals |-> c], output |-> out, outputSource |-> src,
     gatewayOutput |-> cap, efforts |-> efforts]

MCDefs == {Def(a, "x", FALSE, 3, "reference", 0, {}),
           Def(a, "x", TRUE, 0, "reference", 1, {"low"}),
           Def(b, "x", FALSE, 3, "fallback", 0, {"low", "none"}),
           Def(NoVendor, "x", FALSE, 1, "reference", 0, {"none"}),
           Def(a, "y", TRUE, 1, "fallback", 2, {"low", "high"}),
           Def(b, "y", FALSE, 2, "reference", 3, {}),
           Def(NoVendor, "y", TRUE, 0, "fallback", 0, {"high"})}

MCRosters == {r \in SUBSET MCDefs : Cardinality(r) <= 2}

Name(ns, v, s, c, suffix) == [ns |-> ns, vendor |-> v, short |-> s, capitals |-> c, suffix |-> suffix]

MCBudgets == -1 .. 3

MCFilters == {Name(FALSE, a, "x", TRUE, None), Name(TRUE, NoVendor, "x", FALSE, None),
              Name(FALSE, b, "y", FALSE, "low")}
================================================================================
