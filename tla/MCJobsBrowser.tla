---------------------------- MODULE MCJobsBrowser ----------------------------
(* A small JobsBrowser: two scrapers, the first with two offers, and a       *)
(* filter that one offer of each passes.                                     *)
EXTENDS JobsBrowser, TLC

CONSTANTS o1, o2, o3, s1, s2, narrow

ScraperOfDef == (o1 :> s1) @@ (o2 :> s1) @@ (o3 :> s2)
HitsDef == (NoFilter :> Offer) @@ (narrow :> {o1, o3})
=============================================================================
