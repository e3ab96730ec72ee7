---------------------------- MODULE MCCmsConsole ----------------------------
(***************************************************************************)
(* Small instance of CmsConsole for TLC: both candidates become the source *)
(* "s2", which no list has before that, and a list holds one of them; "p"  *)
(* is an opportunity.                                                      *)
(***************************************************************************)
EXTENDS CmsConsole, TLC

MCSourceOf == "k" :> "s2" @@ "m" :> "s2"
=============================================================================
