-------------------------- MODULE MCSourceRegistry --------------------------
(* Two API processes, two default domains and one more.                     *)
EXTENDS SourceRegistry

CONSTANTS a1, a2, market, startups, extra

MCApis == {a1, a2}
MCDefaults == {market, startups}
MCOthers == {extra}
=============================================================================
