----------------------------- MODULE MCPipeline -----------------------------
(***************************************************************************)
(* Small instances of Pipeline for TLC.                                    *)
(*                                                                         *)
(* The pages: "a", "b" and "c" are reports of one story (similar vectors), *)
(* "x", "y" and "z" report another, "v" a third, and "a2" is a syndicated  *)
(* copy of "a" (same text, so the same content hash and vector) on another *)
(* site.  "r" is a tracking URL that redirects to "a".                     *)
(***************************************************************************)
EXTENDS Pipeline, TLC

(* Two sources, each crawled by one task. *)
CrawlsOfTwoSources == "c1" :> "s1" @@ "c2" :> "s2"
OneCrawl == "c1" :> "s1"

Pages == {"a", "b", "c", "a2", "x", "y", "z", "v", "r"}
PageOf == [u \in Pages |-> IF u = "r" THEN "a" ELSE u]
TextOf == [u \in Pages |-> IF u \in {"a2", "r"} THEN "a" ELSE u]
StoryOf == [u \in Pages |->
               CASE u \in {"x", "y", "z"} -> "other" [] u = "v" -> "third" [] OTHER -> "story"]
Order == "a" :> 1 @@ "x" :> 2 @@ "r" :> 3 @@ "b" :> 4 @@ "a2" :> 5
            @@ "y" :> 6 @@ "v" :> 7 @@ "c" :> 8 @@ "z" :> 9

MCCanon == [u \in Urls |-> PageOf[u]]
MCHash == [u \in Urls |-> TextOf[u]]
(* The first source lists its entries in Order, the second the other way.   *)
MCRank == [s \in Sources |-> [u \in Urls |-> IF s = "s1" THEN Order[u] ELSE 10 - Order[u]]]
MCSimilar == {<<u, v>> \in Urls \X Urls : StoryOf[u] = StoryOf[v]}

(* Different pages of the same two stories: the first crawl founds both events. *)
CommonStories == "s1" :> {"x", "a", "y", "b"} @@ "s2" :> {"z", "c"}
(* Three pages of one story, one of them listed by both sources.            *)
OneStory == "s1" :> {"a", "b"} @@ "s2" :> {"b", "c"}
SameFeed == [s \in Sources |-> Urls]
=============================================================================
