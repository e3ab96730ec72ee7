-------------------------- MODULE MCCandidateProbe --------------------------
(* A homepage that offers a feed and a link into the local network; a       *)
(* second feed, at a literal address, can be reached by redirects only.     *)
(* One feed passes every gate with two or three samples, another is old and *)
(* short, the third empty.                                                  *)
EXTENDS CandidateProbe

CONSTANTS home, rss, mirror, lan, html, rich, poor, empty

MCUrls == {home, rss, mirror, lan}
MCAllowed == {home, rss, mirror}
MCNamed == {home, rss}
MCSecure == {home, rss}
MCOffers == [u \in MCUrls |-> IF u = home THEN <<rss, lan>> ELSE <<rss>>]
MCPages == {html, rich, poor, empty}
MCFeedAt == [p \in {rich, poor, empty} |->
    IF p = rich THEN [entries |-> 10, own |-> 8, age |-> 7, relevant |-> 3]
    ELSE IF p = poor THEN [entries |-> 4, own |-> 1, age |-> 20, relevant |-> 1]
    ELSE [entries |-> 0, own |-> 0, age |-> 999, relevant |-> 0]]
=============================================================================
