---------------------------- MODULE MCCrawlEngine ----------------------------
(* Six URLs, the last outside the policy, on small sites that between them  *)
(* reach every limit, failure and duplicate.                                *)
EXTENDS CrawlEngine

MCUrl == 1..6
MCSeeds == {1}
MCDenied == {6}
MCContent == {"a", "b", "c"}

Page(n, c, links) == [kind |-> "page", size |-> n, content |-> c, links |-> links]
Fails(kind, n) == [kind |-> kind, size |-> n, content |-> "a", links |-> <<>>]
Leaf == Page(1, "a", <<>>)

\* 2 and 3 serve the same body; 4 is reached at depth 2 by two pages, and
\* its own body is one artifact too many
Diamond == <<Page(1, "a", <<3, 2, 1>>), Page(1, "b", <<4>>),
             Page(1, "b", <<4, 6>>), Page(1, "c", <<2>>), Leaf, Leaf>>
\* an error page and a failed exchange beside two good pages
Broken  == <<Page(1, "a", <<4, 2, 6, 3>>), Page(0, "b", <<3>>),
             Fails("http_error", 1), Fails("fetch_error", 1), Leaf, Leaf>>
\* the second level needs more bytes than the job may still receive
Heavy   == <<Page(1, "a", <<2, 3, 4>>), Page(2, "b", <<>>), Page(1, "c", <<>>),
             Page(2, "b", <<>>), Leaf, Leaf>>
\* five pages, one more than MaxPages
Wide    == <<Page(1, "a", <<2, 3>>), Page(1, "b", <<4, 5>>), Page(1, "a", <<>>),
             Page(1, "b", <<>>), Leaf, Leaf>>
\* a path longer than MaxDepth
Chain   == <<Page(1, "a", <<2>>), Page(1, "b", <<3>>), Page(0, "a", <<4>>),
             Leaf, Leaf, Leaf>>
\* 5 is linked from depth 1 and, at the end of a longer path, from depth 2
Short   == <<Page(1, "a", <<2, 3>>), Page(1, "b", <<4>>), Page(1, "b", <<5>>),
             Page(1, "a", <<5>>), Page(0, "a", <<>>), Leaf>>

\* two-level sites that differ in sizes, shared bodies and links
Sweep == {<<Page(1, "a", <<2, 3>>), Page(m, c, l), Page(n, "b", k),
            Page(1, "c", <<2>>), Leaf, Leaf>> :
            m \in 1..2, n \in 1..2, c \in {"a", "b"},
            l \in {<<4>>, <<1, 6>>}, k \in {<<4, 6>>, <<2>>}}

MCSites == {Diamond, Broken, Heavy, Wide, Chain, Short} \cup Sweep
==============================================================================
