----------------------------- MODULE MCDiscovery -----------------------------
(* Instances of Discovery for TLC.                                         *)
EXTENDS Discovery, TLC

\* Two pages of posts, out of the order of their URLs.
MCPosts == <<3, 2, 1>>
MCUrl == 1 :> 3 @@ 2 :> 1 @@ 3 :> 2

\* No row; or only inactive ones: of the oldest post, the first that a removal shifts
\* past the cursor of REST; of the page REST does not serve; and of a post at its
\* old URL, whose new one is that of the row of a post that is gone.
Inactive(p, u) == [id |-> p, url |-> u, rest |-> p # 0, active |-> FALSE, stamped |-> FALSE]
MCRows == {<<>>, <<Inactive(1, 3), Inactive(0, 5), Inactive(2, 4), Inactive(4, 1)>>}
=============================================================================
