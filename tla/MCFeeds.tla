------------------------------- MODULE MCFeeds -------------------------------
EXTENDS Feeds

Headline(p, n) == [kind |-> "titled", positive |-> p, negative |-> n]
Untitled == [kind |-> "untitled", positive |-> 0, negative |-> 0]
Broken == [kind |-> "broken", positive |-> 0, negative |-> 0]

MCArticleLists == {<<>>, <<Headline(1, 0), Untitled, Headline(0, 6)>>,
                   <<Headline(3, 1), Broken, Headline(1, 1)>>}
=============================================================================
