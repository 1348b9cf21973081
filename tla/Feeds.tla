-------------------------------- MODULE Feeds --------------------------------
(* The two handlers of live data, which publish to the same bus, each on its *)
(* own thread. *)
EXTENDS WebSocketFeed, NewsDataHandler

FeedsInit == Init /\ NewsInit
FeedsNext == (Next /\ UNCHANGED news_vars) \/ (NewsNext /\ UNCHANGED vars)
FeedsSpec == FeedsInit /\ [][FeedsNext]_<<vars, news_vars>> /\ Fairness

FeedsTypeOK ==
  /\ TypeOK
  /\ fetching \in {"idle", "parsing", "done"}
  /\ parsed \in 0 .. Len(articles)
  /\ \A i \in DOMAIN news : news[i].sentiment \in -2 .. 2

(* Neither feed loses, repeats or reorders what it is sent, whatever else  *)
(* it is sent in between.                                                  *)
FeedsInOrder == BooksInOrder /\ NewsInOrder
=============================================================================
