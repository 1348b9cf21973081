---------------------------- MODULE NewsDataHandler ----------------------------
(***************************************************************************)
(* NewsDataHandler: start() fetches a list of articles, on the caller's    *)
(* thread, and publishes the sentiment of each headline, under one symbol  *)
(* for all of them.                                                        *)
(***************************************************************************)
EXTENDS Integers, Sequences

CONSTANT ArticleLists    (* what the server may send                        *)

(* An article that has no title is passed over, one that is no object ends *)
(* the parsing; a headline counts by the words it has of either list.      *)
Articles == [kind : {"titled", "untitled", "broken"}, positive : 0 .. 6, negative : 0 .. 6]

ASSUME NewsAssumption == \A list \in ArticleLists : list \in Seq(Articles)

VARIABLES fetching,    (* "idle", "parsing" or "done"                       *)
          articles,    (* the list fetched                                  *)
          parsed,      (* how many of them were looked at                   *)
          news         (* history: the articles published, with sentiments  *)

news_vars == <<fetching, articles, parsed, news>>

NewsInit == fetching = "idle" /\ articles = <<>> /\ parsed = 0 /\ news = <<>>

(* In halves: all words count the same, and the sum is clamped. *)
Sentiment(a) == LET score == a.positive - a.negative IN
  IF score > 2 THEN 2 ELSE IF score < -2 THEN -2 ELSE score

(* Unless the status is 200, nothing is parsed. *)
Fetch ==
  /\ fetching = "idle"
  /\ \/ fetching' = "done" /\ UNCHANGED articles
     \/ fetching' = "parsing" /\ articles' \in ArticleLists
  /\ UNCHANGED <<parsed, news>>

(* Mutant of Skip: an article without a title is taken for an error. *)
SkipRest ==
  /\ fetching = "parsing"
  /\ parsed < Len(articles) /\ articles[parsed + 1].kind = "untitled"
  /\ fetching' = "done"
  /\ UNCHANGED <<articles, parsed, news>>

Skip ==
  /\ fetching = "parsing"
  /\ parsed < Len(articles) /\ articles[parsed + 1].kind = "untitled"
  /\ parsed' = parsed + 1
  /\ UNCHANGED <<fetching, articles, news>>

PublishNews ==
  /\ fetching = "parsing"
  /\ parsed < Len(articles) /\ articles[parsed + 1].kind = "titled"
  /\ parsed' = parsed + 1
  /\ news' = Append(news, [article |-> parsed + 1, symbol |-> "GENERIC",
                           sentiment |-> Sentiment(articles[parsed + 1])])
  /\ UNCHANGED <<fetching, articles>>

(* The end of the list, or an article that makes the parser throw. *)
EndNews ==
  /\ fetching = "parsing"
  /\ parsed < Len(articles) => articles[parsed + 1].kind = "broken"
  /\ fetching' = "done"
  /\ UNCHANGED <<articles, parsed, news>>

NewsNext == Fetch \/ Skip \/ PublishNews \/ EndNews
-----------------------------------------------------------------------------
Readable(n) == \A m \in 1 .. n : articles[m].kind # "broken"

(* When start() returns, each headline before the first unreadable article *)
(* was published once, in the order of the list, and no other              *)
(* (NewsDataHandler.cpp:71-91).                                            *)
NewsInOrder ==
  /\ \A i, j \in DOMAIN news : i < j => news[i].article < news[j].article
  /\ fetching = "done" =>
       {news[i].article : i \in DOMAIN news}
         = {n \in DOMAIN articles : Readable(n) /\ articles[n].kind = "titled"}
=============================================================================
