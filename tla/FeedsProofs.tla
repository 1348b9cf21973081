----------------------------- MODULE FeedsProofs -----------------------------
(***************************************************************************)
(* For any number of messages, starts and articles: the feeds pass on what *)
(* they are sent once and in order, and the live one is, but for its       *)
(* liveness, the connection LiveFeed describes.                            *)
(***************************************************************************)
EXTENDS Feeds, SequenceTheorems, TLAPS

(* What is appended to a sequence goes behind what is there. *)
LEMMA AppendFacts ==
  ASSUME NEW S, NEW s \in Seq(S), NEW e \in S
  PROVE  /\ Append(s, e) \in Seq(S)
         /\ DOMAIN s = 1 .. Len(s) /\ Len(s) \in Nat
         /\ Len(Append(s, e)) = Len(s) + 1
         /\ DOMAIN Append(s, e) = 1 .. Len(s) + 1
         /\ \A i \in 1 .. Len(s) : Append(s, e)[i] = s[i]
         /\ Append(s, e)[Len(s) + 1] = e
  BY AppendProperties, LenProperties
-----------------------------------------------------------------------------
(* A connection attempt is over once the stream is open, and what is       *)
(* running has been started and, once over, is stopped for good.           *)
AttemptsOnce ==
  /\ ioc_thread = "returned" => ioc_stopped
  /\ ioc_thread = "none" => (ioc_stopped <=> starts > 0)
  /\ starts = 0 => ioc_thread = "none" /\ operation = "none" /\ stream = "unconnected"
  /\ ~ ioc_stopped /\ operation \in {"resolve", "connect", "ssl_handshake", "handshake"}
       => stream = "unconnected"
  /\ ~ ioc_stopped /\ operation \in {"write", "read"} => stream # "unconnected"

FeedIInv == TypeOK /\ AttemptsOnce /\ BooksInOrder

LEMMA FeedTypeStep == TypeOK /\ [Next]_vars => TypeOK'
<1>. SUFFICES ASSUME TypeOK, [Next]_vars PROVE TypeOK'
  OBVIOUS
<1>. USE WebSocketAssumption DEF TypeOK, ioc_vars, data_vars, IocRuns, Completes
<1>1. CASE Start
  BY <1>1 DEF Start
<1>2. CASE StopTest \/ StopDispatch \/ StopJoin
  BY <1>2 DEF StopTest, StopDispatch, StopJoin
<1>3. CASE RunReturns \/ Close \/ Fails
  BY <1>3 DEF RunReturns, Close, Fails
<1>4. CASE OnResolve \/ OnConnect \/ OnSslHandshake \/ OnHandshake \/ OnWrite
  BY <1>4 DEF OnResolve, OnConnect, OnSslHandshake, OnHandshake, OnWrite
<1>5. CASE OnRead
  <2>1. PICK m \in Messages : /\ received' = Append(received, m)
                              /\ published' = IF IsBook(Append(buffer, m))
                                              THEN Append(published, Len(received) + 1)
                                              ELSE published
                              /\ buffer' = <<>>
    BY <1>5 DEF OnRead, Consumed
  <2>2. received' \in Seq(Messages) /\ published' \in Seq(Nat)
    BY <2>1, AppendProperties, LenProperties
  <2>. QED BY <1>5, <2>1, <2>2 DEF OnRead
<1>6. CASE UNCHANGED vars
  BY <1>6 DEF vars
<1>. QED BY <1>1, <1>2, <1>3, <1>4, <1>5, <1>6 DEF Next, Chain

LEMMA AttemptsStep == TypeOK /\ AttemptsOnce /\ [Next]_vars => AttemptsOnce'
<1>. SUFFICES ASSUME TypeOK, AttemptsOnce, [Next]_vars PROVE AttemptsOnce'
  OBVIOUS
<1>. USE WebSocketAssumption DEF TypeOK, AttemptsOnce, ioc_vars, IocRuns, Completes
<1>1. CASE Start
  BY <1>1 DEF Start
<1>2. CASE StopTest \/ StopDispatch \/ StopJoin
  BY <1>2 DEF StopTest, StopDispatch, StopJoin
<1>3. CASE RunReturns \/ Close \/ Fails
  BY <1>3 DEF RunReturns, Close, Fails
<1>4. CASE OnResolve \/ OnConnect \/ OnSslHandshake \/ OnHandshake \/ OnWrite \/ OnRead
  BY <1>4 DEF OnResolve, OnConnect, OnSslHandshake, OnHandshake, OnWrite, OnRead
<1>5. CASE UNCHANGED vars
  BY <1>5 DEF vars
<1>. QED BY <1>1, <1>2, <1>3, <1>4, <1>5 DEF Next, Chain

(* Only on_read() receives and publishes. *)
LEMMA DataKept ==
  ASSUME [Next]_vars, ~ OnRead
  PROVE  UNCHANGED <<received, published>>
  BY DEF Next, Chain, vars, data_vars, Start, StopTest, StopDispatch, StopJoin, RunReturns,
         Close, Fails, OnResolve, OnConnect, OnSslHandshake, OnHandshake, OnWrite, Completes

LEMMA BooksStep == TypeOK /\ BooksInOrder /\ [Next]_vars => BooksInOrder'
<1>. SUFFICES ASSUME TypeOK, BooksInOrder, [Next]_vars PROVE BooksInOrder'
  OBVIOUS
<1>1. CASE ~ OnRead
  BY <1>1, DataKept DEF BooksInOrder
<1>2. CASE OnRead
  <2>. DEFINE n == Len(received)
              k == Len(published)
  <2>1. PICK m \in Messages : /\ received' = Append(received, m)
                              /\ published' = IF IsBook(Append(buffer, m))
                                              THEN Append(published, n + 1) ELSE published
    BY <1>2 DEF OnRead
  <2>2. IsBook(Append(buffer, m)) <=> m = "book"
    BY DEF TypeOK, IsBook
  <2>3. /\ n \in Nat /\ DOMAIN received = 1 .. n /\ DOMAIN received' = 1 .. n + 1
        /\ \A i \in 1 .. n : received'[i] = received[i]
        /\ received'[n + 1] = m
    BY <2>1, AppendFacts DEF TypeOK
  <2>4. \A i \in DOMAIN published : published[i] \in 1 .. n
    BY <2>3 DEF BooksInOrder
  <2>5. CASE m = "book"
    <3>1. published' = Append(published, n + 1)
      BY <2>1, <2>2, <2>5
    <3>2. /\ k \in Nat /\ DOMAIN published = 1 .. k /\ DOMAIN published' = 1 .. k + 1
          /\ \A i \in 1 .. k : published'[i] = published[i]
          /\ published'[k + 1] = n + 1
      BY <3>1, <2>3, AppendFacts DEF TypeOK
    <3>. HIDE DEF n, k
    <3>3. \A i, j \in DOMAIN published' : i < j => published'[i] < published'[j]
      BY <3>2, <2>3, <2>4 DEF BooksInOrder
    <3>4. {published'[i] : i \in DOMAIN published'}
            = {published[i] : i \in DOMAIN published} \cup {n + 1}
      BY <3>2
    <3>5. {x \in DOMAIN received' : received'[x] = "book"}
            = {x \in DOMAIN received : received[x] = "book"} \cup {n + 1}
      BY <2>3, <2>5
    <3>. QED BY <3>3, <3>4, <3>5 DEF BooksInOrder
  <2>6. CASE m # "book"
    <3>1. published' = published
      BY <2>1, <2>2, <2>6
    <3>. HIDE DEF n, k
    <3>2. {x \in DOMAIN received' : received'[x] = "book"}
            = {x \in DOMAIN received : received[x] = "book"}
      BY <2>3, <2>6
    <3>. QED BY <3>1, <3>2 DEF BooksInOrder
  <2>. QED BY <2>5, <2>6
<1>. QED BY <1>1, <1>2
-----------------------------------------------------------------------------
Sentiments == -2 .. 2
NewsItems == [article : Nat, symbol : {"GENERIC"}, sentiment : Sentiments]

NewsTypeOK ==
  /\ fetching \in {"idle", "parsing", "done"}
  /\ articles \in Seq(Articles)
  /\ parsed \in 0 .. Len(articles)
  /\ news \in Seq(NewsItems)

Titled(n) == {m \in 1 .. n : articles[m].kind = "titled"}

(* What was looked at was readable, and its headlines are published; the   *)
(* parsing ends at the end of the list or before what is not readable.     *)
NewsSoFar ==
  /\ fetching = "idle" => articles = <<>> /\ parsed = 0
  /\ Readable(parsed)
  /\ fetching = "done" /\ parsed < Len(articles) => articles[parsed + 1].kind = "broken"
  /\ \A i, j \in DOMAIN news : i < j => news[i].article < news[j].article
  /\ {news[i].article : i \in DOMAIN news} = Titled(parsed)

NewsIInv == NewsTypeOK /\ NewsSoFar

LEMMA SentimentClamped == \A a \in Articles : Sentiment(a) \in Sentiments
  BY DEF Sentiment, Articles, Sentiments

LEMMA NewsBegins == NewsInit => NewsIInv
  BY DEF NewsInit, NewsIInv, NewsTypeOK, NewsSoFar, Titled, Readable

LEMMA NewsStep == NewsIInv /\ [NewsNext]_news_vars => NewsIInv'
<1>. SUFFICES ASSUME NewsIInv, [NewsNext]_news_vars PROVE NewsIInv'
  OBVIOUS
<1>0. Len(articles) \in Nat /\ parsed \in Nat /\ DOMAIN articles = 1 .. Len(articles)
  BY LenProperties DEF NewsIInv, NewsTypeOK
<1>1. CASE Fetch
  <2>1. articles' \in Seq(Articles) /\ parsed = 0 /\ UNCHANGED <<parsed, news>>
        /\ fetching' \in {"done", "parsing"} /\ (fetching' = "done" => articles' = <<>>)
    BY <1>1, NewsAssumption DEF Fetch, NewsIInv, NewsTypeOK, NewsSoFar
  <2>2. Titled(parsed) = {} /\ Titled(parsed)' = {}
    BY <2>1 DEF Titled
  <2>3. NewsTypeOK'
    BY <2>1, LenProperties DEF NewsIInv, NewsTypeOK
  <2>4. Readable(parsed)'
    BY <2>1 DEF Readable
  <2>5. ~ (fetching' = "done" /\ parsed' < Len(articles'))
    BY <2>1
  <2>6. fetching' # "idle"
    BY <2>1
  <2>7. NewsSoFar'
    BY <2>1, <2>2, <2>4, <2>5, <2>6 DEF NewsIInv, NewsSoFar
  <2>. QED BY <2>3, <2>7 DEF NewsIInv
<1>2. CASE Skip
  <2>1. /\ parsed + 1 \in 1 .. Len(articles) /\ articles[parsed + 1].kind = "untitled"
        /\ parsed' = parsed + 1 /\ fetching = "parsing"
        /\ UNCHANGED <<fetching, articles, news>>
    BY <1>0, <1>2 DEF Skip
  <2>2. Titled(parsed)' = Titled(parsed)
    BY <1>0, <2>1 DEF Titled
  <2>3. Readable(parsed)'
    BY <1>0, <2>1 DEF Readable, NewsIInv, NewsSoFar
  <2>4. NewsTypeOK'
    BY <1>0, <2>1 DEF NewsIInv, NewsTypeOK
  <2>5. NewsSoFar'
    BY <2>1, <2>2, <2>3 DEF NewsIInv, NewsSoFar
  <2>. QED BY <2>4, <2>5 DEF NewsIInv
<1>3. CASE PublishNews
  <2>. DEFINE item == [article |-> parsed + 1, symbol |-> "GENERIC",
                       sentiment |-> Sentiment(articles[parsed + 1])]
              k == Len(news)
  <2>1. /\ parsed + 1 \in 1 .. Len(articles) /\ articles[parsed + 1].kind = "titled"
        /\ parsed' = parsed + 1 /\ fetching = "parsing" /\ news' = Append(news, item)
        /\ UNCHANGED <<fetching, articles>>
    BY <1>0, <1>3 DEF PublishNews
  <2>2. item \in NewsItems /\ item.article = parsed + 1
    <3>1. articles[parsed + 1] \in Articles
      BY <1>0, <2>1 DEF NewsIInv, NewsTypeOK
    <3>. QED BY <1>0, <3>1, SentimentClamped DEF NewsItems
  <2>3. /\ k \in Nat /\ DOMAIN news = 1 .. k /\ DOMAIN news' = 1 .. k + 1
        /\ \A i \in 1 .. k : news'[i] = news[i]
        /\ news'[k + 1] = item /\ news' \in Seq(NewsItems)
    BY <2>1, <2>2, AppendFacts DEF NewsIInv, NewsTypeOK
  <2>. HIDE DEF k, item
  <2>4. Titled(parsed)' = Titled(parsed) \cup {parsed + 1}
    BY <1>0, <2>1 DEF Titled
  <2>5. {news'[i].article : i \in DOMAIN news'}
          = {news[i].article : i \in DOMAIN news} \cup {parsed + 1}
    BY <2>2, <2>3
  <2>6. \A i \in DOMAIN news : news[i].article \in 1 .. parsed
    BY <1>0 DEF NewsIInv, NewsSoFar, Titled
  <2>7. \A i, j \in DOMAIN news' : i < j => news'[i].article < news'[j].article
    BY <1>0, <2>2, <2>3, <2>6 DEF NewsIInv, NewsSoFar
  <2>8. Readable(parsed)'
    BY <1>0, <2>1 DEF Readable, NewsIInv, NewsSoFar
  <2>9. NewsTypeOK'
    BY <1>0, <2>1, <2>3 DEF NewsIInv, NewsTypeOK
  <2>10. NewsSoFar'
    BY <2>1, <2>4, <2>5, <2>7, <2>8 DEF NewsIInv, NewsSoFar
  <2>. QED BY <2>9, <2>10 DEF NewsIInv
<1>4. CASE EndNews
  BY <1>0, <1>4 DEF EndNews, NewsIInv, NewsTypeOK, NewsSoFar, Titled, Readable
<1>5. CASE UNCHANGED news_vars
  BY <1>5 DEF news_vars, NewsIInv, NewsTypeOK, NewsSoFar, Titled, Readable
<1>. QED BY <1>1, <1>2, <1>3, <1>4, <1>5 DEF NewsNext

LEMMA NewsDelivered == NewsIInv => NewsInOrder
<1>. SUFFICES ASSUME NewsIInv, fetching = "done"
              PROVE  Titled(parsed) = {n \in DOMAIN articles :
                                         Readable(n) /\ articles[n].kind = "titled"}
  BY DEF NewsIInv, NewsSoFar, NewsInOrder
<1>1. Len(articles) \in Nat /\ parsed \in 0 .. Len(articles)
      /\ DOMAIN articles = 1 .. Len(articles)
  BY LenProperties DEF NewsIInv, NewsTypeOK
<1>2. ASSUME NEW n \in 1 .. Len(articles)
      PROVE  Readable(n) <=> n <= parsed
  <2>1. CASE n <= parsed
    BY <1>1, <2>1 DEF Readable, NewsIInv, NewsSoFar
  <2>2. CASE n > parsed
    <3>1. articles[parsed + 1].kind = "broken" /\ parsed + 1 \in 1 .. n
      BY <1>1, <2>2 DEF NewsIInv, NewsSoFar
    <3>. QED BY <1>1, <2>2, <3>1 DEF Readable
  <2>. QED BY <1>1, <2>1, <2>2
<1>. QED BY <1>1, <1>2 DEF Titled
-----------------------------------------------------------------------------
FeedsIInv == FeedIInv /\ NewsIInv

LEMMA FeedsInvariant == FeedsSpec => []FeedsIInv
<1>1. FeedsInit => FeedsIInv
  <2>1. Init => TypeOK
    <3>1. Init => {ioc_stopped, close_queued, refused} \subseteq BOOLEAN
      BY DEF Init
    <3>. QED BY <3>1, WebSocketAssumption DEF Init, TypeOK
  <2>2. Init => AttemptsOnce
    BY DEF Init, AttemptsOnce
  <2>3. Init => BooksInOrder
    BY DEF Init, BooksInOrder
  <2>. QED BY <2>1, <2>2, <2>3, NewsBegins DEF FeedsInit, FeedsIInv, FeedIInv
<1>2. FeedsIInv /\ [FeedsNext]_<<vars, news_vars>> => FeedsIInv'
  <2>1. [FeedsNext]_<<vars, news_vars>> => [Next]_vars /\ [NewsNext]_news_vars
    BY DEF FeedsNext
  <2>. QED BY <2>1, FeedTypeStep, AttemptsStep, BooksStep, NewsStep DEF FeedsIInv, FeedIInv
<1>. QED BY <1>1, <1>2, PTL DEF FeedsSpec

(* Both feeds keep their types; the buffer is empty between handlers.      *)
THEOREM FeedsTypeCorrect == FeedsSpec => []FeedsTypeOK
<1>1. FeedsIInv => FeedsTypeOK
  <2>1. NewsTypeOK => \A i \in DOMAIN news : news[i].sentiment \in -2 .. 2
    <3>1. NewsTypeOK => news \in [1 .. Len(news) -> NewsItems]
      BY LenProperties DEF NewsTypeOK
    <3>. QED BY <3>1 DEF NewsItems, Sentiments
  <2>. QED BY <2>1 DEF FeedsIInv, FeedIInv, NewsIInv, NewsTypeOK, FeedsTypeOK
<1>. QED BY FeedsInvariant, <1>1, PTL

(* Each book and each headline is published once and in order, whatever    *)
(* comes in between.                                                       *)
THEOREM FeedsOrdered == FeedsSpec => []FeedsInOrder
<1>1. FeedsIInv => FeedsInOrder
  BY NewsDelivered DEF FeedsIInv, FeedIInv, FeedsInOrder
<1>. QED BY FeedsInvariant, <1>1, PTL
-----------------------------------------------------------------------------
(* Every step of the chain of handlers is a step of the connection or is   *)
(* invisible.                                                              *)
LEMMA FeedSimulates ==
  ASSUME TypeOK, AttemptsOnce, [Next]_vars
  PROVE  [Connection!LiveNext]_(Connection!live_vars)
<1>. DEFINE Simulated == Connection!LiveNext \/ UNCHANGED Connection!live_vars
<1>. USE DEF TypeOK, AttemptsOnce, Client, Connection!live_vars, ioc_vars, data_vars
<1>1. CASE Start
  <2>1. Connection!LiveStart
    BY <1>1, WebSocketAssumption DEF Start, Connection!LiveStart
  <2>. QED BY <2>1 DEF Connection!LiveNext
<1>2. CASE StopTest \/ StopDispatch
  BY <1>2 DEF StopTest, StopDispatch
<1>3. CASE StopJoin
  <2>1. Connection!Joined
    BY <1>3 DEF StopJoin, Connection!Joined
  <2>. QED BY <2>1 DEF Connection!LiveNext
<1>4. CASE RunReturns
  BY <1>4 DEF RunReturns
<1>5. CASE Close
  <2>1. CASE stream = "open" /\ operation # "none"
    <3>1. Connection!Closing
      BY <1>5, <2>1 DEF Close, IocRuns, Connection!Closing
    <3>. QED BY <3>1 DEF Connection!LiveNext
  <2>2. CASE ~ (stream = "open" /\ operation # "none")
    BY <1>5, <2>2 DEF Close, IocRuns
  <2>. QED BY <2>1, <2>2
<1>6. CASE Fails
  <2>1. Connection!Lost
    BY <1>6 DEF Fails, IocRuns, Connection!Lost
  <2>. QED BY <2>1 DEF Connection!LiveNext
<1>7. CASE OnResolve \/ OnConnect \/ OnSslHandshake \/ OnWrite
  BY <1>7 DEF OnResolve, OnConnect, OnSslHandshake, OnWrite, Completes, IocRuns
<1>8. CASE OnHandshake
  <2>1. Connection!Connected
    BY <1>8 DEF OnHandshake, Completes, IocRuns, Connection!Connected
  <2>. QED BY <2>1 DEF Connection!LiveNext
<1>9. CASE OnRead
  <2>1. Len(received') = Len(received) + 1
    BY <1>9, AppendFacts DEF OnRead
  <2>2. Connection!Message
    BY <1>9, <2>1 DEF OnRead, Completes, IocRuns, Connection!Message
  <2>. QED BY <2>2 DEF Connection!LiveNext
<1>10. CASE UNCHANGED vars
  BY <1>10 DEF vars
<1>. QED BY <1>1, <1>2, <1>3, <1>4, <1>5, <1>6, <1>7, <1>8, <1>9, <1>10 DEF Next, Chain

(* The live data handler is the connection that LIVE mode is modelled      *)
(* with; that its closed stream comes to an end is left to the runs.       *)
THEOREM ActsAsConnection ==
  FeedsSpec => Connection!LiveInit /\ [][Connection!LiveNext]_(Connection!live_vars)
<1>1. FeedsInit => Connection!LiveInit
  BY DEF FeedsInit, Init, Client, Connection!LiveInit
<1>2. FeedsIInv /\ [FeedsNext]_<<vars, news_vars>>
        => [Connection!LiveNext]_(Connection!live_vars)
  <2>1. [FeedsNext]_<<vars, news_vars>> => [Next]_vars
    BY DEF FeedsNext
  <2>. QED BY <2>1, FeedSimulates DEF FeedsIInv, FeedIInv
<1>. QED BY <1>1, <1>2, FeedsInvariant, PTL DEF FeedsSpec
=============================================================================
