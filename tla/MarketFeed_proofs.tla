-------------------------- MODULE MarketFeed_proofs --------------------------
(***************************************************************************)
(* Proofs about MarketFeed, for any exchanges and symbols, any number of   *)
(* fetches at once and any number of quotes.                               *)
(***************************************************************************)
EXTENDS MarketFeed, FiniteSetTheorems, SequenceTheorems, TLAPS

Packet == [kind : {"TICKER", "BOOK"}, key : Keys, data : NoAnswer \cup Versions]

\* The types, but for the bound of the permits.
Base ==
    /\ universe \in (SUBSET Symbols) \ {{}}
    /\ polling \in BOOLEAN
    /\ permits \in Nat
    /\ job \in [Keys -> {"NONE", "WAITING", "FETCHING", "DONE"}]
    /\ ticker \in [Keys -> NoAnswer \cup Versions]
    /\ depth \in [Keys -> NoAnswer \cup Versions]
    /\ arrived \in Seq(Keys)
    /\ version \in [Keys -> Versions]
    /\ tick \in [Keys -> 0 .. MaxVersion]
    /\ held \subseteq Symbols /\ due \subseteq held

\* A permit is out for every job that fetches.
Permitted ==
    /\ IsFiniteSet(Fetching)
    /\ Cardinality(Fetching) + permits = MaxFetches

\* A job that arrived is done and arrived once.
Arrived ==
    /\ \A i \in 1 .. Len(arrived) : job[arrived[i]] = "DONE"
    /\ \A i, j \in 1 .. Len(arrived) : arrived[i] = arrived[j] => i = j

\* Between two rounds nothing is left of the one before.
Between == ~polling => RoundOver

\* The packets are of one job that is over: its ticker and its order book, or
\* one of them.
TickerPacket(k, d) == [kind |-> "TICKER", key |-> k, data |-> d]
BookPacket(k, d) == [kind |-> "BOOK", key |-> k, data |-> d]
Answered == NoAnswer \cup Versions
OneJob ==
    \/ packets = << >>
    \/ \E k \in Keys :
         /\ job[k] = "NONE"
         /\ \/ \E d \in Answered : packets = << BookPacket(k, d) >>
            \/ \E c \in Answered :
                 /\ c \in Versions => tick[k] <= c /\ c <= version[k]
                 /\ \/ packets = << TickerPacket(k, c) >>
                    \/ \E d \in Answered :
                         packets = << TickerPacket(k, c), BookPacket(k, d) >>

\* What is stored, and what is on its way to be, was a quote of this key, and
\* what is on its way is not older than what is stored.
Aged ==
    \A k \in Keys :
        /\ tick[k] <= version[k]
        /\ job[k] \in {"FETCHING", "DONE"} /\ ticker[k] \in Versions =>
             tick[k] <= ticker[k] /\ ticker[k] <= version[k]
        /\ job[k] = "WAITING" => ticker[k] = Pending /\ depth[k] = Pending

IInv == Base /\ Permitted /\ Arrived /\ Between /\ OneJob /\ Aged

-----------------------------------------------------------------------------

LEMMA Bounds ==
    /\ MaxFetches \in Nat \ {0} /\ MaxVersion \in Nat \ {0}
    /\ Pending \notin Versions /\ Failed \notin Versions /\ Invalid \notin Versions
    /\ Pending # Failed
BY FeedAssumption DEF Versions

LEMMA QuoteType ==
    ASSUME Base, NEW k \in Keys
    PROVE  /\ version[k] \in 1 .. MaxVersion
           /\ tick[k] \in 0 .. MaxVersion
           /\ ticker[k] \in NoAnswer \cup Versions
BY DEF Base, Versions

LEMMA InvInit == Init => IInv
<1> SUFFICES ASSUME Init
             PROVE  IInv
  OBVIOUS
<1>1. 1 \in Versions /\ 0 \in 0 .. MaxVersion /\ MaxFetches \in Nat
  BY Bounds DEF Versions
<1>2. Base
  <2>1. universe \in (SUBSET Symbols) \ {{}}
    BY FeedAssumption DEF Init
  <2>2. polling \in BOOLEAN
    BY DEF Init
  <2> QED BY <1>1, <2>1, <2>2 DEF Init, Base, NoAnswer
<1>3. Permitted
  <2>1. Fetching = {}
    BY DEF Init, Fetching
  <2> QED BY <1>1, <2>1, FS_EmptySet DEF Init, Permitted
<1>4. Arrived /\ Between /\ OneJob
  BY DEF Init, Arrived, Between, RoundOver, OneJob
<1>5. Aged
  BY <1>1 DEF Init, Aged
<1> QED BY <1>2, <1>3, <1>4, <1>5 DEF IInv

-----------------------------------------------------------------------------
(* The polling source                                                      *)

LEMMA StepStartRound == IInv /\ StartRound => IInv'
<1> SUFFICES ASSUME IInv, StartRound
             PROVE  IInv'
  OBVIOUS
<1> USE DEF IInv, book
<1>1. /\ ~polling /\ polling' = TRUE /\ permits' = MaxFetches
      /\ universe' \in RefreshedUniverses
      /\ job' = [k \in Keys |-> IF SymbolOf(k) \in universe' THEN "WAITING" ELSE "NONE"]
      /\ ticker' = [k \in Keys |-> Pending] /\ depth' = [k \in Keys |-> Pending]
      /\ UNCHANGED <<arrived, packets, version, tick, held, due>>
  BY DEF StartRound
<1>2. arrived = << >> /\ packets = << >>
  BY <1>1 DEF Between, RoundOver
<1>3. universe' \in (SUBSET Symbols) \ {{}}
  <2>1. \A U \in Discovered : U \subseteq Symbols
    BY FeedAssumption DEF Discovered
  <2> QED BY <1>1, <2>1 DEF RefreshedUniverses, Base
<1>4. Base'
  <2>1. permits' \in Nat /\ Pending \in NoAnswer
    BY <1>1, Bounds DEF NoAnswer
  <2>2. polling' \in BOOLEAN
    BY <1>1
  <2> QED BY <1>1, <1>3, <2>1, <2>2 DEF Base
<1>5. Permitted'
  <2>1. Fetching' = {}
    BY <1>1 DEF Fetching
  <2> QED BY <1>1, <2>1, Bounds, FS_EmptySet DEF Permitted
<1>6. Arrived' /\ Between' /\ OneJob'
  BY <1>1, <1>2 DEF Arrived, Between, OneJob
<1>7. Aged'
  BY <1>1 DEF Aged
<1> QED BY <1>4, <1>5, <1>6, <1>7

LEMMA StepAcquire == ASSUME NEW k \in Keys PROVE IInv /\ Acquire(k) => IInv'
<1> SUFFICES ASSUME IInv, Acquire(k)
             PROVE  IInv'
  OBVIOUS
<1> USE DEF IInv
<1>1. /\ job[k] = "WAITING" /\ permits > 0 /\ permits' = permits - 1
      /\ job' = [job EXCEPT ![k] = "FETCHING"]
      /\ UNCHANGED <<universe, polling, ticker, depth, arrived, packets, version,
                     tick, held, due>>
  BY DEF Acquire, book
<1>2. \A j \in Keys : job'[j] = IF j = k THEN "FETCHING" ELSE job[j]
  BY <1>1 DEF Base
<1>3. Base'
  <2>1. permits' \in Nat
    BY <1>1 DEF Base
  <2> QED BY <1>1, <2>1 DEF Base
<1>4. Permitted'
  <2>1. Fetching' = Fetching \cup {k} /\ k \notin Fetching
    BY <1>1, <1>2 DEF Fetching
  <2>2. IsFiniteSet(Fetching) /\ Cardinality(Fetching) \in Nat
    BY FS_CardinalityType DEF Permitted
  <2>3. IsFiniteSet(Fetching') /\ Cardinality(Fetching') = Cardinality(Fetching) + 1
    BY <2>1, <2>2, FS_AddElement
  <2>4. permits \in Nat /\ Cardinality(Fetching) + permits = MaxFetches
    BY DEF Base, Permitted
  <2> HIDE DEF Fetching
  <2>5. Cardinality(Fetching') + permits' = MaxFetches
    BY <1>1, <2>2, <2>3, <2>4
  <2> QED BY <2>3, <2>5 DEF Permitted
<1>5. Arrived'
  <2>1. \A i \in 1 .. Len(arrived) : arrived[i] \in Keys
    BY ElementOfSeq DEF Base
  <2> QED BY <1>1, <1>2, <2>1 DEF Arrived
<1>6. Between'
  BY <1>1 DEF Between, RoundOver
<1>7. OneJob'
  BY <1>1, <1>2 DEF OneJob
<1>8. Aged'
  <2>1. ticker[k] = Pending
    BY <1>1 DEF Aged
  <2> QED BY <1>1, <1>2, <2>1, Bounds DEF Aged
<1> QED BY <1>3, <1>4, <1>5, <1>6, <1>7, <1>8

\* Either fetch of a job is answered: with the quote of the moment, or not with
\* a quote at all.
LEMMA StepFetch ==
    ASSUME NEW k \in Keys, NEW answer \in Answers(k)
    PROVE  IInv /\ (FetchTicker(k, answer) \/ FetchBook(k, answer)) => IInv'
<1> SUFFICES ASSUME IInv, FetchTicker(k, answer) \/ FetchBook(k, answer)
             PROVE  IInv'
  OBVIOUS
<1> USE DEF IInv
<1>1. /\ job[k] = "FETCHING"
      /\ UNCHANGED <<universe, polling, permits, job, arrived, packets, version,
                     tick, held, due>>
      /\ \/ UNCHANGED ticker /\ depth' = [depth EXCEPT ![k] = answer]
         \/ UNCHANGED depth /\ ticker' = [ticker EXCEPT ![k] = answer]
  BY DEF FetchTicker, FetchBook, book
<1>2. answer \in NoAnswer \cup Versions
  BY QuoteType DEF Answers, NoAnswer, Versions
<1>3. answer \in Versions => answer = version[k]
  BY Bounds DEF Answers
<1>4. Base'
  BY <1>1, <1>2 DEF Base
<1>5. Permitted' /\ Arrived' /\ Between' /\ OneJob'
  BY <1>1 DEF Permitted, Fetching, Arrived, Between, RoundOver, OneJob
<1>6. Aged'
  <2> SUFFICES ASSUME NEW j \in Keys
               PROVE  /\ tick[j] <= version[j]
                      /\ job[j] \in {"FETCHING", "DONE"} /\ ticker'[j] \in Versions =>
                           tick[j] <= ticker'[j] /\ ticker'[j] <= version[j]
                      /\ job[j] = "WAITING" => ticker'[j] = Pending /\ depth'[j] = Pending
    BY <1>1 DEF Aged
  <2>1. CASE j = k
    <3>1. ticker'[k] \in {ticker[k], answer}
      BY <1>1 DEF Base
    <3>2. version[k] <= version[k] /\ tick[k] <= version[k]
      BY QuoteType DEF Aged
    <3> QED BY <1>1, <1>3, <2>1, <3>1, <3>2 DEF Aged
  <2>2. CASE j # k
    <3>1. ticker'[j] = ticker[j] /\ depth'[j] = depth[j]
      BY <1>1, <2>2 DEF Base
    <3> QED BY <3>1 DEF Aged
  <2> QED BY <2>1, <2>2
<1> QED BY <1>4, <1>5, <1>6

LEMMA StepComplete == ASSUME NEW k \in Keys PROVE IInv /\ Complete(k) => IInv'
<1> SUFFICES ASSUME IInv, Complete(k)
             PROVE  IInv'
  OBVIOUS
<1> USE DEF IInv
<1>1. /\ job[k] = "FETCHING" /\ permits' = permits + 1
      /\ job' = [job EXCEPT ![k] = "DONE"]
      /\ arrived' = Append(arrived, k)
      /\ UNCHANGED <<universe, polling, ticker, depth, packets, version, tick,
                     held, due>>
  BY DEF Complete, book
<1>2. \A j \in Keys : job'[j] = IF j = k THEN "DONE" ELSE job[j]
  BY <1>1 DEF Base
<1>3. /\ arrived' \in Seq(Keys) /\ Len(arrived) \in Nat
      /\ Len(arrived') = Len(arrived) + 1
      /\ \A i \in 1 .. Len(arrived) : arrived'[i] = arrived[i] /\ arrived[i] \in Keys
      /\ arrived'[Len(arrived) + 1] = k
  BY <1>1, AppendProperties, LenProperties, ElementOfSeq DEF Base
<1>4. Base'
  <2>1. permits' \in Nat
    BY <1>1 DEF Base
  <2> QED BY <1>1, <1>3, <2>1 DEF Base
<1>5. Permitted'
  <2>1. Fetching' = Fetching \ {k} /\ k \in Fetching
    BY <1>1, <1>2 DEF Fetching
  <2>2. IsFiniteSet(Fetching) /\ Cardinality(Fetching) \in Nat
    BY FS_CardinalityType DEF Permitted
  <2>3. IsFiniteSet(Fetching') /\ Cardinality(Fetching') = Cardinality(Fetching) - 1
    BY <2>1, <2>2, FS_RemoveElement
  <2>4. permits \in Nat /\ Cardinality(Fetching) + permits = MaxFetches
    BY DEF Base, Permitted
  <2> HIDE DEF Fetching
  <2>5. Cardinality(Fetching') + permits' = MaxFetches
    BY <1>1, <2>2, <2>3, <2>4
  <2> QED BY <2>3, <2>5 DEF Permitted
<1>6. Arrived'
  <2>1. \A i \in 1 .. Len(arrived) : arrived[i] # k
    BY <1>1 DEF Arrived
  <2>2. \A i \in 1 .. Len(arrived') :
          i \in 1 .. Len(arrived) \/ i = Len(arrived) + 1
    BY <1>3
  <2>3. \A i \in 1 .. Len(arrived') : job'[arrived'[i]] = "DONE"
    BY <1>2, <1>3, <2>2 DEF Arrived
  <2>4. \A i, j \in 1 .. Len(arrived') : arrived'[i] = arrived'[j] => i = j
    BY <1>3, <2>1, <2>2 DEF Arrived
  <2> QED BY <2>3, <2>4 DEF Arrived
<1>7. Between'
  BY <1>1 DEF Between, RoundOver
<1>8. OneJob' /\ Aged'
  BY <1>1, <1>2 DEF OneJob, Aged
<1> QED BY <1>4, <1>5, <1>6, <1>7, <1>8

\* What a job leaves: nothing, one packet, or its ticker and then its order book.
LEMMA PacketForms ==
    ASSUME NEW k \in Keys
    PROVE  \/ PacketsOf(k) = << >>
           \/ PacketsOf(k) = << BookPacket(k, depth[k]) >>
           \/ PacketsOf(k) = << TickerPacket(k, ticker[k]) >>
           \/ PacketsOf(k) = << TickerPacket(k, ticker[k]), BookPacket(k, depth[k]) >>
<1>1. Packets("TICKER", k, ticker[k]) \in {<< >>, << TickerPacket(k, ticker[k]) >>}
  BY DEF Packets, TickerPacket
<1>2. Packets("BOOK", k, depth[k]) \in {<< >>, << BookPacket(k, depth[k]) >>}
  BY DEF Packets, BookPacket
<1>3. PacketsOf(k) = Packets("TICKER", k, ticker[k]) \o Packets("BOOK", k, depth[k])
  BY DEF PacketsOf
<1> DEFINE t == TickerPacket(k, ticker[k])
           b == BookPacket(k, depth[k])
<1> HIDE DEF t, b
<1>4. << >> \o << >> = << >> /\ << >> \o << b >> = << b >>
  OBVIOUS
<1>5. << t >> \o << >> = << t >> /\ << t >> \o << b >> = << t, b >>
  <2> DEFINE S == {t, b}
             one == << t >>
             other == << b >>
             both == one \o other
  <2>1. one \in Seq(S) /\ other \in Seq(S) /\ Len(one) = 1 /\ Len(other) = 1
    OBVIOUS
  <2>2. one[1] = t /\ other[1] = b
    OBVIOUS
  <2> HIDE DEF one, other
  <2>3. one \o << >> = one
    BY <2>1, ConcatEmptySeq
  <2>4. both \in Seq(S) /\ Len(both) = 2 /\ both[1] = t /\ both[2] = b
    BY <2>1, <2>2, ConcatProperties
  <2> HIDE DEF both
  <2>5. both = << t, b >>
    <3> DEFINE pair == << t, b >>
    <3>1. pair \in Seq(S) /\ Len(pair) = 2 /\ pair[1] = t /\ pair[2] = b
      OBVIOUS
    <3> HIDE DEF pair
    <3>2. \A i \in 1 .. Len(both) : both[i] = pair[i]
      BY <2>4, <3>1
    <3>3. both = pair
      BY <2>4, <3>1, <3>2, SeqEqual
    <3> QED BY <3>3 DEF pair
  <2> QED BY <2>3, <2>5 DEF one, other, both
<1> QED BY <1>1, <1>2, <1>3, <1>4, <1>5 DEF t, b

LEMMA StepAwaitJob == IInv /\ AwaitJob => IInv'
<1> SUFFICES ASSUME IInv, AwaitJob
             PROVE  IInv'
  OBVIOUS
<1> USE DEF IInv
<1> DEFINE k == Head(arrived)
<1>1. /\ arrived # << >>
      /\ packets' = PacketsOf(k)
      /\ job' = [job EXCEPT ![k] = "NONE"]
      /\ arrived' = Tail(arrived)
      /\ UNCHANGED <<universe, polling, permits, ticker, depth, version, tick,
                     held, due>>
  BY DEF AwaitJob, book
<1>2. /\ Len(arrived) \in Nat \ {0} /\ k = arrived[1]
      /\ arrived' \in Seq(Keys) /\ Len(arrived') = Len(arrived) - 1
      /\ \A i \in 1 .. Len(arrived') : arrived'[i] = arrived[i + 1]
      /\ \A i \in 1 .. Len(arrived) : arrived[i] \in Keys
  BY <1>1, HeadTailProperties, EmptySeq, ElementOfSeq DEF Base
<1>3. k \in Keys /\ job[k] = "DONE"
  BY <1>2 DEF Arrived
<1> HIDE DEF k
<1>4. \A j \in Keys : job'[j] = IF j = k THEN "NONE" ELSE job[j]
  BY <1>1 DEF Base
<1>5. Base'
  BY <1>1, <1>2 DEF Base
<1>6. Permitted'
  <2>1. Fetching' = Fetching
    BY <1>3, <1>4 DEF Fetching
  <2> HIDE DEF Fetching
  <2> QED BY <1>1, <2>1 DEF Permitted
<1>7. Arrived'
  <2>1. \A i \in 1 .. Len(arrived') : i + 1 \in 1 .. Len(arrived) /\ i + 1 # 1
    BY <1>2
  <2>2. \A i \in 1 .. Len(arrived') : arrived'[i] \in Keys \ {k}
    BY <1>2, <2>1 DEF Arrived
  <2>3. \A i \in 1 .. Len(arrived') : job'[arrived'[i]] = "DONE"
    BY <1>2, <1>4, <2>1, <2>2 DEF Arrived
  <2>4. \A i, j \in 1 .. Len(arrived') : i + 1 = j + 1 => i = j
    BY <1>2
  <2>5. \A i, j \in 1 .. Len(arrived') : arrived'[i] = arrived'[j] => i = j
    BY <1>2, <2>1, <2>4 DEF Arrived
  <2> QED BY <2>3, <2>5 DEF Arrived
<1>8. Between'
  BY <1>1 DEF Between, RoundOver
<1>9. OneJob'
  <2>1. job'[k] = "NONE" /\ ticker[k] \in Answered /\ depth[k] \in Answered
    BY <1>3, <1>4 DEF Base, Answered
  <2>2. ticker[k] \in Versions => tick[k] <= ticker[k] /\ ticker[k] <= version[k]
    BY <1>3 DEF Aged
  <2>3. CASE packets' = << >>
    BY <2>3 DEF OneJob
  <2>4. CASE packets' = << BookPacket(k, depth[k]) >>
    BY <1>3, <2>1, <2>4 DEF OneJob, BookPacket
  <2>5. CASE packets' = << TickerPacket(k, ticker[k]) >>
    BY <1>1, <1>3, <2>1, <2>2, <2>5 DEF OneJob, TickerPacket
  <2>6. CASE packets' = << TickerPacket(k, ticker[k]), BookPacket(k, depth[k]) >>
    BY <1>1, <1>3, <2>1, <2>2, <2>6 DEF OneJob, TickerPacket, BookPacket
  <2>7. \/ packets' = << >>
        \/ packets' = << BookPacket(k, depth[k]) >>
        \/ packets' = << TickerPacket(k, ticker[k]) >>
        \/ packets' = << TickerPacket(k, ticker[k]), BookPacket(k, depth[k]) >>
    BY <1>1, <1>3, PacketForms
  <2> QED BY <2>3, <2>4, <2>5, <2>6, <2>7
<1>10. Aged'
  BY <1>1, <1>3, <1>4 DEF Aged
<1> QED BY <1>5, <1>6, <1>7, <1>8, <1>9, <1>10

LEMMA StepEndRound == IInv /\ EndRound => IInv'
<1> SUFFICES ASSUME IInv, EndRound
             PROVE  IInv'
  OBVIOUS
<1> USE DEF IInv, round, book
<1>1. /\ RoundOver /\ polling' = FALSE
      /\ UNCHANGED <<universe, permits, job, ticker, depth, arrived, packets,
                     version, tick, held, due>>
  BY DEF EndRound
<1>2. Base'
  BY <1>1 DEF Base
<1>3. Between'
  BY <1>1 DEF Between, RoundOver
<1> QED BY <1>1, <1>2, <1>3 DEF Permitted, Fetching, Arrived, OneJob, Aged

-----------------------------------------------------------------------------
(* MarketDataService                                                       *)

\* The packet handled next, if it is a ticker.
LEMMA TickerFirst ==
    ASSUME Base, OneJob, Yielded("TICKER")
    PROVE  \E k \in Keys : \E c \in Answered :
             /\ job[k] = "NONE"
             /\ c \in Versions => tick[k] <= c /\ c <= version[k]
             /\ Head(packets) = TickerPacket(k, c)
             /\ \/ Tail(packets) = << >>
                \/ \E d \in Answered : Tail(packets) = << BookPacket(k, d) >>
<1>1. packets # << >> /\ Head(packets).kind = "TICKER"
  BY DEF Yielded
<1>2. PICK k \in Keys :
        /\ job[k] = "NONE"
        /\ \/ \E d \in Answered : packets = << BookPacket(k, d) >>
           \/ \E c \in Answered :
                /\ c \in Versions => tick[k] <= c /\ c <= version[k]
                /\ \/ packets = << TickerPacket(k, c) >>
                   \/ \E d \in Answered :
                        packets = << TickerPacket(k, c), BookPacket(k, d) >>
  BY <1>1 DEF OneJob
<1>3. ~ \E d \in Answered : packets = << BookPacket(k, d) >>
  BY <1>1 DEF BookPacket
<1>4. PICK c \in Answered :
        /\ c \in Versions => tick[k] <= c /\ c <= version[k]
        /\ \/ packets = << TickerPacket(k, c) >>
           \/ \E d \in Answered : packets = << TickerPacket(k, c), BookPacket(k, d) >>
  BY <1>2, <1>3
<1>5. CASE packets = << TickerPacket(k, c) >>
  <2>1. Head(packets) = TickerPacket(k, c) /\ Tail(packets) = << >>
    BY <1>5
  <2> QED BY <1>2, <1>4, <2>1
<1>6. ASSUME NEW d \in Answered, packets = << TickerPacket(k, c), BookPacket(k, d) >>
      PROVE  Head(packets) = TickerPacket(k, c) /\ Tail(packets) = << BookPacket(k, d) >>
  BY <1>6
<1> QED BY <1>2, <1>4, <1>5, <1>6

LEMMA StepHandleTicker ==
    IInv /\ HandleTicker => IInv' /\ \A j \in Keys : tick'[j] >= tick[j]
<1> SUFFICES ASSUME IInv, HandleTicker
             PROVE  IInv' /\ \A j \in Keys : tick'[j] >= tick[j]
  OBVIOUS
<1> USE DEF IInv
<1>1. /\ Yielded("TICKER") /\ packets' = Tail(packets)
      /\ tick' = IF Valid(Head(packets))
                 THEN [tick EXCEPT ![Head(packets).key] = Head(packets).data] ELSE tick
      /\ UNCHANGED <<universe, polling, permits, job, ticker, depth, arrived,
                     version, held, due>>
  BY DEF HandleTicker, book
<1>2. PICK k \in Keys, c \in Answered :
        /\ job[k] = "NONE"
        /\ c \in Versions => tick[k] <= c /\ c <= version[k]
        /\ Head(packets) = TickerPacket(k, c)
        /\ \/ Tail(packets) = << >>
           \/ \E d \in Answered : Tail(packets) = << BookPacket(k, d) >>
  BY <1>1, TickerFirst
<1>3. tick' = IF c \in Versions THEN [tick EXCEPT ![k] = c] ELSE tick
  <2>1. Head(packets).data = c /\ Head(packets).key = k
    BY <1>2 DEF TickerPacket
  <2>2. Valid(Head(packets)) <=> c \in Versions
    BY <2>1 DEF Valid
  <2>3. CASE c \in Versions
    BY <1>1, <2>1, <2>2, <2>3
  <2>4. CASE c \notin Versions
    BY <1>1, <2>2, <2>4
  <2> QED BY <2>3, <2>4
<1>4. \A j \in Keys : tick'[j] = IF j = k /\ c \in Versions THEN c ELSE tick[j]
  BY <1>3 DEF Base
<1>5. tick' \in [Keys -> 0 .. MaxVersion]
  <2>1. c \in Versions => c \in 0 .. MaxVersion
    BY Bounds DEF Versions
  <2> QED BY <1>3, <2>1 DEF Base
<1>6. \A j \in Keys : tick'[j] >= tick[j] /\ tick'[j] <= version[j]
  <2> SUFFICES ASSUME NEW j \in Keys
               PROVE  tick'[j] >= tick[j] /\ tick'[j] <= version[j]
    OBVIOUS
  <2>1. tick[j] \in Nat /\ version[j] \in Nat /\ tick[j] <= version[j]
    BY QuoteType, Bounds DEF Aged
  <2>2. c \in Versions => c \in Nat
    BY Bounds DEF Versions
  <2> QED BY <1>2, <1>4, <2>1, <2>2
<1>7. Base'
  BY <1>1, <1>5 DEF Base
<1>8. Permitted' /\ Arrived'
  BY <1>1 DEF Permitted, Fetching, Arrived
<1>9. Between'
  BY <1>1 DEF Between, RoundOver, Yielded
<1>10. OneJob'
  BY <1>1, <1>2 DEF OneJob
<1>11. Aged'
  BY <1>1, <1>2, <1>4, <1>6 DEF Aged
<1> QED BY <1>6, <1>7, <1>8, <1>9, <1>10, <1>11

\* An order book is the last packet of its job.
LEMMA BookLast ==
    ASSUME OneJob, Yielded("BOOK")
    PROVE  \E k \in Keys, d \in Answered : packets = << BookPacket(k, d) >>
<1>1. packets # << >> /\ Head(packets).kind = "BOOK"
  BY DEF Yielded
<1>2. PICK k \in Keys :
        \/ \E d \in Answered : packets = << BookPacket(k, d) >>
        \/ \E c \in Answered :
             \/ packets = << TickerPacket(k, c) >>
             \/ \E d \in Answered : packets = << TickerPacket(k, c), BookPacket(k, d) >>
  BY <1>1 DEF OneJob
<1>3. ASSUME NEW c \in Answered
      PROVE  /\ packets # << TickerPacket(k, c) >>
             /\ \A d \in Answered : packets # << TickerPacket(k, c), BookPacket(k, d) >>
  BY <1>1 DEF TickerPacket
<1> QED BY <1>2, <1>3

LEMMA StepHandleBook == IInv /\ HandleBook => IInv'
<1> SUFFICES ASSUME IInv, HandleBook
             PROVE  IInv'
  OBVIOUS
<1> USE DEF IInv
<1>1. /\ Yielded("BOOK") /\ packets' = Tail(packets)
      /\ IF Valid(Head(packets)) THEN OnBook(SymbolOf(Head(packets).key))
         ELSE UNCHANGED <<held, due>>
      /\ UNCHANGED <<universe, polling, permits, job, ticker, depth, arrived,
                     version, tick>>
  BY DEF HandleBook, book
<1>2. PICK k \in Keys, d \in Answered : packets = << BookPacket(k, d) >>
  BY <1>1, BookLast
<1>3. packets' = << >> /\ Head(packets).key = k
  BY <1>1, <1>2 DEF BookPacket
<1>4. held' \subseteq Symbols /\ due' \subseteq held'
  <2>1. SymbolOf(k) \in Symbols
    BY DEF SymbolOf, Keys
  <2>2. OnBook(SymbolOf(k)) => held' \subseteq Symbols /\ due' \subseteq held'
    BY <2>1 DEF OnBook, Base, book
  <2> QED BY <1>1, <1>3, <2>2 DEF Base
<1>5. Base'
  BY <1>1, <1>4 DEF Base
<1>6. Between'
  BY <1>1, <1>3 DEF Between, RoundOver
<1>7. OneJob'
  BY <1>3 DEF OneJob
<1> QED BY <1>1, <1>5, <1>6, <1>7 DEF Permitted, Fetching, Arrived, Aged

-----------------------------------------------------------------------------
(* The market                                                              *)

LEMMA StepQuoteMoves == ASSUME NEW k \in Keys PROVE IInv /\ QuoteMoves(k) => IInv'
<1> SUFFICES ASSUME IInv, QuoteMoves(k)
             PROVE  IInv'
  OBVIOUS
<1> USE DEF IInv
<1>1. /\ version[k] < MaxVersion /\ version' = [version EXCEPT ![k] = @ + 1]
      /\ UNCHANGED <<universe, polling, permits, job, ticker, depth, arrived,
                     packets, tick, held, due>>
  BY DEF QuoteMoves, round, book
<1>2. version' \in [Keys -> Versions]
  <2>1. version[k] + 1 \in Versions
    BY <1>1, QuoteType, Bounds DEF Versions
  <2> QED BY <1>1, <2>1 DEF Base
<1>3. \A j \in Keys : version[j] \in Nat /\ version'[j] \in Nat /\ version[j] <= version'[j]
  <2> SUFFICES ASSUME NEW j \in Keys
               PROVE  version[j] \in Nat /\ version'[j] \in Nat /\ version[j] <= version'[j]
    OBVIOUS
  <2>1. version'[j] = IF j = k THEN version[k] + 1 ELSE version[j]
    BY <1>1 DEF Base
  <2> QED BY <2>1, QuoteType, Bounds
<1>4. Base'
  BY <1>1, <1>2 DEF Base
<1>5. Permitted' /\ Arrived' /\ Between'
  BY <1>1 DEF Permitted, Fetching, Arrived, Between, RoundOver
<1>6. \A j \in Keys, x \in Nat : x <= version[j] => x <= version'[j]
  BY <1>3
<1>7. \A c \in Versions : c \in Nat
  BY Bounds DEF Versions
<1>8. OneJob'
  <2>1. CASE packets = << >>
    BY <1>1, <2>1 DEF OneJob
  <2>2. CASE packets # << >>
    BY <1>1, <1>6, <1>7, <2>2 DEF OneJob
  <2> QED BY <2>1, <2>2
<1>9. Aged'
  <2>1. \A j \in Keys : tick[j] \in Nat
    BY QuoteType, Bounds
  <2> QED BY <1>1, <1>6, <1>7, <2>1 DEF Aged
<1> QED BY <1>4, <1>5, <1>8, <1>9

\* Entries and stop losses leave the feed alone.
LEMMA StepPosition ==
    ASSUME NEW s \in Symbols
    PROVE  IInv /\ (TrapBuys(s) \/ StopLossReached(s) \/ PriceRecovers(s)) => IInv'
<1> SUFFICES ASSUME IInv, TrapBuys(s) \/ StopLossReached(s) \/ PriceRecovers(s)
             PROVE  IInv'
  OBVIOUS
<1> USE DEF IInv, round
<1>1. UNCHANGED <<universe, polling, permits, job, ticker, depth, arrived, packets,
                  version, tick>>
  BY DEF TrapBuys, StopLossReached, PriceRecovers
<1>2. held' \subseteq Symbols /\ due' \subseteq held'
  BY DEF TrapBuys, StopLossReached, PriceRecovers, Base
<1>3. Base'
  BY <1>1, <1>2 DEF Base
<1> QED BY <1>1, <1>3 DEF Permitted, Fetching, Arrived, Between, RoundOver, OneJob, Aged

-----------------------------------------------------------------------------
(* What follows                                                            *)

LEMMA InvStep == IInv /\ [Next]_vars => IInv'
<1> SUFFICES ASSUME IInv, [Next]_vars
             PROVE  IInv'
  OBVIOUS
<1>1. CASE FeedNext
  BY <1>1, StepStartRound, StepAwaitJob, StepEndRound, StepHandleTicker,
     StepHandleBook, StepAcquire, StepComplete, StepFetch DEF FeedNext
<1>2. CASE \E k \in Keys : QuoteMoves(k)
  BY <1>2, StepQuoteMoves
<1>3. CASE \E s \in Symbols : TrapBuys(s) \/ StopLossReached(s) \/ PriceRecovers(s)
  BY <1>3, StepPosition
<1>4. CASE UNCHANGED vars
  BY <1>4 DEF vars, round, book, IInv, Base, Permitted, Fetching, Arrived, Between,
              RoundOver, OneJob, Aged
<1> QED BY <1>1, <1>2, <1>3, <1>4 DEF Next

LEMMA InvHolds == Init /\ [][Next]_vars => []IInv
BY InvInit, InvStep, PTL

\* Every variable keeps its type: permits, of which every job that fetches has
\* one, stay within the semaphore's, and no more than two packets wait
\* (feeds/exchange_polling_source.py:54-131).
THEOREM FeedTyped == FairSpec => []TypeOK
<1>1. IInv => TypeOK
  <2> SUFFICES ASSUME IInv
               PROVE  TypeOK
    OBVIOUS
  <2> USE DEF IInv
  <2>1. permits \in 0 .. MaxFetches
    <3>1. Cardinality(Fetching) \in Nat
      BY FS_CardinalityType DEF Permitted
    <3> HIDE DEF Fetching
    <3> QED BY <3>1, Bounds DEF Permitted, Base
  <2>2. Len(packets) <= 2
    <3>1. \/ packets = << >>
          \/ \E k \in Keys, d \in Answered : packets = << BookPacket(k, d) >>
          \/ \E k \in Keys, c \in Answered : packets = << TickerPacket(k, c) >>
          \/ \E k \in Keys, c, d \in Answered :
                packets = << TickerPacket(k, c), BookPacket(k, d) >>
      BY DEF OneJob
    <3>2. \A p, q : Len(<< >>) = 0 /\ Len(<< p >>) = 1 /\ Len(<< p, q >>) = 2
      OBVIOUS
    <3>3. packets = << >> => Len(packets) = 0
      BY <3>2
    <3>4. \A k \in Keys, d \in Answered :
             packets = << BookPacket(k, d) >> => Len(packets) = 1
      BY <3>2, Zenon
    <3>5. \A k \in Keys, c \in Answered :
             packets = << TickerPacket(k, c) >> => Len(packets) = 1
      BY <3>2, Zenon
    <3>6. \A k \in Keys, c, d \in Answered :
             packets = << TickerPacket(k, c), BookPacket(k, d) >> => Len(packets) = 2
      BY <3>2, Zenon
    <3>7. Len(packets) \in {0, 1, 2}
      BY <3>1, <3>3, <3>4, <3>5, <3>6
    <3>8. \A n \in {0, 1, 2} : n <= 2
      OBVIOUS
    <3> QED BY <3>7, <3>8, Zenon
  <2> QED BY <2>1, <2>2 DEF Base, TypeOK
<1> QED BY <1>1, InvHolds, PTL DEF FairSpec

\* A stored tick is never replaced by an older one of its exchange and symbol,
\* in whatever order jobs finish and fetches fail
\* (feeds/exchange_polling_source.py:69, feeds/market_state_store.py:23-41).
THEOREM TicksForward == FairSpec => TicksMoveForward
<1>1. IInv /\ [Next]_vars => [\A k \in Keys : tick'[k] >= tick[k]]_vars
  <2> SUFFICES ASSUME IInv, Next
               PROVE  \A k \in Keys : tick'[k] >= tick[k]
    OBVIOUS
  <2>1. CASE HandleTicker
    BY <2>1, StepHandleTicker
  <2>2. CASE ~HandleTicker
    <3>1. UNCHANGED tick
      BY <2>2 DEF Next, FeedNext, StartRound, AwaitJob, EndRound, HandleBook, Acquire,
                  Complete, FetchTicker, FetchBook, QuoteMoves, TrapBuys,
                  StopLossReached, PriceRecovers
    <3>2. \A k \in Keys : tick[k] >= tick[k]
      BY QuoteType DEF IInv
    <3> QED BY <3>1, <3>2
  <2> QED BY <2>1, <2>2
<1> QED BY <1>1, InvHolds, PTL DEF FairSpec, TicksMoveForward
=============================================================================
