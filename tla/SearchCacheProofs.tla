------------------------- MODULE SearchCacheProofs -------------------------
(* What SearchCache promises, for any requests, pages, TTL and delays, and what *)
(* HomeSearch does, for any words typed any number of times.                    *)
EXTENDS SearchCache, HomeSearch, TLAPS

\* The search of a request, some ticks ago.
Aged(request, age) == [SearchPublished(request) EXCEPT !.age = age]

Answers(request, bound) == {Aged(request, age) : age \in 0..bound}

Stages == {"idle", "get", "search", "set", "answered"}

SearchTypes ==
    /\ sstage \in [Searches -> Stages]
    /\ spent \in [Searches -> Nat]
    /\ left \in [Keys -> Nat]
    /\ found = [k \in Keys |-> found[k]]
    /\ asked = [s \in Searches |-> asked[s]]
    /\ answer = [s \in Searches |-> answer[s]]

\* An entry has the answer for every request of its key, and will be gone before
\* it is older than TTL and the delay of its fill.
EntriesRight ==
    \A k \in Keys :
        /\ found[k] # None => left[k] > 0
        /\ left[k] > 0 => left[k] <= TTL /\
             \A request \in Requests :
                 Key(request) = k => found[k] \in Answers(request, TTL + MaxDelay - left[k])

\* A request under way has been asked, and an answer that was found in the index is
\* as old as the request's delay at most.
RequestsRight ==
    \A s \in Searches :
        /\ spent[s] <= MaxDelay
        /\ sstage[s] # "idle" => asked[s] \in Requests
        /\ sstage[s] = "set" => answer[s] \in Answers(asked[s], spent[s])
        /\ sstage[s] = "answered" => answer[s] \in Answers(asked[s], TTL + MaxDelay - 1)

SearchInv == SearchTypes /\ EntriesRight /\ RequestsRight

LEMMA NumbersFact == TTL \in Nat /\ TTL > 0 /\ MaxDelay \in Nat
  BY SearchAssumption

\* Requests with one key are answered alike.
LEMMA SameKey ==
    ASSUME NEW r1, NEW r2, Key(r1) = Key(r2), NEW bound
    PROVE  Answers(r1, bound) = Answers(r2, bound)
<1>1. SearchPublished(r1) = SearchPublished(r2)
  BY DEF Key, SearchPublished
<1> QED
  BY <1>1 DEF Answers, Aged

LEMMA Older ==
    ASSUME NEW request, NEW a \in Nat, NEW b \in Nat, a <= b, NEW x \in Answers(request, a)
    PROVE  x \in Answers(request, b)
  BY DEF Answers

\* A tick later.
LEMMA Ticks ==
    ASSUME NEW request, NEW a \in Nat, NEW x \in Answers(request, a)
    PROVE  [x EXCEPT !.age = @ + 1] \in Answers(request, a + 1)
<1>1. PICK age \in 0..a : x = Aged(request, age)
  BY DEF Answers
<1>2. [x EXCEPT !.age = @ + 1] = Aged(request, age + 1)
  BY <1>1 DEF Aged, SearchPublished
<1>3. age + 1 \in 0..(a + 1)
  BY <1>1
<1> QED
  BY <1>2, <1>3 DEF Answers

LEMMA NewAnswer ==
    ASSUME NEW request
    PROVE  SearchPublished(request) \in Answers(request, 0)
<1>1. SearchPublished(request) = Aged(request, 0)
  BY DEF Aged, SearchPublished
<1> QED
  BY <1>1 DEF Answers

LEMMA SearchInvInit == SearchInit => SearchInv
<1> SUFFICES ASSUME SearchInit PROVE SearchInv
  OBVIOUS
<1> QED
  BY NumbersFact DEF SearchInit, SearchInv, SearchTypes, EntriesRight, RequestsRight, Stages

\* A step of one request that fills nothing.
LEMMA SearchGoesOn ==
    ASSUME SearchInv, NEW s \in Searches, NEW stage \in Stages, NEW request, NEW result,
           SearchTo(s, stage, request, result), UNCHANGED <<found, left>>,
           stage # "idle" => request \in Requests,
           stage = "set" => result \in Answers(request, 0),
           stage = "answered" => result \in Answers(request, TTL + MaxDelay - 1)
    PROVE  SearchInv'
<1>1. /\ sstage' = [sstage EXCEPT ![s] = stage] /\ spent' = [spent EXCEPT ![s] = 0]
      /\ asked' = [asked EXCEPT ![s] = request] /\ answer' = [answer EXCEPT ![s] = result]
  BY DEF SearchTo
<1>2. SearchTypes'
  BY <1>1 DEF SearchInv, SearchTypes
<1>3. /\ sstage'[s] = stage /\ spent'[s] = 0 /\ asked'[s] = request /\ answer'[s] = result
      /\ \A x \in Searches \ {s} : /\ sstage'[x] = sstage[x] /\ spent'[x] = spent[x]
                                   /\ asked'[x] = asked[x] /\ answer'[x] = answer[x]
  BY <1>1 DEF SearchInv, SearchTypes
<1>4. RequestsRight'
  BY <1>3, NumbersFact DEF SearchInv, RequestsRight
<1> QED
  BY <1>2, <1>4 DEF SearchInv, EntriesRight

LEMMA SearchInvTick == SearchInv /\ Tick => SearchInv'
<1> SUFFICES ASSUME SearchInv, Tick PROVE SearchInv'
  OBVIOUS
<1>1. /\ sstage \in [Searches -> Stages] /\ spent \in [Searches -> Nat] /\ left \in [Keys -> Nat]
      /\ UNCHANGED <<sstage, asked>>
  BY DEF SearchInv, SearchTypes, Tick
<1>2. /\ \A k \in Keys : left'[k] = IF left[k] > 0 THEN left[k] - 1 ELSE 0
      /\ \A k \in Keys :
           found'[k] = IF left[k] <= 1 THEN None ELSE [found[k] EXCEPT !.age = @ + 1]
      /\ \A s \in Searches : spent'[s] = IF sstage[s] = "idle" THEN 0 ELSE spent[s] + 1
      /\ \A s \in Searches :
           answer'[s] = IF sstage[s] = "set" THEN [answer[s] EXCEPT !.age = @ + 1] ELSE answer[s]
  BY DEF Tick
<1>3. SearchTypes'
  <2>1. left' \in [Keys -> Nat]
    BY <1>1, <1>2 DEF Tick
  <2>2. spent' \in [Searches -> Nat]
    BY <1>1, <1>2 DEF Tick
  <2> QED
    BY <1>1, <2>1, <2>2 DEF SearchInv, SearchTypes, Tick
<1>4. ASSUME NEW k \in Keys, left[k] > 1, left[k] <= TTL, NEW request \in Requests,
             found[k] \in Answers(request, TTL + MaxDelay - left[k])
      PROVE  found'[k] \in Answers(request, TTL + MaxDelay - left'[k])
  <2>1. left[k] \in Nat /\ left'[k] = left[k] - 1
    BY <1>1, <1>2, <1>4
  <2>2. TTL + MaxDelay - left[k] \in Nat
    BY <1>4, <2>1, NumbersFact
  <2>3. TTL + MaxDelay - left[k] + 1 = TTL + MaxDelay - left'[k]
    BY <2>1, NumbersFact
  <2>4. found'[k] = [found[k] EXCEPT !.age = @ + 1]
    BY <1>2, <1>4, <2>1
  <2> QED
    BY <1>4, <2>2, <2>3, <2>4, Ticks
<1>5. EntriesRight'
  <2> SUFFICES ASSUME NEW k \in Keys
               PROVE  /\ found'[k] # None => left'[k] > 0
                      /\ left'[k] > 0 => left'[k] <= TTL /\
                           \A request \in Requests : Key(request) = k =>
                             found'[k] \in Answers(request, TTL + MaxDelay - left'[k])
    BY DEF EntriesRight
  <2>1. left[k] \in Nat
    BY <1>1
  <2>2. found'[k] # None => left'[k] > 0
    <3>1. left[k] <= 1 => found'[k] = None
      BY <1>2
    <3>2. left'[k] = IF left[k] > 0 THEN left[k] - 1 ELSE 0
      BY <1>2
    <3> QED
      BY <2>1, <3>1, <3>2
  <2>3. left'[k] > 0 => left[k] > 1 /\ left'[k] < left[k]
    BY <1>2, <2>1
  <2>4. left[k] > 1 => left[k] <= TTL /\ \A request \in Requests :
                         Key(request) = k => found[k] \in Answers(request, TTL + MaxDelay - left[k])
    BY <2>1 DEF SearchInv, EntriesRight
  <2>5. left'[k] > 0 => left'[k] <= TTL
    BY <1>2, <2>1, <2>3, <2>4, NumbersFact
  <2> QED
    BY <1>4, <2>2, <2>3, <2>4, <2>5
<1>6. RequestsRight'
  <2> SUFFICES ASSUME NEW s \in Searches
               PROVE  /\ spent'[s] <= MaxDelay
                      /\ sstage[s] # "idle" => asked[s] \in Requests
                      /\ sstage[s] = "set" => answer'[s] \in Answers(asked[s], spent'[s])
                      /\ sstage[s] = "answered" =>
                           answer'[s] \in Answers(asked[s], TTL + MaxDelay - 1)
    BY <1>1 DEF RequestsRight
  <2>1. spent[s] \in Nat
    BY <1>1
  <2>2. spent'[s] <= MaxDelay
    BY <1>2, <2>1, NumbersFact DEF Tick
  <2>3. sstage[s] = "set" => answer'[s] \in Answers(asked[s], spent'[s])
    <3> SUFFICES ASSUME sstage[s] = "set"
                 PROVE  answer'[s] \in Answers(asked[s], spent'[s])
      OBVIOUS
    <3>1. answer[s] \in Answers(asked[s], spent[s])
      BY DEF SearchInv, RequestsRight
    <3>2. answer'[s] = [answer[s] EXCEPT !.age = @ + 1] /\ spent'[s] = spent[s] + 1
      BY <1>2
    <3> QED
      BY <2>1, <3>1, <3>2, Ticks
  <2> QED
    BY <1>2, <2>2, <2>3 DEF SearchInv, RequestsRight
<1> QED
  BY <1>3, <1>5, <1>6 DEF SearchInv

\* A fill is good for every request that will hit it.
LEMMA SearchInvSet ==
    ASSUME SearchInv, NEW s \in Searches, SearchSet(s)
    PROVE  SearchInv'
<1> DEFINE key == Key(asked[s])
<1>1. /\ asked[s] \in Requests /\ answer[s] \in Answers(asked[s], spent[s])
      /\ spent[s] \in Nat /\ spent[s] <= MaxDelay
      /\ SearchTo(s, "answered", asked[s], answer[s])
  BY DEF SearchSet, SearchInv, SearchTypes, RequestsRight
<1>2. answer[s] \in Answers(asked[s], MaxDelay) /\ answer[s] \in Answers(asked[s], TTL + MaxDelay - 1)
  BY <1>1, NumbersFact, Older
<1>3. CASE UNCHANGED <<found, left>>
  BY <1>1, <1>2, <1>3, SearchGoesOn DEF Stages
<1>4. CASE found' = [found EXCEPT ![key] = answer[s]] /\ left' = [left EXCEPT ![key] = TTL]
  <2>1. key \in Keys
    BY <1>1 DEF Keys
  <2>2. /\ found'[key] = answer[s] /\ left'[key] = TTL
        /\ \A k \in Keys \ {key} : found'[k] = found[k] /\ left'[k] = left[k]
    BY <1>4, <2>1 DEF SearchInv, SearchTypes
  <2>3. \A request \in Requests :
          Key(request) = key => found'[key] \in Answers(request, TTL + MaxDelay - left'[key])
    <3>1. TTL + MaxDelay - TTL = MaxDelay
      BY NumbersFact
    <3>2. \A request \in Requests : Key(request) = key => answer[s] \in Answers(request, MaxDelay)
      BY <1>2, SameKey
    <3> QED
      BY <2>2, <3>1, <3>2
  <2>4. EntriesRight'
    BY <2>2, <2>3, NumbersFact DEF SearchInv, EntriesRight
  <2>5. /\ sstage' = [sstage EXCEPT ![s] = "answered"] /\ spent' = [spent EXCEPT ![s] = 0]
        /\ asked' = [asked EXCEPT ![s] = asked[s]] /\ answer' = [answer EXCEPT ![s] = answer[s]]
    BY <1>1 DEF SearchTo
  <2>6. SearchTypes'
    BY <1>4, <2>1, <2>5, NumbersFact DEF SearchInv, SearchTypes, Stages
  <2>7. /\ sstage'[s] = "answered" /\ spent'[s] = 0 /\ asked'[s] = asked[s] /\ answer'[s] = answer[s]
        /\ \A x \in Searches \ {s} : /\ sstage'[x] = sstage[x] /\ spent'[x] = spent[x]
                                     /\ asked'[x] = asked[x] /\ answer'[x] = answer[x]
    BY <2>5 DEF SearchInv, SearchTypes
  <2>8. RequestsRight'
    BY <1>1, <1>2, <2>7, NumbersFact DEF SearchInv, RequestsRight
  <2> QED
    BY <2>4, <2>6, <2>8 DEF SearchInv
<1> QED
  BY <1>3, <1>4 DEF SearchSet

LEMMA SearchInvStep == SearchInv /\ [SearchNext]_searchVars => SearchInv'
<1> SUFFICES ASSUME SearchInv, [SearchNext]_searchVars PROVE SearchInv'
  OBVIOUS
<1>1. CASE Tick
  BY <1>1, SearchInvTick
<1>2. ASSUME NEW s \in Searches, NEW request \in Requests, Search(s, request) PROVE SearchInv'
  BY <1>2, SearchGoesOn DEF Search, Stages
<1>3. ASSUME NEW s \in Searches, SearchGet(s) PROVE SearchInv'
  <2> DEFINE key == Key(asked[s])
  <2>1. asked[s] \in Requests /\ key \in Keys
    BY <1>3 DEF SearchGet, SearchInv, RequestsRight, Keys
  <2>2. CASE SearchTo(s, "search", asked[s], None)
    BY <1>3, <2>1, <2>2, SearchGoesOn DEF SearchGet, Stages
  <2>3. CASE found[key] # None /\ SearchTo(s, "answered", asked[s], found[key])
    <3>1. /\ left[key] \in Nat /\ left[key] > 0 /\ left[key] <= TTL
          /\ found[key] \in Answers(asked[s], TTL + MaxDelay - left[key])
      BY <2>1, <2>3 DEF SearchInv, SearchTypes, EntriesRight
    <3>2. found[key] \in Answers(asked[s], TTL + MaxDelay - 1)
      <4>1. /\ TTL + MaxDelay - left[key] \in Nat /\ TTL + MaxDelay - 1 \in Nat
            /\ TTL + MaxDelay - left[key] <= TTL + MaxDelay - 1
        BY <3>1, NumbersFact
      <4> QED
        BY <3>1, <4>1, Older
    <3> QED
      BY <1>3, <2>1, <2>3, <3>2, SearchGoesOn DEF SearchGet, Stages
  <2> QED
    BY <1>3, <2>2, <2>3 DEF SearchGet
<1>4. ASSUME NEW s \in Searches, SearchIndex(s) PROVE SearchInv'
  <2>1. asked[s] \in Requests
    BY <1>4 DEF SearchIndex, SearchInv, RequestsRight
  <2>2. CASE SearchTo(s, "set", asked[s], SearchPublished(asked[s]))
    BY <1>4, <2>1, <2>2, NewAnswer, SearchGoesOn DEF SearchIndex, Stages
  <2>3. CASE SearchTo(s, "idle", None, None)
    BY <1>4, <2>3, SearchGoesOn DEF SearchIndex, Stages
  <2> QED
    BY <1>4, <2>2, <2>3 DEF SearchIndex
<1>5. ASSUME NEW s \in Searches, SearchReturns(s) PROVE SearchInv'
  BY <1>5, SearchGoesOn DEF SearchReturns, Stages
<1>6. CASE UNCHANGED searchVars
  BY <1>6 DEF searchVars, SearchInv, SearchTypes, EntriesRight, RequestsRight
<1> QED
  BY <1>1, <1>2, <1>3, <1>4, <1>5, <1>6, SearchInvSet DEF SearchNext

LEMMA SearchInvariant == SearchInit /\ [][SearchNext]_searchVars => []SearchInv
  BY SearchInvInit, SearchInvStep, PTL

\* Whatever else asked before it and however it wrote its query, a request gets the
\* answer to its own words, page and highlighting.
THEOREM OwnAnswer == SearchInit /\ [][SearchNext]_searchVars => []AnswersTheRequest
<1>1. ASSUME NEW request, NEW bound, NEW x \in Answers(request, bound)
      PROVE  [x EXCEPT !.age = 0] = SearchPublished(request)
  BY DEF Answers, Aged, SearchPublished
<1>2. SearchInv => AnswersTheRequest
  BY <1>1 DEF SearchInv, RequestsRight, AnswersTheRequest
<1> QED
  BY <1>2, SearchInvariant, PTL

\* No answer is as old as TTL and the longest delay of a fill, however often its
\* entry was hit.
THEOREM RecentAnswer == SearchInit /\ [][SearchNext]_searchVars => []AnswerIsRecent
<1>1. ASSUME NEW request, NEW x \in Answers(request, TTL + MaxDelay - 1)
      PROVE  x.age < TTL + MaxDelay
  BY NumbersFact DEF Answers, Aged, SearchPublished
<1>2. SearchInv => AnswerIsRecent
  BY <1>1 DEF SearchInv, RequestsRight, AnswerIsRecent
<1> QED
  BY <1>2, SearchInvariant, PTL

-----------------------------------------------------------------------------
(* The search box of the home page.                                        *)

\* The run whose answers count, and what it has brought so far: nothing while it is on
\* its way, but the total once it waits for the videos, and all or an error in the end.
LastRun ==
    /\ queryOf[searchSeq] = qTrim
    /\ qTrim = NoQuery =>
        /\ ~searchLoading /\ runStage[searchSeq] = "over"
        /\ searchErr = 0 /\ searchRows = 0 /\ searchTotal = 0
    /\ searchLoading =>
        /\ runStage[searchSeq] \in {"timer", "search", "videos"}
        /\ searchErr = 0
        /\ runStage[searchSeq] = "videos" => searchTotal = searchSeq
    /\ qTrim # NoQuery /\ ~searchLoading =>
        /\ runStage[searchSeq] = "over"
        /\ \/ searchErr = searchSeq /\ searchRows = 0 /\ searchTotal = 0
           \/ searchErr = 0 /\ searchRows = searchSeq /\ searchTotal = searchSeq

HomeInv == HomeTypeOK /\ LastRun

LEMMA HomeInvInit == HomeInit => HomeInv
<1> SUFFICES ASSUME HomeInit PROVE HomeInv
  OBVIOUS
<1>1. 1 \in Runs
  BY HomeAssumption DEF Runs
<1>2. HomeTypeOK
  BY <1>1 DEF HomeInit, HomeTypeOK
<1>3. LastRun
  BY <1>1 DEF HomeInit, LastRun
<1> QED
  BY <1>2, <1>3 DEF HomeInv

\* New words: a run of their own, and the one before it no longer counts.
LEMMA HomeInvTyped ==
    ASSUME HomeInv, NEW q \in Queries \cup {NoQuery}, SetQuery(q)
    PROVE  HomeInv'
<1>1. HomeTypeOK'
  BY DEF HomeInv, HomeTypeOK, SetQuery, Empty, Runs
<1>2. LastRun'
  BY DEF HomeInv, HomeTypeOK, LastRun, SetQuery, Empty, Runs
<1> QED
  BY <1>1, <1>2 DEF HomeInv

\* A step of a run leaves the words alone and is no timer's start.
LEMMA HomeRunTypes ==
    ASSUME HomeInv, NEW r \in Runs, RunStep(r)
    PROVE  HomeTypeOK'
<1>1. ASSUME NEW s \in {"search", "videos", "over"}, RunTo(r, s)
      PROVE  /\ runStage' \in [Runs -> {"new", "timer", "search", "videos", "over"}]
             /\ \A i \in Runs : runStage'[i] = "timer" => i = searchSeq
  BY <1>1 DEF HomeInv, HomeTypeOK, RunTo
<1>2. r \in Nat /\ 0 \in Nat
  BY DEF Runs
<1>3. CASE TimerFires(r)
  BY <1>1, <1>3 DEF TimerFires, HomeInv, HomeTypeOK, shownVars
<1>4. CASE SearchAnswers(r)
  BY <1>1, <1>2, <1>4 DEF SearchAnswers, Late, HomeInv, HomeTypeOK, shownVars
<1>5. CASE SearchFails(r)
  BY <1>1, <1>2, <1>5 DEF SearchFails, Late, Empty, HomeInv, HomeTypeOK, shownVars
<1>6. CASE VideosAnswer(r)
  BY <1>1, <1>2, <1>6 DEF VideosAnswer, Late, HomeInv, HomeTypeOK, shownVars
<1> QED
  BY <1>3, <1>4, <1>5, <1>6 DEF RunStep

\* A step of another run does not touch what the last one has brought.
LEMMA HomeOtherRun ==
    ASSUME HomeInv, NEW r \in Runs, RunStep(r), r # searchSeq
    PROVE  LastRun'
<1>1. /\ UNCHANGED <<qTrim, searchSeq, queryOf, shownVars>>
      /\ runStage'[searchSeq] = runStage[searchSeq]
  BY DEF RunStep, TimerFires, SearchAnswers, SearchFails, VideosAnswer, Late, RunTo,
         HomeInv, HomeTypeOK, shownVars
<1> QED
  BY <1>1 DEF HomeInv, LastRun, shownVars

LEMMA HomeOwnRun ==
    ASSUME HomeInv, RunStep(searchSeq)
    PROVE  LastRun'
<1>1. /\ searchSeq \in Runs /\ searchLoading /\ qTrim # NoQuery
      /\ searchErr = 0 /\ runStage[searchSeq] = "videos" => searchTotal = searchSeq
  BY DEF RunStep, TimerFires, SearchAnswers, SearchFails, VideosAnswer, HomeInv, HomeTypeOK,
         LastRun
<1>2. ASSUME NEW s, RunTo(searchSeq, s) PROVE runStage'[searchSeq] = s
  BY <1>1, <1>2 DEF RunTo, HomeInv, HomeTypeOK
<1>3. CASE TimerFires(searchSeq)
  BY <1>1, <1>2, <1>3 DEF TimerFires, HomeInv, LastRun, shownVars
<1>4. CASE SearchAnswers(searchSeq)
  BY <1>1, <1>2, <1>4 DEF SearchAnswers, Late, HomeInv, LastRun
<1>5. CASE SearchFails(searchSeq)
  BY <1>1, <1>2, <1>5 DEF SearchFails, Late, Empty, HomeInv, LastRun
<1>6. CASE VideosAnswer(searchSeq)
  BY <1>1, <1>2, <1>6 DEF VideosAnswer, Late, HomeInv, LastRun
<1> QED
  BY <1>3, <1>4, <1>5, <1>6 DEF RunStep

LEMMA HomeInvStep == HomeInv /\ [HomeNext]_homeVars => HomeInv'
<1> SUFFICES ASSUME HomeInv, [HomeNext]_homeVars PROVE HomeInv'
  OBVIOUS
<1>1. ASSUME NEW q \in Queries \cup {NoQuery}, SetQuery(q) PROVE HomeInv'
  BY <1>1, HomeInvTyped
<1>2. ASSUME NEW r \in Runs, RunStep(r) PROVE HomeInv'
  BY <1>2, HomeRunTypes, HomeOtherRun, HomeOwnRun DEF HomeInv
<1>3. CASE CatalogAnswers
  BY <1>3 DEF CatalogAnswers, HomeInv, HomeTypeOK, LastRun, shownVars
<1>4. CASE UNCHANGED homeVars
  BY <1>4 DEF homeVars, HomeInv, HomeTypeOK, LastRun, shownVars
<1> QED
  BY <1>1, <1>2, <1>3, <1>4 DEF HomeNext

LEMMA HomeInvariant == HomeSpec => []HomeInv
  BY HomeInvInit, HomeInvStep, PTL DEF HomeSpec

\* The types of the home page, and no timer but that of the last run.
THEOREM HomeTypeCorrect == HomeSpec => []HomeTypeOK
<1>1. HomeInv => HomeTypeOK
  BY DEF HomeInv
<1> QED
  BY <1>1, HomeInvariant, PTL

\* However the answers of the runs are ordered, the rows, the total and the error shown
\* are those of one run, that for the words in the box, or nothing.
THEOREM ResultsOfTheQuery == HomeSpec => []ResultsAreOfTheQuery
<1>1. HomeInv => ResultsAreOfTheQuery
  BY DEF HomeInv, LastRun, ResultsAreOfTheQuery
<1> QED
  BY <1>1, HomeInvariant, PTL
=============================================================================
