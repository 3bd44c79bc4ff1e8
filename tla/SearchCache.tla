---------------------------- MODULE SearchCache ----------------------------
(***************************************************************************)
(* GET /videos/search: how a request is read, the Redis entries videosearch *)
(* of CachedPublishedSearch, which nothing deletes, and the search of the   *)
(* index behind them.  Entries are written by this code alone, so they can  *)
(* always be decoded.                                                       *)
(*                                                                          *)
(* The words of a query are what Elasticsearch's analyzer makes of it; its  *)
(* spelling is the case and the blanks, of which the analyzer keeps nothing. *)
(***************************************************************************)
EXTENDS Integers

CONSTANTS
    Searches,    \* requests that may be served at the same time
    Requests,    \* what they may ask
    Words,       \* the words of a query
    NoWords,     \* those of a query of blanks
    Spellings,   \* how they may be written
    NotANumber,  \* a from or size that is absent or no number
    DefaultSize, MaxSize,
    TTL,         \* of an entry, in ticks
    MaxDelay,    \* ticks a request may take between two of its steps; a bound of the model
    None         \* no entry, no answer, no request

Numbers == Int \cup {NotANumber}

ASSUME SearchAssumption ==
    /\ Requests \subseteq [words : Words \cup {NoWords}, spelling : Spellings,
                           from : Numbers, size : Numbers, highlight : BOOLEAN]
    /\ NotANumber \notin Int /\ NoWords \notin Words
    /\ DefaultSize \in Nat \ {0} /\ MaxSize \in Nat \ {0} /\ DefaultSize <= MaxSize
    /\ TTL \in Nat \ {0} /\ MaxDelay \in Nat

VARIABLES
    found,     \* the entries of Redis, by key: an answer, or None
    left,      \* the ticks each of them has left
    sstage,    \* each request: "idle", "get", "search", "set", "answered"
    asked,     \* what it asks
    answer,    \* its answer: the search it is of, and the ticks since then
    spent      \* the ticks it has spent at this step

searchVars == <<found, left, sstage, asked, answer, spent>>

-----------------------------------------------------------------------------
(* What a request asks for.                                                *)

\* Anything that is no number in range is replaced by the default or the cap.
From(request) ==
    IF request.from # NotANumber /\ request.from >= 0 THEN request.from ELSE 0

Size(request) ==
    LET size == IF request.size # NotANumber /\ request.size > 0
                THEN request.size ELSE DefaultSize
    IN  IF size > MaxSize THEN MaxSize ELSE size

\* Mutant: the size asked for is left out.
KeyWithoutSize(request) == <<request.words, From(request), 0, request.highlight>>

\* Normalized, the query has lost its spelling.
Key(request) == <<request.words, From(request), Size(request), request.highlight>>

Keys == {Key(request) : request \in Requests}

\* SearchPublishedVideos of the client: the search as it is sent to the index.
SearchPublished(request) ==
    [words |-> request.words, from |-> From(request), size |-> Size(request),
     highlight |-> request.highlight, age |-> 0]

-----------------------------------------------------------------------------
SearchInit ==
    /\ found = [k \in Keys |-> None]
    /\ left = [k \in Keys |-> 0]
    /\ sstage = [s \in Searches |-> "idle"]
    /\ asked = [s \in Searches |-> None]
    /\ answer = [s \in Searches |-> None]
    /\ spent = [s \in Searches |-> 0]

SearchTo(s, stage, request, result) ==
    /\ sstage' = [sstage EXCEPT ![s] = stage]
    /\ asked' = [asked EXCEPT ![s] = request]
    /\ answer' = [answer EXCEPT ![s] = result]
    /\ spent' = [spent EXCEPT ![s] = 0]

\* SearchVideos; a query of blanks is a 400.
Search(s, request) ==
    /\ sstage[s] = "idle"
    /\ request.words # NoWords
    /\ SearchTo(s, "get", request, None)
    /\ UNCHANGED <<found, left>>

\* Mutant: a hit keeps the entry alive.
SearchGetTouches(s) ==
    LET key == Key(asked[s]) IN
    /\ sstage[s] = "get"
    /\ IF found[key] # None
       THEN SearchTo(s, "answered", asked[s], found[key]) /\ left' = [left EXCEPT ![key] = TTL]
       ELSE SearchTo(s, "search", asked[s], None) /\ UNCHANGED left
    /\ UNCHANGED found

\* GET; an error is like no entry.
SearchGet(s) ==
    LET key == Key(asked[s]) IN
    /\ sstage[s] = "get"
    /\ \/ found[key] # None /\ SearchTo(s, "answered", asked[s], found[key])
       \/ SearchTo(s, "search", asked[s], None)
    /\ UNCHANGED <<found, left>>

\* The search of the index, whose error is a 502.
SearchIndex(s) ==
    /\ sstage[s] = "search"
    /\ \/ SearchTo(s, "set", asked[s], SearchPublished(asked[s]))
       \/ SearchTo(s, "idle", None, None)
    /\ UNCHANGED <<found, left>>

\* SET with the TTL; the error is ignored.
SearchSet(s) ==
    LET key == Key(asked[s]) IN
    /\ sstage[s] = "set"
    /\ \/ found' = [found EXCEPT ![key] = answer[s]] /\ left' = [left EXCEPT ![key] = TTL]
       \/ UNCHANGED <<found, left>>
    /\ SearchTo(s, "answered", asked[s], answer[s])

SearchReturns(s) ==
    /\ sstage[s] = "answered"
    /\ SearchTo(s, "idle", None, None)
    /\ UNCHANGED <<found, left>>

\* Time passes for the entries and for the requests under way.
Tick ==
    /\ \A s \in Searches : sstage[s] # "idle" => spent[s] < MaxDelay
    /\ left' = [k \in Keys |-> IF left[k] > 0 THEN left[k] - 1 ELSE 0]
    /\ found' = [k \in Keys |->
                    IF left[k] <= 1 THEN None ELSE [found[k] EXCEPT !.age = @ + 1]]
    /\ spent' = [s \in Searches |-> IF sstage[s] = "idle" THEN 0 ELSE spent[s] + 1]
    /\ answer' = [s \in Searches |->
                    IF sstage[s] = "set" THEN [answer[s] EXCEPT !.age = @ + 1] ELSE answer[s]]
    /\ UNCHANGED <<sstage, asked>>

SearchNext ==
    \/ Tick
    \/ \E s \in Searches :
        \/ \E request \in Requests : Search(s, request)
        \/ SearchGet(s) \/ SearchIndex(s) \/ SearchSet(s) \/ SearchReturns(s)

-----------------------------------------------------------------------------
\* A request is answered with the search it asks for, the page and the words it
\* names, though its entry was filled by a request that was written otherwise.
AnswersTheRequest ==
    \A s \in Searches :
        sstage[s] = "answered" => [answer[s] EXCEPT !.age = 0] = SearchPublished(asked[s])

\* However often an entry is hit, and whichever of several fills came last, no
\* answer is as old as the TTL and the delay of the fill together.
AnswerIsRecent ==
    \A s \in Searches : sstage[s] = "answered" => answer[s].age < TTL + MaxDelay
=============================================================================
