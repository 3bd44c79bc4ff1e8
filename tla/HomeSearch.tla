----------------------------- MODULE HomeSearch -----------------------------
(***************************************************************************)
(* The search box of HomeView.  Every change of its words is a run of the  *)
(* effect: it waits for the debounce timer, asks /videos/search, then all  *)
(* the videos of the answer, and shows them.  Answers come in any order;   *)
(* searchSeq, the number of the last run, decides which of them count.     *)
(*                                                                         *)
(* What an answer says is left out: rows, total and error are the number   *)
(* of the run they come from.  React commits the states that are set with  *)
(* no await between them at once, and runs the effect of an input event    *)
(* before it paints, so each of these is one step.                         *)
(***************************************************************************)
EXTENDS Naturals

CONSTANTS
    Queries,   \* the words in the box, trimmed
    NoQuery,   \* none
    MaxRuns    \* runs of the effect; a bound of the model

ASSUME HomeAssumption == NoQuery \notin Queries /\ MaxRuns \in Nat \ {0}

Runs == 1..MaxRuns

VARIABLES
    qTrim,          \* the words in the box
    searchSeq,      \* the number of the last run
    runStage,       \* each run: "new", "timer", "search", "videos", "over"
    queryOf,        \* the words it was made for
    searchRows, searchTotal, searchErr,   \* the run they come from, 0 for none
    searchLoading,
    catalog         \* the list shown without words: "loading", "loaded", "failed"

shownVars == <<searchRows, searchTotal, searchErr, searchLoading>>
homeVars  == <<qTrim, searchSeq, runStage, queryOf, shownVars, catalog>>

\* The debounce: a run that is not the last one asks nothing any more, unless it
\* had asked before.
HomeTypeOK ==
    /\ qTrim \in Queries \cup {NoQuery}
    /\ searchSeq \in Runs
    /\ runStage \in [Runs -> {"new", "timer", "search", "videos", "over"}]
    /\ queryOf \in [Runs -> Queries \cup {NoQuery}]
    /\ searchRows \in Nat /\ searchTotal \in Nat /\ searchErr \in Nat
    /\ searchLoading \in BOOLEAN
    /\ catalog \in {"loading", "loaded", "failed"}
    /\ \A r \in Runs : runStage[r] = "timer" => r = searchSeq

\* The effect has run once, for no words.
HomeInit ==
    /\ qTrim = NoQuery
    /\ searchSeq = 1
    /\ runStage = [r \in Runs |-> IF r = 1 THEN "over" ELSE "new"]
    /\ queryOf = [r \in Runs |-> NoQuery]
    /\ searchRows = 0 /\ searchTotal = 0 /\ searchErr = 0
    /\ searchLoading = FALSE
    /\ catalog = "loading"

Empty == searchRows' = 0 /\ searchTotal' = 0

-----------------------------------------------------------------------------
\* setQuery, and the effect: the timer of the run before is cleared.
SetQuery(q) ==
    LET runId == searchSeq + 1 IN
    /\ q # qTrim /\ runId \in Runs
    /\ qTrim' = q
    /\ searchSeq' = runId
    /\ queryOf' = [queryOf EXCEPT ![runId] = q]
    /\ runStage' = [r \in Runs |->
            IF r = runId THEN (IF q = NoQuery THEN "over" ELSE "timer")
            ELSE IF runStage[r] = "timer" THEN "over" ELSE runStage[r]]
    /\ searchErr' = 0
    /\ searchLoading' = (q # NoQuery)
    /\ IF q = NoQuery THEN Empty ELSE UNCHANGED <<searchRows, searchTotal>>
    /\ UNCHANGED catalog

RunTo(r, s) == runStage' = [runStage EXCEPT ![r] = s]

TimerFires(r) ==
    /\ runStage[r] = "timer"
    /\ RunTo(r, "search")
    /\ UNCHANGED <<qTrim, searchSeq, queryOf, shownVars, catalog>>

\* A late answer ends its run and changes nothing.
Late(r) == r # searchSeq /\ RunTo(r, "over") /\ UNCHANGED shownVars

SearchAnswers(r) ==
    /\ runStage[r] = "search"
    /\ \/ Late(r)
       \/ /\ r = searchSeq /\ RunTo(r, "videos")
          /\ searchTotal' = r /\ UNCHANGED <<searchRows, searchErr, searchLoading>>
    /\ UNCHANGED <<qTrim, searchSeq, queryOf, catalog>>

SearchFails(r) ==
    /\ runStage[r] = "search"
    /\ \/ Late(r)
       \/ r = searchSeq /\ RunTo(r, "over") /\ Empty /\ searchErr' = r /\ searchLoading' = FALSE
    /\ UNCHANGED <<qTrim, searchSeq, queryOf, catalog>>

\* Mutant: the number is looked at only once.
VideosAnswerUnchecked(r) ==
    /\ runStage[r] = "videos"
    /\ RunTo(r, "over") /\ searchRows' = r
    /\ searchLoading' = (searchLoading /\ r # searchSeq)
    /\ UNCHANGED <<qTrim, searchSeq, queryOf, searchTotal, searchErr, catalog>>

\* All the videos have come, or a placeholder for those that could not be got.
VideosAnswer(r) ==
    /\ runStage[r] = "videos"
    /\ \/ Late(r)
       \/ /\ r = searchSeq /\ RunTo(r, "over")
          /\ searchRows' = r /\ searchLoading' = FALSE /\ UNCHANGED <<searchTotal, searchErr>>
    /\ UNCHANGED <<qTrim, searchSeq, queryOf, catalog>>

CatalogAnswers ==
    /\ catalog = "loading"
    /\ catalog' \in {"loaded", "failed"}
    /\ UNCHANGED <<qTrim, searchSeq, runStage, queryOf, shownVars>>

-----------------------------------------------------------------------------
RunStep(r) == TimerFires(r) \/ SearchAnswers(r) \/ SearchFails(r) \/ VideosAnswer(r)

HomeNext ==
    \/ \E q \in Queries \cup {NoQuery} : SetQuery(q)
    \/ \E r \in Runs : RunStep(r)
    \/ CatalogAnswers

HomeSpec == HomeInit /\ [][HomeNext]_homeVars

-----------------------------------------------------------------------------
\* Once the skeleton is gone, the rows and the total, or the error, are those of the
\* last run, and that is the one for the words in the box, whichever answers came
\* before, between and after; with no words in the box there is nothing.  The skeleton
\* is there as long as that run is under way, and no longer.
ResultsAreOfTheQuery ==
    /\ queryOf[searchSeq] = qTrim
    /\ searchLoading <=> runStage[searchSeq] # "over"
    /\ qTrim # NoQuery /\ ~searchLoading =>
        \/ searchErr = searchSeq /\ searchRows = 0 /\ searchTotal = 0
        \/ searchErr = 0 /\ searchRows = searchSeq /\ searchTotal = searchSeq
    /\ qTrim = NoQuery =>
        ~searchLoading /\ searchErr = 0 /\ searchRows = 0 /\ searchTotal = 0
=============================================================================
