----------------------------- MODULE ServingMC -----------------------------
(* An instance for TLC of what serves the pages: the two caches the API keeps *)
(* in Redis, the home page's search box, the hub of pushes and the limits of a *)
(* connection.  They share no state, and the hub leaves open when the limits   *)
(* refuse, so one of them is at work at a time.                                *)
EXTENDS VideoCache, SearchCache, HomeSearch, WsHub, WsLimits, TLC

\* Words in two spellings, two pages that default and cap bring to one size,
\* and a query of blanks.
Request1 == [words |-> "cat", spelling |-> "plain", from |-> NotANumber, size |-> NotANumber,
             highlight |-> FALSE]

MCRequests ==
    {Request1,
     [Request1 EXCEPT !.spelling = "shout", !.from = -1, !.size = 0],
     [Request1 EXCEPT !.size = 4, !.from = 0],
     [Request1 EXCEPT !.from = 1, !.highlight = TRUE],
     [Request1 EXCEPT !.words = "none"]}

VARIABLE atWork    \* which of them

\* Of the hub's two initial states one will do for the others.
MCInit ==
    /\ atWork \in {"cache", "search", "box", "hub", "limits"}
    /\ CacheInit /\ SearchInit /\ HomeInit /\ Init /\ LimitsInit
    /\ atWork # "hub" => viaRedis

MCNext ==
    /\ \/ /\ atWork = "cache" /\ CacheNext
          /\ UNCHANGED <<searchVars, homeVars, vars, limitsVars>>
       \/ /\ atWork = "search" /\ SearchNext
          /\ UNCHANGED <<cacheVars, homeVars, vars, limitsVars>>
       \/ /\ atWork = "box" /\ HomeNext
          /\ UNCHANGED <<cacheVars, searchVars, vars, limitsVars>>
       \/ /\ atWork = "hub" /\ Next
          /\ UNCHANGED <<cacheVars, searchVars, homeVars, limitsVars>>
       \/ /\ atWork = "limits" /\ LimitsNext
          /\ UNCHANGED <<cacheVars, searchVars, homeVars, vars>>
    /\ UNCHANGED atWork

MCSpec == MCInit /\ [][MCNext]_<<atWork, cacheVars, searchVars, homeVars, vars, limitsVars>>

\* Sets of different machines have the same members, which keeps these few.
Interchangeable == Permutations(Readers) \cup Permutations(Patchers)
=============================================================================
