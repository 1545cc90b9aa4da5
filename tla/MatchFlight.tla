----------------------------- MODULE MatchFlight -----------------------------
(***************************************************************************)
(* How a Spotify track gets the YouTube address it is downloaded from:     *)
(* resolve_track_to_youtube (core/scraper.py) with its cache of matches    *)
(* (core/match_cache.py) and its table of flights, asked by the prefetcher *)
(* (core/match_prefetcher.py) and by the jobs of a batch                   *)
(* (core/download_orchestrator.py), which match, claim the video for their *)
(* recording, and match again when it is taken or gone.                    *)
(*                                                                         *)
(* A thread that misses the cache owns a flight or joins the one in the    *)
(* table; a row, the table and the claims are each one locked step, and    *)
(* everything else interleaves. Which candidates a search accepts is data: *)
(* Offers. What a search costs at the admission gate is DownloadAdmission. *)
(***************************************************************************)
EXTENDS Naturals

CONSTANTS
    Job,            \* the jobs of a batch
    Prefetch,       \* the tasks of the prefetcher
    Key,            \* the keys of the cache
    KeyOf,          \* the key of the track of each thread
    Same,           \* the pairs of jobs of one recording
    Url,            \* the addresses of videos
    Offers,         \* those a search may accept for a key
    Fallback,       \* a free-text search request, the last resort of a match
    Nothing,        \* no address
    Failed,         \* an exception
    Pending,        \* no answer yet
    RefreshLimit    \* _SPOTIFY_TARGET_REFRESH_LIMIT

Thread == Job \cup Prefetch

ASSUME ThreadsAssumption ==
    /\ KeyOf \in [Thread -> Key] /\ Job \cap Prefetch = {}
    /\ Same \subseteq Job \X Job
    /\ \A j1, j2 \in Job : /\ <<j1, j2>> \in Same => <<j2, j1>> \in Same
                           /\ KeyOf[j1] = KeyOf[j2] => <<j1, j2>> \in Same
ASSUME AnswersAssumption ==
    /\ Offers \in [Key -> SUBSET Url] /\ RefreshLimit \in Nat
    /\ {Fallback, Nothing, Failed, Pending} \cap Url = {}
    /\ Fallback # Nothing /\ Failed \notin {Fallback, Nothing}
    /\ Pending \notin {Fallback, Nothing, Failed}

VARIABLES
    cache,      \* the row of each key
    table,      \* _resolution_flights: the threads that own a flight in it
    pc,         \* where each thread is
    ask,        \* what it asked the resolver for
    on,         \* the owner of the flight it waits for (itself: none)
    answer,     \* what the resolver, or the flight, has answered it
    cancelled,  \* the threads told to stop
    url,        \* req.url of each job
    claim,      \* the video each job has claimed
    stage,      \* why it asks: "match", "distinct" or "stale"
    tries,      \* refreshes made for a video that is taken
    refreshed   \* jobs that have replaced an unavailable video

flightVars == <<cache, table, ask, on, answer>>
jobVars == <<url, claim, stage, tries, refreshed>>
vars == <<flightVars, pc, cancelled, jobVars>>

Answers == Url \cup {Fallback, Nothing, Failed}
Asks == [refresh : BOOLEAN, exclude : SUBSET (Url \cup {Fallback})]
Plain == [refresh |-> FALSE, exclude |-> {}]
Refresh(X) == [refresh |-> TRUE, exclude |-> X]

Places == {"queued", "lookup", "join", "search", "store", "publish", "unlink", "wait",
           "answered", "claim", "rematch", "download", "ok", "over"}

(* Every variable keeps its type. *)
TypeOK ==
    /\ cache \in [Key -> Url \cup {Nothing}]
    /\ table \subseteq Thread
    /\ pc \in [Thread -> Places]
    /\ ask \in [Thread -> Asks]
    /\ on \in [Thread -> Thread]
    /\ answer \in [Thread -> Answers \cup {Pending}]
    /\ cancelled \subseteq Thread
    /\ url \in [Job -> Url \cup {Fallback}]
    /\ claim \in [Job -> Url \cup {Nothing}]
    /\ stage \in [Job -> {"match", "distinct", "stale"}]
    /\ tries \in [Job -> 0 .. RefreshLimit]
    /\ refreshed \subseteq Job

(* A track is queued with the placeholder of a pending match or, if it was *)
(* matched when it was imported, with its address.                         *)
Init ==
    /\ cache \in {c \in [Key -> Url \cup {Nothing}] :
                    \A k \in Key : c[k] \in Offers[k] \cup {Nothing}}
    /\ table = {}
    /\ pc = [t \in Thread |-> "queued"]
    /\ ask = [t \in Thread |-> Plain]
    /\ on = [t \in Thread |-> t]
    /\ answer = [t \in Thread |-> Pending]
    /\ cancelled = {}
    /\ url \in {u \in [Job -> Url \cup {Fallback}] :
                  \A j \in Job : u[j] \in Offers[KeyOf[j]] \cup {Fallback}}
    /\ claim = [j \in Job |-> Nothing]
    /\ stage = [j \in Job |-> "match"]
    /\ tries = [j \in Job |-> 0]
    /\ refreshed = {}

At(t, q) == pc[t] = q
Goto(t, q) == pc' = [pc EXCEPT ![t] = q]
Row(k, u) == cache' = [cache EXCEPT ![k] = u]

----------------------------------------------------------------------------
(* resolve_track_to_youtube                                                *)

Ask(t, a) ==
    /\ Goto(t, "lookup")
    /\ ask' = [ask EXCEPT ![t] = a]
    /\ answer' = [answer EXCEPT ![t] = Pending]
    /\ UNCHANGED <<cache, table, on>>

Hit(t) == ~ask[t].refresh /\ cache[KeyOf[t]] \notin {Nothing} \cup ask[t].exclude

Lookup(t) ==
    /\ At(t, "lookup")
    /\ \/ /\ Hit(t)
          /\ Goto(t, "answered")
          /\ answer' = [answer EXCEPT ![t] = cache[KeyOf[t]]]
       \/ ~Hit(t) /\ Goto(t, "join") /\ UNCHANGED answer
    /\ UNCHANGED <<cache, table, ask, on, cancelled, jobVars>>

(* (mutant) what is excluded is not in the key *)
KeyAlone(t) == KeyOf[t]

FlightKey(t) == <<KeyOf[t], ask[t]>>

(* Under the lock of the table. A flight that has its result and is still  *)
(* in the table answers at once.                                           *)
Join(t) ==
    /\ At(t, "join")
    /\ \/ /\ \A o \in table : FlightKey(o) # FlightKey(t)
          /\ Goto(t, "search")
          /\ table' = table \cup {t}
          /\ UNCHANGED <<on, answer>>
       \/ \E o \in table :
            /\ FlightKey(o) = FlightKey(t)
            /\ Goto(t, "wait")
            /\ on' = [on EXCEPT ![t] = o]
            /\ answer' = [answer EXCEPT ![t] = IF At(o, "unlink") THEN answer[o] ELSE Pending]
            /\ UNCHANGED table
    /\ UNCHANGED <<cache, ask, cancelled, jobVars>>

(* What a search may come to: an accepted candidate, the last resort,      *)
(* nothing once its owner is cancelled, at the gate or between queries, or *)
(* an exception. The owner's cancel event is the only one it looks at.     *)
Found(t) ==
    (Offers[KeyOf[t]] \ ask[t].exclude) \cup {Fallback, Failed}
        \cup (IF t \in cancelled THEN {Nothing} ELSE {})

Search(t) ==
    /\ At(t, "search")
    /\ \E r \in Found(t) :
        /\ answer' = [answer EXCEPT ![t] = r]
        /\ Goto(t, IF r \in Url THEN "store" ELSE "publish")
    /\ UNCHANGED <<cache, table, ask, on, cancelled, jobVars>>

(* cache.put, which may fail in silence *)
Store(t) ==
    /\ At(t, "store")
    /\ Goto(t, "publish")
    /\ Row(KeyOf[t], answer[t]) \/ UNCHANGED cache
    /\ UNCHANGED <<table, ask, on, answer, cancelled, jobVars>>

Joined(t) == {w \in Thread : At(w, "wait") /\ on[w] = t /\ answer[w] = Pending}

(* (mutant) done is set only when the search has not raised *)
PublishResult(t) ==
    /\ At(t, "publish")
    /\ Goto(t, "unlink")
    /\ answer' = [w \in Thread |-> IF w \in Joined(t) /\ answer[t] # Failed
                                  THEN answer[t] ELSE answer[w]]
    /\ UNCHANGED <<cache, table, ask, on, cancelled, jobVars>>

(* flight.done.set(), with the result or the error in place *)
Publish(t) ==
    /\ At(t, "publish")
    /\ Goto(t, "unlink")
    /\ answer' = [w \in Thread |-> IF w \in Joined(t) THEN answer[t] ELSE answer[w]]
    /\ UNCHANGED <<cache, table, ask, on, cancelled, jobVars>>

(* (mutant) the flight stays in the table *)
KeepFlight(t) ==
    /\ At(t, "unlink")
    /\ Goto(t, "answered")
    /\ UNCHANGED <<flightVars, cancelled, jobVars>>

Unlink(t) ==
    /\ At(t, "unlink")
    /\ Goto(t, "answered")
    /\ table' = table \ {t}
    /\ UNCHANGED <<cache, ask, on, answer, cancelled, jobVars>>

(* The end of done.wait(), and the look at cancel_check between two waits; *)
(* the flight may land between the wait and the look.                      *)
Landed(t) ==
    /\ At(t, "wait") /\ answer[t] # Pending
    /\ Goto(t, "answered")
    /\ on' = [on EXCEPT ![t] = t]
    /\ UNCHANGED <<cache, table, ask, answer, cancelled, jobVars>>

StopWaiting(t) ==
    /\ At(t, "wait") /\ t \in cancelled
    /\ Goto(t, "answered")
    /\ on' = [on EXCEPT ![t] = t]
    /\ answer' = [answer EXCEPT ![t] = Nothing]
    /\ UNCHANGED <<cache, table, ask, cancelled, jobVars>>

Resolve(t) ==
    \/ Lookup(t) \/ Join(t) \/ Search(t) \/ Store(t) \/ Publish(t) \/ Unlink(t)
    \/ Landed(t) \/ StopWaiting(t)

(* The call is over, and what it was about is forgotten. *)
Done(t, q) ==
    /\ Goto(t, q)
    /\ ask' = [ask EXCEPT ![t] = Plain]
    /\ answer' = [answer EXCEPT ![t] = Pending]
    /\ UNCHANGED <<cache, table, on>>

(* (mutant) delete without comparing *)
InvalidateAny(k, u) == Row(k, Nothing)

(* invalidate_track_match: compare and delete *)
Invalidate(k, u) ==
    Row(k, IF cache[k] = u THEN Nothing ELSE cache[k])

InvalidateAndAsk(t, u, a) ==
    /\ Invalidate(KeyOf[t], u)
    /\ Goto(t, "lookup")
    /\ ask' = [ask EXCEPT ![t] = a]
    /\ answer' = [answer EXCEPT ![t] = Pending]
    /\ UNCHANGED <<table, on>>

----------------------------------------------------------------------------
(* The prefetcher's _resolve_one                                           *)

PrefetchOne(t) ==
    /\ At(t, "queued")
    /\ \/ t \in cancelled /\ Done(t, "over")
       \/ t \notin cancelled /\ Ask(t, Plain)
    /\ UNCHANGED <<cancelled, jobVars>>

Prefetched(t) ==
    /\ At(t, "answered")
    /\ Done(t, "over")
    /\ UNCHANGED <<cancelled, jobVars>>

----------------------------------------------------------------------------
(* A job                                                                   *)

Ends(j) == Done(j, "over") /\ UNCHANGED jobVars

(* _resolve_lazy_url, up to the call of the resolver *)
StartJob(j) ==
    /\ At(j, "queued")
    /\ \/ j \in cancelled /\ Ends(j)
       \/ /\ j \notin cancelled
          /\ \/ url[j] = Fallback /\ Ask(j, Plain)
             \/ url[j] # Fallback /\ Done(j, "claim")
          /\ UNCHANGED jobVars
    /\ UNCHANGED cancelled

Repaired(r) == IF r = Nothing THEN Fallback ELSE r

(* The rest of it: an empty answer is repaired with the search request.    *)
Matched(j) ==
    /\ At(j, "answered") /\ stage[j] = "match"
    /\ \/ (j \in cancelled \/ answer[j] = Failed) /\ Ends(j)
       \/ /\ j \notin cancelled /\ answer[j] # Failed
          /\ url' = [url EXCEPT ![j] = Repaired(answer[j])]
          /\ Done(j, "claim")
          /\ UNCHANGED <<claim, stage, tries, refreshed>>
    /\ UNCHANGED cancelled

(* _claim_spotify_target: whether no other recording has claimed video u *)
Free(j, u) == claim[j] = u \/ \A i \in Job \ {j} : claim[i] = u => <<i, j>> \in Same

(* (mutant) a job that has a claim keeps it *)
ClaimOnce(j, u) == claim' = [claim EXCEPT ![j] = IF @ = Nothing THEN u ELSE @]

Claim(j, u) == claim' = [claim EXCEPT ![j] = u]

(* _ensure_distinct_spotify_target, up to the first rematch. A job whose   *)
(* first attempt has not begun looks at its cancel event before.           *)
ClaimTarget(j) ==
    /\ At(j, "claim")
    /\ \/ j \in cancelled /\ stage[j] = "match" /\ Ends(j)
       \/ /\ j \notin cancelled \/ stage[j] = "stale"
          /\ \/ /\ url[j] = Fallback
                /\ Done(j, "download")
                /\ UNCHANGED claim
             \/ /\ url[j] \in Url /\ Free(j, url[j])
                /\ Done(j, "download")
                /\ Claim(j, url[j])
             \/ /\ url[j] \in Url /\ ~Free(j, url[j])
                /\ Goto(j, "rematch")
                /\ ask' = [ask EXCEPT ![j] = Refresh({url[j]})]
                /\ answer' = [answer EXCEPT ![j] = url[j]]
                /\ UNCHANGED <<cache, table, on, claim>>
          /\ UNCHANGED <<url, stage, tries, refreshed>>
    /\ UNCHANGED cancelled

(* One round of its loop: answer holds the candidate that is taken.        *)
Rematch(j) ==
    /\ At(j, "rematch")
    /\ \/ (j \in cancelled \/ tries[j] = RefreshLimit) /\ Ends(j)
       \/ /\ j \notin cancelled /\ tries[j] < RefreshLimit
          /\ InvalidateAndAsk(j, answer[j], ask[j])
          /\ tries' = [tries EXCEPT ![j] = @ + 1]
          /\ stage' = [stage EXCEPT ![j] = "distinct"]
          /\ UNCHANGED <<url, claim, refreshed>>
    /\ UNCHANGED cancelled

Rematched(j) ==
    /\ At(j, "answered") /\ stage[j] = "distinct"
    /\ \/ (j \in cancelled \/ answer[j] \notin Url) /\ Ends(j)
       \/ /\ j \notin cancelled /\ answer[j] \in Url
          /\ \/ /\ Free(j, answer[j])
                /\ Done(j, "download")
                /\ Claim(j, answer[j])
                /\ url' = [url EXCEPT ![j] = answer[j]]
                /\ tries' = [tries EXCEPT ![j] = 0]
             \/ /\ ~Free(j, answer[j])
                /\ Goto(j, "rematch")
                /\ ask' = [ask EXCEPT ![j] = Refresh(@.exclude \cup {answer[j]})]
                /\ UNCHANGED <<cache, table, on, answer, url, claim, tries>>
          /\ UNCHANGED <<stage, refreshed>>
    /\ UNCHANGED cancelled

(* _attempt_body: the download ends well, fails or is stopped, or finds    *)
(* the video of a matched track unavailable and asks once for another.     *)
Download(j) ==
    /\ At(j, "download")
    /\ \/ j \notin cancelled /\ Done(j, "ok") /\ UNCHANGED jobVars
       \/ Ends(j)
       \/ /\ j \notin refreshed
          /\ InvalidateAndAsk(j, url[j], Refresh({url[j]}))
          /\ refreshed' = refreshed \cup {j}
          /\ stage' = [stage EXCEPT ![j] = "stale"]
          /\ UNCHANGED <<url, claim, tries>>
    /\ UNCHANGED cancelled

(* The answer to that. After an exception the attempt may be made again.   *)
Replaced(j) ==
    /\ At(j, "answered") /\ stage[j] = "stale"
    /\ \/ answer[j] \in {Failed, Nothing} /\ Ends(j)
       \/ answer[j] = Failed /\ Done(j, "download") /\ UNCHANGED jobVars
       \/ /\ answer[j] \notin {Failed, Nothing}
          /\ url' = [url EXCEPT ![j] = answer[j]]
          /\ Done(j, "claim")
          /\ UNCHANGED <<claim, stage, tries, refreshed>>
    /\ UNCHANGED cancelled

JobStep(j) ==
    \/ StartJob(j) \/ Matched(j) \/ ClaimTarget(j) \/ Rematch(j) \/ Rematched(j)
    \/ Download(j) \/ Replaced(j)

----------------------------------------------------------------------------
(* Cancel of one job; MatchPrefetcher.cancel, one event for all its tasks. *)
CancelJob(j) ==
    /\ j \notin cancelled /\ pc[j] \notin {"ok", "over"}
    /\ cancelled' = cancelled \cup {j}
    /\ UNCHANGED <<flightVars, pc, jobVars>>

CancelPrefetch ==
    /\ \E t \in Prefetch \ cancelled : pc[t] # "over"
    /\ cancelled' = cancelled \cup Prefetch
    /\ UNCHANGED <<flightVars, pc, jobVars>>

Step(t) ==
    \/ Resolve(t)
    \/ t \in Prefetch /\ (PrefetchOne(t) \/ Prefetched(t))
    \/ t \in Job /\ JobStep(t)

Next ==
    \/ \E t \in Thread : Step(t)
    \/ \E j \in Job : CancelJob(j)
    \/ CancelPrefetch

Spec == Init /\ [][Next]_vars
(* Every thread that can take a step takes one. *)
FairSpec == Spec /\ \A t \in Thread : WF_vars(Step(t))

----------------------------------------------------------------------------
(* Properties                                                              *)

(* The answer a thread gets, from the cache, its own search or a flight    *)
(* it joined, is one its own question allows: an address offered for its   *)
(* key that it did not exclude, or one of the three that are no address.   *)
AnswersFit ==
    \A t \in Thread :
        At(t, "answered") =>
            answer[t] \in (Offers[KeyOf[t]] \ ask[t].exclude) \cup {Fallback, Nothing, Failed}

(* One search at a time for a question, and nobody waits for a flight that *)
(* is gone: the flights of the table are those of the threads between the  *)
(* join and the unlink, no two for the same question, and a thread that    *)
(* waits without an answer waits for an owner that has still to publish    *)
(* the answer to that question.                                            *)
FlightsOwned ==
    /\ table = {t \in Thread : pc[t] \in {"search", "store", "publish", "unlink"}}
    /\ \A t, u \in table : FlightKey(t) = FlightKey(u) => t = u
    /\ \A w \in Thread :
        At(w, "wait") /\ answer[w] = Pending =>
            on[w] \in table /\ ~At(on[w], "unlink") /\ FlightKey(on[w]) = FlightKey(w)

(* Two jobs that are not one recording never download the same video,      *)
(* whatever the cache and the searches offer them.                         *)
Takes(j) == pc[j] \in {"download", "ok"} /\ url[j] \in Url
DistinctTargets ==
    \A i, j \in Job :
        i # j /\ Takes(i) /\ Takes(j) /\ url[i] = url[j] => <<i, j>> \in Same

(* A late failure does not delete a newer match: a row goes only when a    *)
(* job of its key asks for another address and excludes the one it held.   *)
RowsGoByProof ==
    [][\A k \in Key :
        cache[k] # Nothing /\ cache'[k] = Nothing =>
            \E j \in Job : /\ KeyOf[j] = k /\ pc'[j] = "lookup"
                           /\ cache[k] \in ask'[j].exclude]_vars

(* Every job and every prefetch comes to its end: no thread is left        *)
(* waiting for a flight, whoever is cancelled or fails.                    *)
EveryMatchEnds == \A t \in Thread : <>(pc[t] \in {"ok", "over"})

(* What the prefetcher says of itself: racing the download worker on the   *)
(* same track only wastes a lookup, both store the same result. Then no    *)
(* job that is not told to stop is answered with nothing.                  *)
RaceOnlyWastes ==
    \A j \in Job : At(j, "answered") /\ j \notin cancelled => answer[j] # Nothing
=============================================================================
