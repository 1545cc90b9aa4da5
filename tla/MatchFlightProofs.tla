-------------------------- MODULE MatchFlightProofs --------------------------
(***************************************************************************)
(* What holds of MatchFlight for every set of jobs, tracks and videos.     *)
(***************************************************************************)
EXTENDS MatchFlight, TLAPS

(* What a thread may be answered. *)
Fits(t) == (Offers[KeyOf[t]] \ ask[t].exclude) \cup {Fallback, Nothing, Failed}

(* A row holds an address offered for its key. *)
RowsOffered == \A k \in Key : cache[k] \in Offers[k] \cup {Nothing}

(* The result of a flight, and what it delivers, fits the question. *)
ResultsFit ==
    \A t \in Thread :
        /\ pc[t] \in {"store", "publish", "unlink", "answered"} => answer[t] \in Fits(t)
        /\ pc[t] = "store" => answer[t] \in Url
        /\ pc[t] = "wait" /\ answer[t] # Pending => answer[t] \in Fits(t)
        /\ pc[t] = "rematch" => answer[t] \in ask[t].exclude

(* Two claims of one video are claims of one recording. *)
ClaimsApart ==
    \A i, j \in Job : i # j /\ claim[i] = claim[j] /\ claim[i] # Nothing => <<i, j>> \in Same

(* A job downloads what it has claimed, also again after its question for  *)
(* another video has raised.                                               *)
Asking == {"lookup", "join", "search", "store", "publish", "unlink", "wait", "answered"}
InFlight == {"search", "store", "publish", "unlink"}
HoldsClaim(j) == pc[j] \in {"download", "ok"} \/ (stage[j] = "stale" /\ pc[j] \in Asking)
ClaimHeld == \A j \in Job : HoldsClaim(j) /\ url[j] \in Url => claim[j] = url[j]

Inv == TypeOK /\ RowsOffered /\ FlightsOwned /\ ResultsFit /\ ClaimsApart /\ ClaimHeld

(* The questions that are asked have the type of questions. *)
LEMMA AskTypes ==
    /\ Plain \in Asks
    /\ \A u \in Url \cup {Fallback} : Refresh({u}) \in Asks
    /\ \A a \in Asks, u \in Url : Refresh(a.exclude \cup {u}) \in Asks
BY DEF Plain, Refresh, Asks

(* A step of a thread outside the flights, which leaves the table alone,   *)
(* disturbs no flight.                                                     *)
LEMMA CallStep ==
    ASSUME Inv, NEW t \in Thread, pc[t] \notin InFlight \cup {"wait"},
           NEW q, q \notin InFlight \cup {"wait"}, pc' = [pc EXCEPT ![t] = q],
           NEW a, ask' = [ask EXCEPT ![t] = a],
           NEW r, answer' = [answer EXCEPT ![t] = r],
           table' = table, on' = on
    PROVE  FlightsOwned'
BY DEF Inv, TypeOK, FlightsOwned, FlightKey, InFlight, At

(* A thread that has its answer has one of the answers. *)
LEMMA AnsweredType ==
    ASSUME Inv, NEW t \in Thread, pc[t] = "answered"
    PROVE  answer[t] \in Answers
<1>1. answer[t] \in Fits(t)
  BY DEF Inv, ResultsFit
<1>2. Offers[KeyOf[t]] \subseteq Url
  BY ThreadsAssumption, AnswersAssumption
<1> QED
  BY <1>1, <1>2 DEF Fits, Answers

(* Every step keeps the types. *)
LEMMA TypeStep == Inv /\ [Next]_vars => TypeOK'
<1> SUFFICES ASSUME Inv, [Next]_vars PROVE TypeOK'
  OBVIOUS
<1>1. ASSUME NEW t \in Thread, Lookup(t) PROVE TypeOK'
  BY <1>1, AskTypes, ThreadsAssumption, AnswersAssumption DEF Lookup, Hit, Answers, Places, TypeOK, Inv, At, Goto, flightVars, jobVars, Thread
<1>2. ASSUME NEW t \in Thread, Join(t) PROVE TypeOK'
  BY <1>2, AskTypes, ThreadsAssumption, AnswersAssumption DEF Join, FlightKey, Answers, Places, TypeOK, Inv, At, Goto, flightVars, jobVars, Thread
<1>3. ASSUME NEW t \in Thread, Search(t) PROVE TypeOK'
  BY <1>3, AskTypes, ThreadsAssumption, AnswersAssumption DEF Search, Found, Answers, Places, TypeOK, Inv, At, Goto, flightVars, jobVars, Thread
<1>4. ASSUME NEW t \in Thread, Store(t) PROVE TypeOK'
  BY <1>4, AskTypes, ThreadsAssumption, AnswersAssumption DEF Store, Row, ResultsFit, Fits, Answers, Places, TypeOK, Inv, At, Goto, flightVars, jobVars, Thread
<1>5. ASSUME NEW t \in Thread, Publish(t) PROVE TypeOK'
  BY <1>5, AskTypes, ThreadsAssumption, AnswersAssumption DEF Publish, Joined, Answers, Places, TypeOK, Inv, At, Goto, flightVars, jobVars, Thread
<1>6. ASSUME NEW t \in Thread, Unlink(t) PROVE TypeOK'
  BY <1>6, AskTypes, ThreadsAssumption, AnswersAssumption DEF Unlink, Answers, Places, TypeOK, Inv, At, Goto, flightVars, jobVars, Thread
<1>7. ASSUME NEW t \in Thread, Landed(t) PROVE TypeOK'
  BY <1>7, AskTypes, ThreadsAssumption, AnswersAssumption DEF Landed, Answers, Places, TypeOK, Inv, At, Goto, flightVars, jobVars, Thread
<1>8. ASSUME NEW t \in Thread, StopWaiting(t) PROVE TypeOK'
  BY <1>8, AskTypes, ThreadsAssumption, AnswersAssumption DEF StopWaiting, Answers, Places, TypeOK, Inv, At, Goto, flightVars, jobVars, Thread
<1>9. ASSUME NEW t \in Prefetch, PrefetchOne(t) PROVE TypeOK'
  BY <1>9, AskTypes, ThreadsAssumption, AnswersAssumption DEF PrefetchOne, Ask, Done, Answers, Places, TypeOK, Inv, At, Goto, flightVars, jobVars, Thread
<1>10. ASSUME NEW t \in Prefetch, Prefetched(t) PROVE TypeOK'
  BY <1>10, AskTypes, ThreadsAssumption, AnswersAssumption DEF Prefetched, Done, Answers, Places, TypeOK, Inv, At, Goto, flightVars, jobVars, Thread
<1>11. ASSUME NEW j \in Job, StartJob(j) PROVE TypeOK'
  BY <1>11, AskTypes, ThreadsAssumption, AnswersAssumption DEF StartJob, Ends, Ask, Done, Answers, Places, TypeOK, Inv, At, Goto, flightVars, jobVars, Thread
<1>12. ASSUME NEW j \in Job, Matched(j) PROVE TypeOK'
  <2>1. j \in Thread /\ answer[j] \in Answers
    BY <1>12, AnsweredType DEF Matched, At, Thread
  <2>2. cache' = cache /\ table' = table /\ on' = on /\ cancelled' = cancelled
    BY <1>12 DEF Matched, Ends, Done
  <2>3. pc' \in [Thread -> Places] /\ ask' \in [Thread -> Asks]
        /\ answer' \in [Thread -> Answers \cup {Pending}]
    BY <1>12, <2>1, AskTypes DEF Matched, Ends, Done, Goto, Places, TypeOK, Inv
  <2>4. url' \in [Job -> Url \cup {Fallback}]
    BY <1>12, <2>1, AnswersAssumption DEF Matched, Repaired, Ends, Done, jobVars, Answers, Places, TypeOK, Inv
  <2>5. <<claim, stage, tries, refreshed>>' = <<claim, stage, tries, refreshed>>
    BY <1>12 DEF Matched, Ends, Done, jobVars
  <2> QED
    BY <2>2, <2>3, <2>4, <2>5 DEF Places, TypeOK, Inv
<1>13. ASSUME NEW j \in Job, ClaimTarget(j) PROVE TypeOK'
  BY <1>13, AskTypes, ThreadsAssumption, AnswersAssumption DEF ClaimTarget, Ends, Done, Claim, Free, Answers, Places, TypeOK, Inv, At, Goto, flightVars, jobVars, Thread
<1>14. ASSUME NEW j \in Job, Rematch(j) PROVE TypeOK'
  BY <1>14, AskTypes, ThreadsAssumption, AnswersAssumption DEF Rematch, Ends, Done, InvalidateAndAsk, Invalidate, Row, Answers, Places, TypeOK, Inv, At, Goto, flightVars, jobVars, Thread
<1>15. ASSUME NEW j \in Job, Rematched(j) PROVE TypeOK'
  <2>1. CASE Ends(j)
    BY <1>15, <2>1, AskTypes, ThreadsAssumption DEF Rematched, Ends, Done, Answers, Places, TypeOK, Inv, At, Goto, flightVars, jobVars, Thread
  <2>2. CASE ~Ends(j)
    <3>1. j \in Thread /\ answer[j] \in Url /\ ask[j] \in Asks
      BY <1>15, <2>2 DEF Rematched, Places, TypeOK, Inv, Thread
    <3>2. Refresh(ask[j].exclude \cup {answer[j]}) \in Asks
      BY <3>1, AskTypes
    <3>3. cache' = cache /\ table' = table /\ on' = on /\ cancelled' = cancelled
          /\ stage' = stage /\ refreshed' = refreshed
      BY <1>15, <2>2 DEF Rematched, Done
    <3>4. pc' \in [Thread -> Places] /\ ask' \in [Thread -> Asks]
          /\ answer' \in [Thread -> Answers \cup {Pending}]
      BY <1>15, <2>2, <3>1, <3>2, AskTypes DEF Rematched, Done, Goto, Places, TypeOK, Inv
    <3>5. url' \in [Job -> Url \cup {Fallback}] /\ claim' \in [Job -> Url \cup {Nothing}]
          /\ tries' \in [Job -> 0 .. RefreshLimit]
      BY <1>15, <2>2, <3>1, AnswersAssumption DEF Rematched, Claim, TypeOK, Inv
    <3> QED
      BY <3>3, <3>4, <3>5 DEF TypeOK, Inv
  <2> QED
    BY <2>1, <2>2
<1>16. ASSUME NEW j \in Job, Download(j) PROVE TypeOK'
  BY <1>16, AskTypes, ThreadsAssumption, AnswersAssumption DEF Download, Ends, Done, InvalidateAndAsk, Invalidate, Row, Answers, Places, TypeOK, Inv, At, Goto, flightVars, jobVars, Thread
<1>17. ASSUME NEW j \in Job, Replaced(j) PROVE TypeOK'
  <2>1. j \in Thread /\ answer[j] \in Answers
    BY <1>17, AnsweredType DEF Replaced, At, Thread
  <2>2. cache' = cache /\ table' = table /\ on' = on /\ cancelled' = cancelled
    BY <1>17 DEF Replaced, Ends, Done
  <2>3. pc' \in [Thread -> Places] /\ ask' \in [Thread -> Asks]
        /\ answer' \in [Thread -> Answers \cup {Pending}]
    BY <1>17, <2>1, AskTypes DEF Replaced, Ends, Done, Goto, Places, TypeOK, Inv
  <2>4. url' \in [Job -> Url \cup {Fallback}]
    BY <1>17, <2>1, AnswersAssumption DEF Replaced, Ends, Done, jobVars, Answers, Places, TypeOK, Inv
  <2>5. <<claim, stage, tries, refreshed>>' = <<claim, stage, tries, refreshed>>
    BY <1>17 DEF Replaced, Ends, Done, jobVars
  <2> QED
    BY <2>2, <2>3, <2>4, <2>5 DEF Places, TypeOK, Inv
<1>18. ASSUME NEW j \in Job, CancelJob(j) PROVE TypeOK'
  BY <1>18, AskTypes, ThreadsAssumption, AnswersAssumption DEF CancelJob, Answers, Places, TypeOK, Inv, At, Goto, flightVars, jobVars, Thread
<1>19. CASE CancelPrefetch
  BY <1>19, AskTypes, ThreadsAssumption, AnswersAssumption DEF CancelPrefetch, Answers, Places, TypeOK, Inv, At, Goto, flightVars, jobVars, Thread
<1>20. CASE UNCHANGED vars
  BY <1>20, AskTypes, ThreadsAssumption, AnswersAssumption DEF vars, Answers, Places, TypeOK, Inv, At, Goto, flightVars, jobVars, Thread
<1> QED
  BY <1>1, <1>2, <1>3, <1>4, <1>5, <1>6, <1>7, <1>8, <1>9, <1>10, <1>11, <1>12, <1>13, <1>14, <1>15, <1>16, <1>17, <1>18, <1>19, <1>20 DEF Next, Step, Resolve, JobStep

(* Every step leaves only offered answers in the cache. *)
LEMMA RowsStep == Inv /\ [Next]_vars => RowsOffered'
<1> SUFFICES ASSUME Inv, [Next]_vars PROVE RowsOffered'
  OBVIOUS
<1>1. ASSUME NEW t \in Thread, Lookup(t) PROVE RowsOffered'
  BY <1>1, ThreadsAssumption, AnswersAssumption DEF Lookup, Hit, RowsOffered, ResultsFit, Fits, TypeOK, Inv, At, Goto, flightVars, jobVars, Thread
<1>2. ASSUME NEW t \in Thread, Join(t) PROVE RowsOffered'
  BY <1>2, ThreadsAssumption, AnswersAssumption DEF Join, FlightKey, RowsOffered, ResultsFit, Fits, TypeOK, Inv, At, Goto, flightVars, jobVars, Thread
<1>3. ASSUME NEW t \in Thread, Search(t) PROVE RowsOffered'
  BY <1>3, ThreadsAssumption, AnswersAssumption DEF Search, Found, RowsOffered, ResultsFit, Fits, TypeOK, Inv, At, Goto, flightVars, jobVars, Thread
<1>4. ASSUME NEW t \in Thread, Store(t) PROVE RowsOffered'
  BY <1>4, ThreadsAssumption, AnswersAssumption DEF Store, Row, RowsOffered, ResultsFit, Fits, TypeOK, Inv, At, Goto, flightVars, jobVars, Thread
<1>5. ASSUME NEW t \in Thread, Publish(t) PROVE RowsOffered'
  BY <1>5, ThreadsAssumption, AnswersAssumption DEF Publish, Joined, RowsOffered, ResultsFit, Fits, TypeOK, Inv, At, Goto, flightVars, jobVars, Thread
<1>6. ASSUME NEW t \in Thread, Unlink(t) PROVE RowsOffered'
  BY <1>6, ThreadsAssumption, AnswersAssumption DEF Unlink, RowsOffered, ResultsFit, Fits, TypeOK, Inv, At, Goto, flightVars, jobVars, Thread
<1>7. ASSUME NEW t \in Thread, Landed(t) PROVE RowsOffered'
  BY <1>7, ThreadsAssumption, AnswersAssumption DEF Landed, RowsOffered, ResultsFit, Fits, TypeOK, Inv, At, Goto, flightVars, jobVars, Thread
<1>8. ASSUME NEW t \in Thread, StopWaiting(t) PROVE RowsOffered'
  BY <1>8, ThreadsAssumption, AnswersAssumption DEF StopWaiting, RowsOffered, ResultsFit, Fits, TypeOK, Inv, At, Goto, flightVars, jobVars, Thread
<1>9. ASSUME NEW t \in Prefetch, PrefetchOne(t) PROVE RowsOffered'
  BY <1>9, ThreadsAssumption, AnswersAssumption DEF PrefetchOne, Ask, Done, RowsOffered, ResultsFit, Fits, TypeOK, Inv, At, Goto, flightVars, jobVars, Thread
<1>10. ASSUME NEW t \in Prefetch, Prefetched(t) PROVE RowsOffered'
  BY <1>10, ThreadsAssumption, AnswersAssumption DEF Prefetched, Done, RowsOffered, ResultsFit, Fits, TypeOK, Inv, At, Goto, flightVars, jobVars, Thread
<1>11. ASSUME NEW j \in Job, StartJob(j) PROVE RowsOffered'
  BY <1>11, ThreadsAssumption, AnswersAssumption DEF StartJob, Ends, Ask, Done, RowsOffered, ResultsFit, Fits, TypeOK, Inv, At, Goto, flightVars, jobVars, Thread
<1>12. ASSUME NEW j \in Job, Matched(j) PROVE RowsOffered'
  BY <1>12, ThreadsAssumption, AnswersAssumption DEF Matched, Ends, Done, Repaired, RowsOffered, ResultsFit, Fits, TypeOK, Inv, At, Goto, flightVars, jobVars, Thread
<1>13. ASSUME NEW j \in Job, ClaimTarget(j) PROVE RowsOffered'
  BY <1>13, ThreadsAssumption, AnswersAssumption DEF ClaimTarget, Ends, Done, Claim, Free, RowsOffered, ResultsFit, Fits, TypeOK, Inv, At, Goto, flightVars, jobVars, Thread
<1>14. ASSUME NEW j \in Job, Rematch(j) PROVE RowsOffered'
  BY <1>14, ThreadsAssumption, AnswersAssumption DEF Rematch, Ends, Done, InvalidateAndAsk, Invalidate, Row, RowsOffered, ResultsFit, Fits, TypeOK, Inv, At, Goto, flightVars, jobVars, Thread
<1>15. ASSUME NEW j \in Job, Rematched(j) PROVE RowsOffered'
  BY <1>15, ThreadsAssumption, AnswersAssumption DEF Rematched, Ends, Done, Claim, Free, RowsOffered, ResultsFit, Fits, TypeOK, Inv, At, Goto, flightVars, jobVars, Thread
<1>16. ASSUME NEW j \in Job, Download(j) PROVE RowsOffered'
  BY <1>16, ThreadsAssumption, AnswersAssumption DEF Download, Ends, Done, InvalidateAndAsk, Invalidate, Row, RowsOffered, ResultsFit, Fits, TypeOK, Inv, At, Goto, flightVars, jobVars, Thread
<1>17. ASSUME NEW j \in Job, Replaced(j) PROVE RowsOffered'
  BY <1>17, ThreadsAssumption, AnswersAssumption DEF Replaced, Ends, Done, RowsOffered, ResultsFit, Fits, TypeOK, Inv, At, Goto, flightVars, jobVars, Thread
<1>18. ASSUME NEW j \in Job, CancelJob(j) PROVE RowsOffered'
  BY <1>18, ThreadsAssumption, AnswersAssumption DEF CancelJob, RowsOffered, ResultsFit, Fits, TypeOK, Inv, At, Goto, flightVars, jobVars, Thread
<1>19. CASE CancelPrefetch
  BY <1>19, ThreadsAssumption, AnswersAssumption DEF CancelPrefetch, RowsOffered, ResultsFit, Fits, TypeOK, Inv, At, Goto, flightVars, jobVars, Thread
<1>20. CASE UNCHANGED vars
  BY <1>20, ThreadsAssumption, AnswersAssumption DEF vars, RowsOffered, ResultsFit, Fits, TypeOK, Inv, At, Goto, flightVars, jobVars, Thread
<1> QED
  BY <1>1, <1>2, <1>3, <1>4, <1>5, <1>6, <1>7, <1>8, <1>9, <1>10, <1>11, <1>12, <1>13, <1>14, <1>15, <1>16, <1>17, <1>18, <1>19, <1>20 DEF Next, Step, Resolve, JobStep

(* Every step leaves each flight with its owner, and each waiter with its flight. *)
LEMMA OwnedStep == Inv /\ [Next]_vars => FlightsOwned'
<1> SUFFICES ASSUME Inv, [Next]_vars PROVE FlightsOwned'
  OBVIOUS
<1>1. ASSUME NEW t \in Thread, Lookup(t) PROVE FlightsOwned'
  BY <1>1, ThreadsAssumption, AnswersAssumption DEF Lookup, Hit, FlightsOwned, ResultsFit, Fits, FlightKey, TypeOK, Inv, At, Goto, flightVars, jobVars, Thread
<1>2. ASSUME NEW t \in Thread, Join(t) PROVE FlightsOwned'
  BY <1>2, ThreadsAssumption, AnswersAssumption DEF Join, FlightKey, FlightsOwned, ResultsFit, Fits, FlightKey, TypeOK, Inv, At, Goto, flightVars, jobVars, Thread
<1>3. ASSUME NEW t \in Thread, Search(t) PROVE FlightsOwned'
  BY <1>3, ThreadsAssumption, AnswersAssumption DEF Search, Found, FlightsOwned, ResultsFit, Fits, FlightKey, TypeOK, Inv, At, Goto, flightVars, jobVars, Thread
<1>4. ASSUME NEW t \in Thread, Store(t) PROVE FlightsOwned'
  BY <1>4, ThreadsAssumption, AnswersAssumption DEF Store, Row, FlightsOwned, ResultsFit, Fits, FlightKey, TypeOK, Inv, At, Goto, flightVars, jobVars, Thread
<1>5. ASSUME NEW t \in Thread, Publish(t) PROVE FlightsOwned'
  BY <1>5, ThreadsAssumption, AnswersAssumption DEF Publish, Joined, FlightsOwned, ResultsFit, Fits, FlightKey, TypeOK, Inv, At, Goto, flightVars, jobVars, Thread
<1>6. ASSUME NEW t \in Thread, Unlink(t) PROVE FlightsOwned'
  BY <1>6, ThreadsAssumption, AnswersAssumption DEF Unlink, FlightsOwned, ResultsFit, Fits, FlightKey, TypeOK, Inv, At, Goto, flightVars, jobVars, Thread
<1>7. ASSUME NEW t \in Thread, Landed(t) PROVE FlightsOwned'
  BY <1>7, ThreadsAssumption, AnswersAssumption DEF Landed, FlightsOwned, ResultsFit, Fits, FlightKey, TypeOK, Inv, At, Goto, flightVars, jobVars, Thread
<1>8. ASSUME NEW t \in Thread, StopWaiting(t) PROVE FlightsOwned'
  BY <1>8, ThreadsAssumption, AnswersAssumption DEF StopWaiting, FlightsOwned, ResultsFit, Fits, FlightKey, TypeOK, Inv, At, Goto, flightVars, jobVars, Thread
<1>9. ASSUME NEW t \in Prefetch, PrefetchOne(t) PROVE FlightsOwned'
  <2>1. t \in Thread /\ pc[t] \notin InFlight \cup {"wait"}
    BY <1>9 DEF PrefetchOne, At, InFlight, Thread
  <2>2. \E q \in {"lookup", "over", "ok", "claim", "rematch", "download"} : pc' = [pc EXCEPT ![t] = q]
    BY <1>9 DEF PrefetchOne, Ask, Done, Goto
  <2>3. (\E a : ask' = [ask EXCEPT ![t] = a]) /\ (\E r : answer' = [answer EXCEPT ![t] = r])
        /\ table' = table /\ on' = on
    BY <1>9, <2>1 DEF PrefetchOne, Ask, Done, TypeOK, Inv
  <2> QED
    BY <2>1, <2>2, <2>3, CallStep DEF InFlight
<1>10. ASSUME NEW t \in Prefetch, Prefetched(t) PROVE FlightsOwned'
  BY <1>10, ThreadsAssumption, AnswersAssumption DEF Prefetched, Done, FlightsOwned, ResultsFit, Fits, FlightKey, TypeOK, Inv, At, Goto, flightVars, jobVars, Thread
<1>11. ASSUME NEW j \in Job, StartJob(j) PROVE FlightsOwned'
  <2>1. j \in Thread /\ pc[j] \notin InFlight \cup {"wait"}
    BY <1>11 DEF StartJob, At, InFlight, Thread
  <2>2. \E q \in {"lookup", "over", "ok", "claim", "rematch", "download"} : pc' = [pc EXCEPT ![j] = q]
    BY <1>11 DEF StartJob, Ends, Ask, Done, Goto
  <2>3. (\E a : ask' = [ask EXCEPT ![j] = a]) /\ (\E r : answer' = [answer EXCEPT ![j] = r])
        /\ table' = table /\ on' = on
    BY <1>11, <2>1 DEF StartJob, Ends, Ask, Done, TypeOK, Inv
  <2> QED
    BY <2>1, <2>2, <2>3, CallStep DEF InFlight
<1>12. ASSUME NEW j \in Job, Matched(j) PROVE FlightsOwned'
  <2>1. j \in Thread /\ pc[j] \notin InFlight \cup {"wait"}
    BY <1>12 DEF Matched, At, InFlight, Thread
  <2>2. \E q \in {"lookup", "over", "ok", "claim", "rematch", "download"} : pc' = [pc EXCEPT ![j] = q]
    BY <1>12 DEF Matched, Ends, Done, Goto
  <2>3. (\E a : ask' = [ask EXCEPT ![j] = a]) /\ (\E r : answer' = [answer EXCEPT ![j] = r])
        /\ table' = table /\ on' = on
    BY <1>12, <2>1 DEF Matched, Ends, Done, TypeOK, Inv
  <2> QED
    BY <2>1, <2>2, <2>3, CallStep DEF InFlight
<1>13. ASSUME NEW j \in Job, ClaimTarget(j) PROVE FlightsOwned'
  <2>1. j \in Thread /\ pc[j] \notin InFlight \cup {"wait"}
    BY <1>13 DEF ClaimTarget, At, InFlight, Thread
  <2>2. \E q \in {"lookup", "over", "ok", "claim", "rematch", "download"} : pc' = [pc EXCEPT ![j] = q]
    BY <1>13 DEF ClaimTarget, Ends, Done, Goto
  <2>3. (\E a : ask' = [ask EXCEPT ![j] = a]) /\ (\E r : answer' = [answer EXCEPT ![j] = r])
        /\ table' = table /\ on' = on
    BY <1>13, <2>1 DEF ClaimTarget, Ends, Done, TypeOK, Inv
  <2> QED
    BY <2>1, <2>2, <2>3, CallStep DEF InFlight
<1>14. ASSUME NEW j \in Job, Rematch(j) PROVE FlightsOwned'
  <2>1. j \in Thread /\ pc[j] \notin InFlight \cup {"wait"}
    BY <1>14 DEF Rematch, At, InFlight, Thread
  <2>2. \E q \in {"lookup", "over", "ok", "claim", "rematch", "download"} : pc' = [pc EXCEPT ![j] = q]
    BY <1>14 DEF Rematch, Ends, Done, InvalidateAndAsk, Goto
  <2>3. (\E a : ask' = [ask EXCEPT ![j] = a]) /\ (\E r : answer' = [answer EXCEPT ![j] = r])
        /\ table' = table /\ on' = on
    BY <1>14, <2>1 DEF Rematch, Ends, Done, InvalidateAndAsk, TypeOK, Inv
  <2> QED
    BY <2>1, <2>2, <2>3, CallStep DEF InFlight
<1>15. ASSUME NEW j \in Job, Rematched(j) PROVE FlightsOwned'
  <2>1. j \in Thread /\ pc[j] \notin InFlight \cup {"wait"}
    BY <1>15 DEF Rematched, At, InFlight, Thread
  <2>2. \E q \in {"lookup", "over", "ok", "claim", "rematch", "download"} : pc' = [pc EXCEPT ![j] = q]
    BY <1>15 DEF Rematched, Ends, Done, Goto
  <2>3. (\E a : ask' = [ask EXCEPT ![j] = a]) /\ (\E r : answer' = [answer EXCEPT ![j] = r])
        /\ table' = table /\ on' = on
    BY <1>15, <2>1 DEF Rematched, Ends, Done, TypeOK, Inv
  <2> QED
    BY <2>1, <2>2, <2>3, CallStep DEF InFlight
<1>16. ASSUME NEW j \in Job, Download(j) PROVE FlightsOwned'
  <2>1. j \in Thread /\ pc[j] \notin InFlight \cup {"wait"}
    BY <1>16 DEF Download, At, InFlight, Thread
  <2>2. \E q \in {"lookup", "over", "ok", "claim", "rematch", "download"} : pc' = [pc EXCEPT ![j] = q]
    BY <1>16 DEF Download, Ends, Done, InvalidateAndAsk, Goto
  <2>3. (\E a : ask' = [ask EXCEPT ![j] = a]) /\ (\E r : answer' = [answer EXCEPT ![j] = r])
        /\ table' = table /\ on' = on
    BY <1>16, <2>1 DEF Download, Ends, Done, InvalidateAndAsk, TypeOK, Inv
  <2> QED
    BY <2>1, <2>2, <2>3, CallStep DEF InFlight
<1>17. ASSUME NEW j \in Job, Replaced(j) PROVE FlightsOwned'
  <2>1. j \in Thread /\ pc[j] \notin InFlight \cup {"wait"}
    BY <1>17 DEF Replaced, At, InFlight, Thread
  <2>2. \E q \in {"lookup", "over", "ok", "claim", "rematch", "download"} : pc' = [pc EXCEPT ![j] = q]
    BY <1>17 DEF Replaced, Ends, Done, Goto
  <2>3. (\E a : ask' = [ask EXCEPT ![j] = a]) /\ (\E r : answer' = [answer EXCEPT ![j] = r])
        /\ table' = table /\ on' = on
    BY <1>17, <2>1 DEF Replaced, Ends, Done, TypeOK, Inv
  <2> QED
    BY <2>1, <2>2, <2>3, CallStep DEF InFlight
<1>18. ASSUME NEW j \in Job, CancelJob(j) PROVE FlightsOwned'
  BY <1>18, ThreadsAssumption, AnswersAssumption DEF CancelJob, FlightsOwned, ResultsFit, Fits, FlightKey, TypeOK, Inv, At, Goto, flightVars, jobVars, Thread
<1>19. CASE CancelPrefetch
  BY <1>19, ThreadsAssumption, AnswersAssumption DEF CancelPrefetch, FlightsOwned, ResultsFit, Fits, FlightKey, TypeOK, Inv, At, Goto, flightVars, jobVars, Thread
<1>20. CASE UNCHANGED vars
  BY <1>20, ThreadsAssumption, AnswersAssumption DEF vars, FlightsOwned, ResultsFit, Fits, FlightKey, TypeOK, Inv, At, Goto, flightVars, jobVars, Thread
<1> QED
  BY <1>1, <1>2, <1>3, <1>4, <1>5, <1>6, <1>7, <1>8, <1>9, <1>10, <1>11, <1>12, <1>13, <1>14, <1>15, <1>16, <1>17, <1>18, <1>19, <1>20 DEF Next, Step, Resolve, JobStep

(* Every step leaves answers that fit their questions. *)
LEMMA ResultsStep == Inv /\ [Next]_vars => ResultsFit'
<1> SUFFICES ASSUME Inv, [Next]_vars PROVE ResultsFit'
  OBVIOUS
<1>1. ASSUME NEW t \in Thread, Lookup(t) PROVE ResultsFit'
  BY <1>1, ThreadsAssumption, AnswersAssumption DEF Lookup, Hit, ResultsFit, RowsOffered, FlightsOwned, FlightKey, Fits, Plain, Refresh, TypeOK, Inv, At, Goto, flightVars, jobVars, Thread
<1>2. ASSUME NEW t \in Thread, Join(t) PROVE ResultsFit'
  BY <1>2, ThreadsAssumption, AnswersAssumption DEF Join, FlightKey, ResultsFit, RowsOffered, FlightsOwned, FlightKey, Fits, Plain, Refresh, TypeOK, Inv, At, Goto, flightVars, jobVars, Thread
<1>3. ASSUME NEW t \in Thread, Search(t) PROVE ResultsFit'
  BY <1>3, ThreadsAssumption, AnswersAssumption DEF Search, Found, ResultsFit, RowsOffered, FlightsOwned, FlightKey, Fits, Plain, Refresh, TypeOK, Inv, At, Goto, flightVars, jobVars, Thread
<1>4. ASSUME NEW t \in Thread, Store(t) PROVE ResultsFit'
  BY <1>4, ThreadsAssumption, AnswersAssumption DEF Store, Row, ResultsFit, RowsOffered, FlightsOwned, FlightKey, Fits, Plain, Refresh, TypeOK, Inv, At, Goto, flightVars, jobVars, Thread
<1>5. ASSUME NEW t \in Thread, Publish(t) PROVE ResultsFit'
  BY <1>5, ThreadsAssumption, AnswersAssumption DEF Publish, Joined, ResultsFit, RowsOffered, FlightsOwned, FlightKey, Fits, Plain, Refresh, TypeOK, Inv, At, Goto, flightVars, jobVars, Thread
<1>6. ASSUME NEW t \in Thread, Unlink(t) PROVE ResultsFit'
  BY <1>6, ThreadsAssumption, AnswersAssumption DEF Unlink, ResultsFit, RowsOffered, FlightsOwned, FlightKey, Fits, Plain, Refresh, TypeOK, Inv, At, Goto, flightVars, jobVars, Thread
<1>7. ASSUME NEW t \in Thread, Landed(t) PROVE ResultsFit'
  BY <1>7, ThreadsAssumption, AnswersAssumption DEF Landed, ResultsFit, RowsOffered, FlightsOwned, FlightKey, Fits, Plain, Refresh, TypeOK, Inv, At, Goto, flightVars, jobVars, Thread
<1>8. ASSUME NEW t \in Thread, StopWaiting(t) PROVE ResultsFit'
  BY <1>8, ThreadsAssumption, AnswersAssumption DEF StopWaiting, ResultsFit, RowsOffered, FlightsOwned, FlightKey, Fits, Plain, Refresh, TypeOK, Inv, At, Goto, flightVars, jobVars, Thread
<1>9. ASSUME NEW t \in Prefetch, PrefetchOne(t) PROVE ResultsFit'
  BY <1>9, ThreadsAssumption, AnswersAssumption DEF PrefetchOne, Ask, Done, ResultsFit, RowsOffered, FlightsOwned, FlightKey, Fits, Plain, Refresh, TypeOK, Inv, At, Goto, flightVars, jobVars, Thread
<1>10. ASSUME NEW t \in Prefetch, Prefetched(t) PROVE ResultsFit'
  BY <1>10, ThreadsAssumption, AnswersAssumption DEF Prefetched, Done, ResultsFit, RowsOffered, FlightsOwned, FlightKey, Fits, Plain, Refresh, TypeOK, Inv, At, Goto, flightVars, jobVars, Thread
<1>11. ASSUME NEW j \in Job, StartJob(j) PROVE ResultsFit'
  BY <1>11, ThreadsAssumption, AnswersAssumption DEF StartJob, Ends, Ask, Done, ResultsFit, RowsOffered, FlightsOwned, FlightKey, Fits, Plain, Refresh, TypeOK, Inv, At, Goto, flightVars, jobVars, Thread
<1>12. ASSUME NEW j \in Job, Matched(j) PROVE ResultsFit'
  BY <1>12, ThreadsAssumption, AnswersAssumption DEF Matched, Ends, Done, Repaired, ResultsFit, RowsOffered, FlightsOwned, FlightKey, Fits, Plain, Refresh, TypeOK, Inv, At, Goto, flightVars, jobVars, Thread
<1>13. ASSUME NEW j \in Job, ClaimTarget(j) PROVE ResultsFit'
  BY <1>13, ThreadsAssumption, AnswersAssumption DEF ClaimTarget, Ends, Done, Claim, Free, ResultsFit, RowsOffered, FlightsOwned, FlightKey, Fits, Plain, Refresh, TypeOK, Inv, At, Goto, flightVars, jobVars, Thread
<1>14. ASSUME NEW j \in Job, Rematch(j) PROVE ResultsFit'
  BY <1>14, ThreadsAssumption, AnswersAssumption DEF Rematch, Ends, Done, InvalidateAndAsk, Invalidate, Row, ResultsFit, RowsOffered, FlightsOwned, FlightKey, Fits, Plain, Refresh, TypeOK, Inv, At, Goto, flightVars, jobVars, Thread
<1>15. ASSUME NEW j \in Job, Rematched(j) PROVE ResultsFit'
  BY <1>15, ThreadsAssumption, AnswersAssumption DEF Rematched, Ends, Done, Claim, Free, ResultsFit, RowsOffered, FlightsOwned, FlightKey, Fits, Plain, Refresh, TypeOK, Inv, At, Goto, flightVars, jobVars, Thread
<1>16. ASSUME NEW j \in Job, Download(j) PROVE ResultsFit'
  BY <1>16, ThreadsAssumption, AnswersAssumption DEF Download, Ends, Done, InvalidateAndAsk, Invalidate, Row, ResultsFit, RowsOffered, FlightsOwned, FlightKey, Fits, Plain, Refresh, TypeOK, Inv, At, Goto, flightVars, jobVars, Thread
<1>17. ASSUME NEW j \in Job, Replaced(j) PROVE ResultsFit'
  BY <1>17, ThreadsAssumption, AnswersAssumption DEF Replaced, Ends, Done, ResultsFit, RowsOffered, FlightsOwned, FlightKey, Fits, Plain, Refresh, TypeOK, Inv, At, Goto, flightVars, jobVars, Thread
<1>18. ASSUME NEW j \in Job, CancelJob(j) PROVE ResultsFit'
  BY <1>18, ThreadsAssumption, AnswersAssumption DEF CancelJob, ResultsFit, RowsOffered, FlightsOwned, FlightKey, Fits, Plain, Refresh, TypeOK, Inv, At, Goto, flightVars, jobVars, Thread
<1>19. CASE CancelPrefetch
  BY <1>19, ThreadsAssumption, AnswersAssumption DEF CancelPrefetch, ResultsFit, RowsOffered, FlightsOwned, FlightKey, Fits, Plain, Refresh, TypeOK, Inv, At, Goto, flightVars, jobVars, Thread
<1>20. CASE UNCHANGED vars
  BY <1>20, ThreadsAssumption, AnswersAssumption DEF vars, ResultsFit, RowsOffered, FlightsOwned, FlightKey, Fits, Plain, Refresh, TypeOK, Inv, At, Goto, flightVars, jobVars, Thread
<1> QED
  BY <1>1, <1>2, <1>3, <1>4, <1>5, <1>6, <1>7, <1>8, <1>9, <1>10, <1>11, <1>12, <1>13, <1>14, <1>15, <1>16, <1>17, <1>18, <1>19, <1>20 DEF Next, Step, Resolve, JobStep

(* A claim made when no other recording has the video keeps the claims apart. *)
LEMMA ClaimStep ==
    ASSUME Inv, NEW j \in Job, NEW u \in Url, Free(j, u), Claim(j, u)
    PROVE  ClaimsApart'
<1> SUFFICES ASSUME NEW j1 \in Job, NEW j2 \in Job, j1 # j2,
                    claim'[j1] = claim'[j2], claim'[j1] # Nothing
             PROVE  <<j1, j2>> \in Same
  BY DEF ClaimsApart
<1>1. claim' = [claim EXCEPT ![j] = u] /\ claim \in [Job -> Url \cup {Nothing}] /\ u # Nothing
  BY AnswersAssumption DEF Claim, Inv, TypeOK
<1>2. \A i \in Job \ {j} : claim[i] = u => <<i, j>> \in Same
  BY <1>1 DEF Free, Inv, ClaimsApart
<1>3. CASE j1 = j
  BY <1>1, <1>2, <1>3, ThreadsAssumption
<1>4. CASE j2 = j
  BY <1>1, <1>2, <1>4
<1>5. CASE j1 # j /\ j2 # j
  BY <1>1, <1>5 DEF Inv, ClaimsApart
<1> QED
  BY <1>3, <1>4, <1>5

(* No step lets two recordings claim one video. *)
LEMMA ApartStep == Inv /\ [Next]_vars => ClaimsApart'
<1> SUFFICES ASSUME Inv, [Next]_vars PROVE ClaimsApart'
  OBVIOUS
<1>1. ASSUME NEW t \in Thread, Lookup(t) PROVE ClaimsApart'
  BY <1>1, ThreadsAssumption, AnswersAssumption DEF Lookup, Hit, ClaimsApart, TypeOK, Inv, At, Goto, flightVars, jobVars, Thread
<1>2. ASSUME NEW t \in Thread, Join(t) PROVE ClaimsApart'
  BY <1>2, ThreadsAssumption, AnswersAssumption DEF Join, FlightKey, ClaimsApart, TypeOK, Inv, At, Goto, flightVars, jobVars, Thread
<1>3. ASSUME NEW t \in Thread, Search(t) PROVE ClaimsApart'
  BY <1>3, ThreadsAssumption, AnswersAssumption DEF Search, Found, ClaimsApart, TypeOK, Inv, At, Goto, flightVars, jobVars, Thread
<1>4. ASSUME NEW t \in Thread, Store(t) PROVE ClaimsApart'
  BY <1>4, ThreadsAssumption, AnswersAssumption DEF Store, Row, ClaimsApart, TypeOK, Inv, At, Goto, flightVars, jobVars, Thread
<1>5. ASSUME NEW t \in Thread, Publish(t) PROVE ClaimsApart'
  BY <1>5, ThreadsAssumption, AnswersAssumption DEF Publish, Joined, ClaimsApart, TypeOK, Inv, At, Goto, flightVars, jobVars, Thread
<1>6. ASSUME NEW t \in Thread, Unlink(t) PROVE ClaimsApart'
  BY <1>6, ThreadsAssumption, AnswersAssumption DEF Unlink, ClaimsApart, TypeOK, Inv, At, Goto, flightVars, jobVars, Thread
<1>7. ASSUME NEW t \in Thread, Landed(t) PROVE ClaimsApart'
  BY <1>7, ThreadsAssumption, AnswersAssumption DEF Landed, ClaimsApart, TypeOK, Inv, At, Goto, flightVars, jobVars, Thread
<1>8. ASSUME NEW t \in Thread, StopWaiting(t) PROVE ClaimsApart'
  BY <1>8, ThreadsAssumption, AnswersAssumption DEF StopWaiting, ClaimsApart, TypeOK, Inv, At, Goto, flightVars, jobVars, Thread
<1>9. ASSUME NEW t \in Prefetch, PrefetchOne(t) PROVE ClaimsApart'
  BY <1>9, ThreadsAssumption, AnswersAssumption DEF PrefetchOne, Ask, Done, ClaimsApart, TypeOK, Inv, At, Goto, flightVars, jobVars, Thread
<1>10. ASSUME NEW t \in Prefetch, Prefetched(t) PROVE ClaimsApart'
  BY <1>10, ThreadsAssumption, AnswersAssumption DEF Prefetched, Done, ClaimsApart, TypeOK, Inv, At, Goto, flightVars, jobVars, Thread
<1>11. ASSUME NEW j \in Job, StartJob(j) PROVE ClaimsApart'
  BY <1>11, ThreadsAssumption, AnswersAssumption DEF StartJob, Ends, Ask, Done, ClaimsApart, TypeOK, Inv, At, Goto, flightVars, jobVars, Thread
<1>12. ASSUME NEW j \in Job, Matched(j) PROVE ClaimsApart'
  BY <1>12, ThreadsAssumption, AnswersAssumption DEF Matched, Ends, Done, Repaired, ClaimsApart, TypeOK, Inv, At, Goto, flightVars, jobVars, Thread
<1>13. ASSUME NEW j \in Job, ClaimTarget(j) PROVE ClaimsApart'
  <2>1. CASE claim' = claim
    BY <2>1 DEF Inv, ClaimsApart
  <2>2. CASE claim' # claim
    <3>1. url[j] \in Url /\ Free(j, url[j]) /\ Claim(j, url[j])
      BY <1>13, <2>2 DEF ClaimTarget, Ends, jobVars
    <3> QED
      BY <3>1, ClaimStep
  <2> QED
    BY <2>1, <2>2
<1>14. ASSUME NEW j \in Job, Rematch(j) PROVE ClaimsApart'
  BY <1>14, ThreadsAssumption, AnswersAssumption DEF Rematch, Ends, Done, InvalidateAndAsk, Invalidate, Row, ClaimsApart, TypeOK, Inv, At, Goto, flightVars, jobVars, Thread
<1>15. ASSUME NEW j \in Job, Rematched(j) PROVE ClaimsApart'
  <2>1. CASE claim' = claim
    BY <2>1 DEF Inv, ClaimsApart
  <2>2. CASE claim' # claim
    <3>1. answer[j] \in Url /\ Free(j, answer[j]) /\ Claim(j, answer[j])
      BY <1>15, <2>2 DEF Rematched, Ends, jobVars
    <3> QED
      BY <3>1, ClaimStep
  <2> QED
    BY <2>1, <2>2
<1>16. ASSUME NEW j \in Job, Download(j) PROVE ClaimsApart'
  BY <1>16, ThreadsAssumption, AnswersAssumption DEF Download, Ends, Done, InvalidateAndAsk, Invalidate, Row, ClaimsApart, TypeOK, Inv, At, Goto, flightVars, jobVars, Thread
<1>17. ASSUME NEW j \in Job, Replaced(j) PROVE ClaimsApart'
  BY <1>17, ThreadsAssumption, AnswersAssumption DEF Replaced, Ends, Done, ClaimsApart, TypeOK, Inv, At, Goto, flightVars, jobVars, Thread
<1>18. ASSUME NEW j \in Job, CancelJob(j) PROVE ClaimsApart'
  BY <1>18, ThreadsAssumption, AnswersAssumption DEF CancelJob, ClaimsApart, TypeOK, Inv, At, Goto, flightVars, jobVars, Thread
<1>19. CASE CancelPrefetch
  BY <1>19, ThreadsAssumption, AnswersAssumption DEF CancelPrefetch, ClaimsApart, TypeOK, Inv, At, Goto, flightVars, jobVars, Thread
<1>20. CASE UNCHANGED vars
  BY <1>20, ThreadsAssumption, AnswersAssumption DEF vars, ClaimsApart, TypeOK, Inv, At, Goto, flightVars, jobVars, Thread
<1> QED
  BY <1>1, <1>2, <1>3, <1>4, <1>5, <1>6, <1>7, <1>8, <1>9, <1>10, <1>11, <1>12, <1>13, <1>14, <1>15, <1>16, <1>17, <1>18, <1>19, <1>20 DEF Next, Step, Resolve, JobStep

(* Every step leaves a downloading job the claim of its video. *)
LEMMA HeldStep == Inv /\ [Next]_vars => ClaimHeld'
<1> SUFFICES ASSUME Inv, [Next]_vars PROVE ClaimHeld'
  OBVIOUS
<1>1. ASSUME NEW t \in Thread, Lookup(t) PROVE ClaimHeld'
  BY <1>1, ThreadsAssumption, AnswersAssumption DEF Lookup, Hit, ClaimHeld, HoldsClaim, Asking, TypeOK, Inv, At, Goto, flightVars, jobVars, Thread
<1>2. ASSUME NEW t \in Thread, Join(t) PROVE ClaimHeld'
  BY <1>2, ThreadsAssumption, AnswersAssumption DEF Join, FlightKey, ClaimHeld, HoldsClaim, Asking, TypeOK, Inv, At, Goto, flightVars, jobVars, Thread
<1>3. ASSUME NEW t \in Thread, Search(t) PROVE ClaimHeld'
  BY <1>3, ThreadsAssumption, AnswersAssumption DEF Search, Found, ClaimHeld, HoldsClaim, Asking, TypeOK, Inv, At, Goto, flightVars, jobVars, Thread
<1>4. ASSUME NEW t \in Thread, Store(t) PROVE ClaimHeld'
  BY <1>4, ThreadsAssumption, AnswersAssumption DEF Store, Row, ClaimHeld, HoldsClaim, Asking, TypeOK, Inv, At, Goto, flightVars, jobVars, Thread
<1>5. ASSUME NEW t \in Thread, Publish(t) PROVE ClaimHeld'
  BY <1>5, ThreadsAssumption, AnswersAssumption DEF Publish, Joined, ClaimHeld, HoldsClaim, Asking, TypeOK, Inv, At, Goto, flightVars, jobVars, Thread
<1>6. ASSUME NEW t \in Thread, Unlink(t) PROVE ClaimHeld'
  BY <1>6, ThreadsAssumption, AnswersAssumption DEF Unlink, ClaimHeld, HoldsClaim, Asking, TypeOK, Inv, At, Goto, flightVars, jobVars, Thread
<1>7. ASSUME NEW t \in Thread, Landed(t) PROVE ClaimHeld'
  BY <1>7, ThreadsAssumption, AnswersAssumption DEF Landed, ClaimHeld, HoldsClaim, Asking, TypeOK, Inv, At, Goto, flightVars, jobVars, Thread
<1>8. ASSUME NEW t \in Thread, StopWaiting(t) PROVE ClaimHeld'
  BY <1>8, ThreadsAssumption, AnswersAssumption DEF StopWaiting, ClaimHeld, HoldsClaim, Asking, TypeOK, Inv, At, Goto, flightVars, jobVars, Thread
<1>9. ASSUME NEW t \in Prefetch, PrefetchOne(t) PROVE ClaimHeld'
  BY <1>9, ThreadsAssumption, AnswersAssumption DEF PrefetchOne, Ask, Done, ClaimHeld, HoldsClaim, Asking, TypeOK, Inv, At, Goto, flightVars, jobVars, Thread
<1>10. ASSUME NEW t \in Prefetch, Prefetched(t) PROVE ClaimHeld'
  BY <1>10, ThreadsAssumption, AnswersAssumption DEF Prefetched, Done, ClaimHeld, HoldsClaim, Asking, TypeOK, Inv, At, Goto, flightVars, jobVars, Thread
<1>11. ASSUME NEW j \in Job, StartJob(j) PROVE ClaimHeld'
  BY <1>11, ThreadsAssumption, AnswersAssumption DEF StartJob, Ends, Ask, Done, ClaimHeld, HoldsClaim, Asking, TypeOK, Inv, At, Goto, flightVars, jobVars, Thread
<1>12. ASSUME NEW j \in Job, Matched(j) PROVE ClaimHeld'
  BY <1>12, ThreadsAssumption, AnswersAssumption DEF Matched, Ends, Done, Repaired, ClaimHeld, HoldsClaim, Asking, TypeOK, Inv, At, Goto, flightVars, jobVars, Thread
<1>13. ASSUME NEW j \in Job, ClaimTarget(j) PROVE ClaimHeld'
  BY <1>13, ThreadsAssumption, AnswersAssumption DEF ClaimTarget, Ends, Done, Claim, Free, ClaimHeld, HoldsClaim, Asking, TypeOK, Inv, At, Goto, flightVars, jobVars, Thread
<1>14. ASSUME NEW j \in Job, Rematch(j) PROVE ClaimHeld'
  BY <1>14, ThreadsAssumption, AnswersAssumption DEF Rematch, Ends, Done, InvalidateAndAsk, Invalidate, Row, ClaimHeld, HoldsClaim, Asking, TypeOK, Inv, At, Goto, flightVars, jobVars, Thread
<1>15. ASSUME NEW j \in Job, Rematched(j) PROVE ClaimHeld'
  BY <1>15, ThreadsAssumption, AnswersAssumption DEF Rematched, Ends, Done, Claim, Free, ClaimHeld, HoldsClaim, Asking, TypeOK, Inv, At, Goto, flightVars, jobVars, Thread
<1>16. ASSUME NEW j \in Job, Download(j) PROVE ClaimHeld'
  <2>0. j \in Thread /\ Job \subseteq Thread
    BY DEF Thread
  <2>1. claim' = claim /\ \A i \in Job \ {j} : pc'[i] = pc[i] /\ stage'[i] = stage[i] /\ url'[i] = url[i]
    BY <1>16, <2>0 DEF Download, Ends, Done, InvalidateAndAsk, Goto, jobVars, TypeOK, Inv
  <2>2. url' = url /\ (pc[j] = "download")
    BY <1>16 DEF Download, Ends, jobVars, At
  <2> SUFFICES ASSUME NEW i \in Job, HoldsClaim(i)', url'[i] \in Url PROVE claim'[i] = url'[i]
    BY DEF ClaimHeld
  <2>3. CASE i # j
    BY <2>1, <2>3 DEF ClaimHeld, HoldsClaim, Inv
  <2>4. CASE i = j
    BY <2>1, <2>2, <2>4 DEF ClaimHeld, HoldsClaim, Asking, Inv
  <2> QED
    BY <2>3, <2>4
<1>17. ASSUME NEW j \in Job, Replaced(j) PROVE ClaimHeld'
  <2>0. j \in Thread /\ Job \subseteq Thread
    BY DEF Thread
  <2>1. claim' = claim /\ \A i \in Job \ {j} : pc'[i] = pc[i] /\ stage'[i] = stage[i] /\ url'[i] = url[i]
    BY <1>17, <2>0 DEF Replaced, Ends, Done, Goto, jobVars, TypeOK, Inv
  <2>2. \/ url' = url /\ stage[j] = "stale" /\ pc[j] = "answered"
        \/ pc'[j] = "claim"
    BY <1>17, <2>0 DEF Replaced, Ends, Done, jobVars, At, Goto, TypeOK, Inv
  <2> SUFFICES ASSUME NEW i \in Job, HoldsClaim(i)', url'[i] \in Url PROVE claim'[i] = url'[i]
    BY DEF ClaimHeld
  <2>3. CASE i # j
    BY <2>1, <2>3 DEF ClaimHeld, HoldsClaim, Inv
  <2>4. CASE i = j
    BY <2>1, <2>2, <2>4 DEF ClaimHeld, HoldsClaim, Asking, Inv
  <2> QED
    BY <2>3, <2>4
<1>18. ASSUME NEW j \in Job, CancelJob(j) PROVE ClaimHeld'
  BY <1>18, ThreadsAssumption, AnswersAssumption DEF CancelJob, ClaimHeld, HoldsClaim, Asking, TypeOK, Inv, At, Goto, flightVars, jobVars, Thread
<1>19. CASE CancelPrefetch
  BY <1>19, ThreadsAssumption, AnswersAssumption DEF CancelPrefetch, ClaimHeld, HoldsClaim, Asking, TypeOK, Inv, At, Goto, flightVars, jobVars, Thread
<1>20. CASE UNCHANGED vars
  BY <1>20, ThreadsAssumption, AnswersAssumption DEF vars, ClaimHeld, HoldsClaim, Asking, TypeOK, Inv, At, Goto, flightVars, jobVars, Thread
<1> QED
  BY <1>1, <1>2, <1>3, <1>4, <1>5, <1>6, <1>7, <1>8, <1>9, <1>10, <1>11, <1>12, <1>13, <1>14, <1>15, <1>16, <1>17, <1>18, <1>19, <1>20 DEF Next, Step, Resolve, JobStep

(* The invariant holds at the start. *)
LEMMA InitInv == Init => Inv
<1> SUFFICES ASSUME Init PROVE Inv
  OBVIOUS
<1>1. Plain \in Asks
  BY AskTypes
<1>2. TypeOK
  BY <1>1, AnswersAssumption DEF Init, TypeOK, Places, Thread, Answers
<1>3. RowsOffered /\ FlightsOwned /\ ResultsFit
  BY DEF Init, RowsOffered, FlightsOwned, ResultsFit, At
<1>4. ClaimsApart /\ ClaimHeld
  BY DEF Init, ClaimsApart, ClaimHeld, HoldsClaim, Asking, Thread
<1> QED
  BY <1>2, <1>3, <1>4 DEF Inv

(* And for good. *)
LEMMA SpecInv == Spec => []Inv
<1>1. Inv /\ [Next]_vars => Inv'
  BY TypeStep, RowsStep, OwnedStep, ResultsStep, ApartStep, HeldStep DEF Inv
<1> QED
  BY InitInv, <1>1, PTL DEF Spec

(* Every variable of the resolver, the flights and the jobs keeps its type. *)
THEOREM Types == Spec => []TypeOK
<1>1. Inv => TypeOK
  BY DEF Inv
<1> QED
  BY <1>1, SpecInv, PTL

(* However many threads ask for however many tracks, one flight answers a  *)
(* question at a time and nobody waits for a flight that is gone.          *)
THEOREM Flights == Spec => []FlightsOwned
<1>1. Inv => FlightsOwned
  BY DEF Inv
<1> QED
  BY <1>1, SpecInv, PTL

(* What a thread is answered, by whomever, fits what it asked. *)
THEOREM Answered == Spec => []AnswersFit
<1>1. Inv => AnswersFit
  BY DEF Inv, ResultsFit, Fits, AnswersFit, At
<1> QED
  BY <1>1, SpecInv, PTL

(* Jobs of different recordings never download one video. *)
THEOREM Distinct == Spec => []DistinctTargets
<1>1. Inv => DistinctTargets
  <2> SUFFICES ASSUME Inv, NEW i \in Job, NEW j \in Job, i # j, Takes(i), Takes(j),
                      url[i] = url[j]
               PROVE  <<i, j>> \in Same
    BY DEF DistinctTargets
  <2>1. claim[i] = url[i] /\ claim[j] = url[j] /\ url[i] # Nothing
    BY AnswersAssumption DEF Takes, Inv, ClaimHeld, HoldsClaim
  <2> QED
    BY <2>1 DEF Inv, ClaimsApart
<1> QED
  BY <1>1, SpecInv, PTL

(* A row goes only by the proof of a job that excludes what it held. *)
THEOREM RowsGo == Spec => RowsGoByProof
<1>1. Inv /\ [Next]_vars =>
        [\A k \in Key :
            cache[k] # Nothing /\ cache'[k] = Nothing =>
                \E j \in Job : /\ KeyOf[j] = k /\ pc'[j] = "lookup"
                               /\ cache[k] \in ask'[j].exclude]_vars
  <2> SUFFICES ASSUME Inv, [Next]_vars, NEW k \in Key, cache[k] # Nothing, cache'[k] = Nothing
               PROVE  \E j \in Job : /\ KeyOf[j] = k /\ pc'[j] = "lookup"
                                     /\ cache[k] \in ask'[j].exclude
    OBVIOUS
  <2>1. \/ cache' = cache
        \/ \E t \in Thread : Store(t)
        \/ \E j \in Job : Rematch(j) \/ Download(j)
    BY DEF Next, Step, Resolve, JobStep, vars, flightVars, Lookup, Join, Search, Publish, Unlink,
           Landed, StopWaiting, PrefetchOne, Prefetched, StartJob, Matched, ClaimTarget, Rematched,
           Replaced, Ask, Done, Ends, CancelJob, CancelPrefetch
  <2>2. ASSUME NEW t \in Thread, Store(t) PROVE FALSE
    BY <2>2, AnswersAssumption, ThreadsAssumption DEF Store, Row, At, Inv, TypeOK, ResultsFit
  <2>3. ASSUME NEW j \in Job, Rematch(j), cache' # cache
        PROVE  KeyOf[j] = k /\ pc'[j] = "lookup" /\ cache[k] \in ask'[j].exclude
    <3>1. j \in Thread /\ InvalidateAndAsk(j, answer[j], ask[j]) /\ answer[j] \in ask[j].exclude
      BY <2>3 DEF Rematch, Ends, Done, At, Inv, ResultsFit, Thread
    <3> QED
      BY <3>1, ThreadsAssumption DEF InvalidateAndAsk, Invalidate, Row, Goto, Inv, TypeOK
  <2>4. ASSUME NEW j \in Job, Download(j), cache' # cache
        PROVE  KeyOf[j] = k /\ pc'[j] = "lookup" /\ cache[k] \in ask'[j].exclude
    <3>1. j \in Thread /\ InvalidateAndAsk(j, url[j], Refresh({url[j]}))
      BY <2>4 DEF Download, Ends, Done, Thread
    <3> QED
      BY <3>1, ThreadsAssumption DEF InvalidateAndAsk, Invalidate, Row, Goto, Refresh, Inv, TypeOK
  <2> QED
    BY <2>1, <2>2, <2>3, <2>4
<1> QED
  BY <1>1, SpecInv, PTL DEF Spec, RowsGoByProof
=============================================================================
