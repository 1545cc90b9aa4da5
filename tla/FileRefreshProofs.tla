--------------------------- MODULE FileRefreshProofs ---------------------------
(***************************************************************************)
(* Proofs about FileRefresh, for every set of names and every bound.       *)
(*                                                                         *)
(*  - RefreshTypes: every variable keeps its type (TypeOK).                *)
(*  - NewsArrives: what the list shows of a file is so, is marked as in    *)
(*    doubt, or will be looked at again (UnseenIsUnderway).                *)
(*  - ProposalsKept: a plan leaves every proposal with the file it was     *)
(*    made for (ProposalsStand).                                           *)
(***************************************************************************)
EXTENDS FileRefresh, TLAPS, FiniteSetTheorems, SequenceTheorems

(* The system watches a directory only while it is there, and tells of one *)
(* only while it was seen.                                                 *)
Wired == (~there => ~wired) /\ (wired \/ dirty => seen # NoItem)

(* A file was written by now, and is not one that is still to be made. *)
Old(c, now) == c # Nobody => c.time <= now /\ c.inode \in Name \cup 1 .. now
Stamped == \A n \in Name : Old(at[n], clock) /\ (seen # NoItem => Old(seen[n], clock))

(* No file is at two names. *)
Unique(f) ==
    \A n, m \in Name : f[n] # Nobody /\ f[m] # Nobody /\ f[n].inode = f[m].inode => n = m
Distinct == Unique(at) /\ (seen # NoItem => Unique(seen))

(* The files an Apply has before it, whose items keep their proposals. *)
Busy == CASE job.stage = "check" -> job.files
          [] job.stage = "write" -> job.left
          [] OTHER -> {}
Jobs ==
    /\ job.stage = "none" => job = NoJob
    /\ \A n \in Busy : job.live[n] \in Name /\ Proposed(job.live[n])
    /\ \A n, m \in Busy : job.live[n] = job.live[m] => n = m

(* What a worker has of the items is so until a revision changes. *)
Workers ==
    /\ worker.gone => worker.look = {} /\ worker.old = {}
    /\ worker.full => ~worker.gone /\ worker.look = Name
    /\ worker.current => /\ \A n \in worker.old : Loaded(n)
                         /\ \A n \in Name : Proposed(n) => n \in worker.had

(* An item that was read from no file is not current. *)
Bases == \A n \in Name : Loaded(n) /\ item[n].base = Nobody => item[n].state # "current"

(* Behind news of a loss nothing is under way, and only items are looked   *)
(* at: no other name had a file when the directory was last seen.          *)
Lost ==
    wired /\ rootEvent = "lost" =>
        /\ worker = NoWorker
        /\ \A n \in Name : Loaded(n) \/ n \in forgotten \/ seen[n] = Nobody
        /\ \A n \in reviewable :
              Loaded(n) /\ item[n].state = "missing" => seen[n] = Nobody \/ n \in forgotten

(* Why news of n will come. News of a loss goes alone, and only to the     *)
(* items; a plan has to have found what is there.                          *)
Polled(n) == polling /\ (~there \/ seen = NoItem \/ seen[n] # at[n])
Queued(n) == sweep \/ n \in Heard(pending) \/ rootEvent = "restored"
Carried(n) == /\ n \in Covers(worker)
              /\ worker.stage = "planned" /\ ~worker.gone => worker.view[n] = Disk(n)
Reason(n) ==
    \/ Polled(n) \/ Queued(n)
    \/ rootEvent = "lost" /\ (Loaded(n) \/ (dirty /\ seen # NoItem /\ seen[n] # at[n]))
    \/ rootEvent # "lost" /\ (dirty \/ job # NoJob \/ Carried(n))
Settled(n) == Known(item[n], Disk(n)) \/ n \in forgotten
Accounted == \A n \in Name : Settled(n) \/ Reason(n)

IInv == /\ TypeOK /\ Wired /\ Stamped /\ Distinct /\ Jobs /\ Workers /\ Bases /\ Lost
        /\ Accounted

----------------------------------------------------------------------------
(* Types *)

WorkerType == [stage : {"none", "run", "planned"}, gone : BOOLEAN, full : BOOLEAN,
               look : SUBSET Name, old : SUBSET Name, had : SUBSET Name,
               current : BOOLEAN, view : [Name -> Content]]
JobType == [stage : {"none", "check", "write", "ended", "captured"}, files : SUBSET Name,
            left : SUBSET Name, wrote : SUBSET Name,
            base : [Name -> Content], live : [Name -> Name \cup {Nobody}]]

(* What reading a file, changing an item and idling have for a type. *)
LEMMA Parts ==
  /\ NoWorker \in WorkerType /\ NoJob \in JobType
  /\ \A c \in Content, s \in State : Read(c, s) \in Item
  /\ \A i \in Item : i # NoItem
  /\ \A e \in Event : e # NoItem
  /\ \A f \in [Name -> Content] : f # NoItem
  /\ \A n \in Name : Disk(n) = (IF there THEN at[n] ELSE Nobody)
BY NoneAssumption DEF NoWorker, NoJob, WorkerType, JobType, Read, Item, Content, Disk, State

(* What is found at a name is a file or none. *)
LEMMA DiskType == ASSUME TypeOK PROVE \A n \in Name : Disk(n) \in Content
BY DEF TypeOK, Disk, Content

(* A merge of two events is an event. *)
LEMMA MergeType ==
  ASSUME NEW prior \in Event \cup {NoItem}, NEW e \in Event
  PROVE Merge(prior, e) \in Event
<1>1. [e EXCEPT !.kind = "created"] \in Event
  BY DEF Event
<1>2. ASSUME prior \in Event PROVE [prior EXCEPT !.evidence = e.evidence] \in Event
  BY <1>2 DEF Event
<1>3. QED
  BY <1>1, <1>2 DEF Merge

(* A comparison makes an event of a name or none. *)
LEMMA EventsType ==
  ASSUME TypeOK, seen # NoItem
  PROVE Events \in [Name -> Event \cup {NoItem}]
<1>1. at \in [Name -> Content] /\ seen \in [Name -> Content]
  BY DEF TypeOK
<1>2. ASSUME NEW n \in Name, NEW p \in Name \cup {Nobody} PROVE RawEvent(n, p) \in Event
  BY <1>1 DEF RawEvent, Event
<1>3. ASSUME NEW n \in Name, NEW p \in Name \cup {Nobody}
      PROVE [RawEvent(n, p) EXCEPT !.kind = "other"] \in Event
  BY <1>2, <1>3 DEF Event
<1>4. ASSUME NEW m \in Name, \E n \in Name : Relocated(n, m)
      PROVE (CHOOSE n \in Name : Relocated(n, m)) \in Name
  BY <1>4
<1>5. ASSUME NEW m \in Name PROVE Events[m] \in Event \cup {NoItem}
  <2>1. CASE \E n \in Name : Relocated(n, m)
    <3>1. Events[m] = [RawEvent(m, CHOOSE n \in Name : Relocated(n, m)) EXCEPT !.kind = "other"]
      BY <2>1 DEF Events
    <3>2. QED
      BY <3>1, <1>3, <1>4, <2>1
  <2>2. CASE ~\E n \in Name : Relocated(n, m)
    <3>1. Events[m] = RawEvent(m, Nobody) \/ Events[m] = NoItem
      BY <2>2 DEF Events
    <3>2. QED
      BY <3>1, <1>2
  <2>3. QED
    BY <2>1, <2>2
<1>6. DOMAIN Events = Name /\ Events = [m \in Name |-> Events[m]]
  BY DEF Events
<1>7. QED
  BY <1>5, <1>6

----------------------------------------------------------------------------
(* What draining the queue comes to *)

(* A worker has been started for root event r. *)
Started(r, s, current) ==
    /\ worker' \in WorkerType /\ worker'.stage = "run"
    /\ worker'.gone = (r = "lost")
    /\ worker'.gone => worker'.look = {} /\ worker'.old = {}
    /\ worker'.full = (r = "restored" \/ (r = "none" /\ s))
    /\ worker'.full => worker'.look = Name
    /\ \A n \in worker'.old : Loaded(n)
    /\ worker'.had = {n \in Name : Proposed(n)} /\ worker'.current = current

(* Prior names are names. *)
LEMMA ToldType ==
  /\ \A events : Told(events) \subseteq Name /\ Heard(events) \subseteq Told(events)
  /\ \A events : \A n \in Name : n \in Told(events) /\ Loaded(n) => n \in Heard(events)
BY DEF Told, Heard, Priors

(* A worker looks at names. *)
LEMMA CoversType ==
  ASSUME NEW w \in WorkerType
  PROVE Covers(w) \subseteq Name
BY DEF Covers, WorkerType

(* The queue is empty after it was drained; a worker was started unless    *)
(* nothing was to be done or a disk operation runs; nothing of what was    *)
(* dropped before is taken back.                                           *)
LEMMA Serving ==
  ASSUME TypeOK, NEW r \in {"none", "lost", "restored"}, NEW s \in BOOLEAN, NEW busy \in BOOLEAN,
         NEW current \in BOOLEAN, Serve(r, s, busy, current)
  PROVE /\ pending' = [n \in Name |-> NoItem] /\ rootEvent' = "none" /\ sweep' = FALSE
        /\ forgotten \subseteq forgotten' /\ forgotten' \subseteq Name
        /\ worker' = worker \/ Started(r, s, current)
        /\ ~busy /\ (r # "none" \/ s) => Started(r, s, current)
<1> DEFINE events == IF r = "none" THEN pending ELSE [n \in Name |-> NoItem]
           actionable == [n \in Name |-> IF events[n] # NoItem /\ Expected(events[n], n)
                                         THEN NoItem ELSE events[n]]
           full == r = "restored" \/ (r = "none" /\ s)
           look == {n \in Name : actionable[n] # NoItem}
           next == [NoWorker EXCEPT !.stage = "run", !.gone = (r = "lost"), !.full = full,
                                    !.look = IF full THEN Name ELSE look,
                                    !.old = IF full THEN {}
                                            ELSE {n \in Told(actionable) \ look : Loaded(n)},
                                    !.had = {n \in Name : Proposed(n)}, !.current = current]
           lost == IF r = "lost" THEN Told(pending) \cup (IF s THEN Name ELSE {}) ELSE {}
           again == {n \in Name : \E m \in Name : /\ events[m] # NoItem /\ AsLeft(events[m], m)
                                                 /\ n \in {m, events[m].from}}
<1>1. /\ pending' = [n \in Name |-> NoItem] /\ rootEvent' = "none" /\ sweep' = FALSE
      /\ IF busy
         THEN /\ forgotten' = IF r # "none" \/ s THEN Name ELSE forgotten \cup Told(events)
              /\ worker' = worker
         ELSE IF next.gone \/ look # {} \/ full
         THEN /\ forgotten' = forgotten \cup lost
                              \cup ((again \cup Covers(worker)) \ Covers(next))
              /\ worker' = next
         ELSE forgotten' = forgotten \cup again /\ worker' = worker
  BY DEF Serve
<1>2. events \in [Name -> Event \cup {NoItem}]
  BY DEF TypeOK
<1>3. again \subseteq Name
  OBVIOUS
<1>4. lost \subseteq Name /\ Told(events) \subseteq Name /\ Told(actionable) \subseteq Name
  BY ToldType
<1>5. Covers(worker) \subseteq Name /\ forgotten \subseteq Name
  BY CoversType DEF TypeOK, WorkerType
<1>6. look \subseteq Name /\ {n \in Told(actionable) \ look : Loaded(n)} \subseteq Name
  BY <1>4
<1>7. /\ next \in WorkerType /\ next.stage = "run" /\ next.gone = (r = "lost")
      /\ next.full = full /\ next.look = (IF full THEN Name ELSE look)
      /\ next.old = (IF full THEN {} ELSE {n \in Told(actionable) \ look : Loaded(n)})
      /\ next.had = {n \in Name : Proposed(n)} /\ next.current = current
  <2> HIDE DEF actionable, look
  <2> QED
    BY <1>6 DEF NoWorker, WorkerType, Content
<1>11. r = "lost" => look = {} /\ {n \in Told(actionable) \ look : Loaded(n)} = {}
  <2>1. ASSUME r = "lost" PROVE \A n \in Name : actionable[n] = NoItem
    BY <2>1
  <2> HIDE DEF actionable
  <2>2. QED
    BY <2>1 DEF Told, Priors
<1>8. worker' = next => Started(r, s, current)
  <2> HIDE DEF next, actionable, look
  <2> QED
    BY <1>7, <1>11 DEF Started
<1> HIDE DEF events, actionable, look, next, lost, again
<1>9. ~busy /\ (r # "none" \/ s) => worker' = next
  BY <1>1, <1>7
<1>10. QED
  BY <1>1, <1>3, <1>4, <1>5, <1>8, <1>9

(* An event the application is known to have brought about found what one  *)
(* of its operations had left.                                             *)
LEMMA ExpectedIsLeft ==
  ASSUME TypeOK, NEW n \in Name, NEW e \in Event, Expected(e, n)
  PROVE AsLeft(e, n)
<1>1. PICK i \in Touching(e, n) :
            \/ n = own[i].final /\ e.evidence = own[i].left
            \/ n = own[i].orig /\ n # own[i].final /\ e.evidence = Nobody
  BY DEF Expected
<1>2. i \in DOMAIN own
  BY DEF Touching, TypeOK
<1>3. QED
  BY <1>1, <1>2 DEF AsLeft

(* Draining the queue loses no name whose file and item stay as they are:  *)
(* it is a worker's, or it is noted as forgotten.                          *)
LEMMA ServeAccounts ==
  ASSUME TypeOK, NEW r \in {"none", "lost", "restored"}, NEW s \in BOOLEAN, NEW busy \in BOOLEAN,
         NEW current \in BOOLEAN, Serve(r, s, busy, current),
         sweep => s, r = rootEvent \/ (r = "lost" /\ ~there),
         busy => r # "none" \/ s, job' = job \/ r # "none" \/ s,
         NEW n \in Name, Settled(n) \/ Reason(n),
         at'[n] = at[n], item'[n] = item[n], dirty => dirty',
         polling' = polling, there' = there, seen' = seen
  PROVE Settled(n)' \/ Reason(n)'
<1> DEFINE events == IF r = "none" THEN pending ELSE [x \in Name |-> NoItem]
           actionable == [x \in Name |-> IF events[x] # NoItem /\ Expected(events[x], x)
                                         THEN NoItem ELSE events[x]]
           full == r = "restored" \/ (r = "none" /\ s)
           look == {x \in Name : actionable[x] # NoItem}
           next == [NoWorker EXCEPT !.stage = "run", !.gone = (r = "lost"), !.full = full,
                                    !.look = IF full THEN Name ELSE look,
                                    !.old = IF full THEN {}
                                            ELSE {x \in Told(actionable) \ look : Loaded(x)},
                                    !.had = {x \in Name : Proposed(x)}, !.current = current]
           lost == IF r = "lost" THEN Told(pending) \cup (IF s THEN Name ELSE {}) ELSE {}
           again == {x \in Name : \E m \in Name : /\ events[m] # NoItem /\ AsLeft(events[m], m)
                                                 /\ x \in {m, events[m].from}}
<1>1. /\ pending' = [x \in Name |-> NoItem] /\ rootEvent' = "none" /\ sweep' = FALSE
      /\ IF busy
         THEN /\ forgotten' = IF r # "none" \/ s THEN Name ELSE forgotten \cup Told(events)
              /\ worker' = worker
         ELSE IF next.gone \/ look # {} \/ full
         THEN /\ forgotten' = forgotten \cup lost
                              \cup ((again \cup Covers(worker)) \ Covers(next))
              /\ worker' = next
         ELSE forgotten' = forgotten \cup again /\ worker' = worker
  BY DEF Serve
<1>2. events \in [Name -> Event \cup {NoItem}]
  BY DEF TypeOK
<1>3. /\ next.stage = "run" /\ next.gone = (r = "lost")
      /\ next.full = full /\ next.look = (IF full THEN Name ELSE look)
      /\ next.old = (IF full THEN {} ELSE {x \in Told(actionable) \ look : Loaded(x)})
  <2> HIDE DEF actionable, look
  <2> QED
    BY DEF NoWorker
<1>4. ASSUME NEW m \in Name, events[m] # NoItem
      PROVE m \in look \/ (m \in again /\ (events[m].from \in Name => events[m].from \in again))
  <2>1. CASE Expected(events[m], m)
    <3>1. AsLeft(events[m], m)
      BY <1>2, <1>4, <2>1, ExpectedIsLeft
    <3>2. QED
      BY <3>1, <1>4
  <2>2. CASE ~Expected(events[m], m)
    BY <2>2, <1>4
  <2>3. QED
    BY <2>1, <2>2
<1>5. ASSUME NEW m \in Name, events[m] # NoItem, events[m].from = n, m \in look, Loaded(n)
      PROVE n \in Told(actionable)
  <2>1. actionable[m] = events[m]
    BY <1>5
  <2>2. QED
    BY <2>1, <1>5 DEF Told, Priors
<1>6. ~Loaded(n) /\ ~there => Known(item[n], Disk(n))
  BY DEF Loaded, Known, Disk
<1>7. Disk(n)' = Disk(n) /\ Loaded(n)' = Loaded(n) /\ Known(item[n], Disk(n))' = Known(item[n], Disk(n))
  BY DEF Disk, Loaded, Known
<1>8. Polled(n) => Polled(n)'
  BY DEF Polled
<1> DEFINE asked == n \in Told(actionable) /\ Loaded(n)
<1>9. n \in Heard(pending) /\ r = "none" => n \in look \/ n \in again \/ asked
  <2>1. CASE pending[n] # NoItem
    BY <2>1, <1>4
  <2>2. ASSUME NEW m \in Name, pending[m] # NoItem, pending[m].from = n, Loaded(n)
        PROVE r = "none" => n \in look \/ n \in again \/ asked
    BY <2>2, <1>4, <1>5
  <2>3. QED
    BY <2>1, <2>2 DEF Heard, Priors
<1>10. r = "none" => Told(events) = Told(pending)
  OBVIOUS
<1>11. Heard(pending) \subseteq Told(pending)
  BY ToldType
<1> HIDE DEF events, actionable, look, next, lost, again
<1>12. worker' = next /\ n \in Covers(next) => Carried(n)'
  BY <1>3, <1>7 DEF Covers, Carried, Loaded
<1>13. worker' = worker /\ Carried(n) => Carried(n)'
  BY <1>7 DEF Covers, Carried, Loaded
<1>14. CASE busy
  BY <1>1, <1>14 DEF Settled
<1>15. CASE ~busy /\ worker' = next /\ forgotten' = forgotten \cup lost
                              \cup ((again \cup Covers(worker)) \ Covers(next))
  <2>1. Known(item[n], Disk(n)) \/ n \in forgotten' \/ Polled(n) \/ dirty \/ n \in Covers(next)
        \/ (job # NoJob /\ job' = job)
    <3>1. CASE Settled(n) \/ Polled(n) \/ dirty
      BY <3>1, <1>15 DEF Settled
    <3>2. CASE full
      BY <3>2, <1>3 DEF Covers
    <3>3. CASE r = "lost"
      <4>1. Loaded(n) => n \in Covers(next)
        BY <3>3, <1>3 DEF Covers
      <4>2. rootEvent = "lost" \/ ~there
        BY <3>3
      <4>3. CASE sweep \/ n \in Heard(pending)
        BY <4>3, <3>3, <1>11, <1>15 DEF lost
      <4>4. rootEvent = "lost" /\ Reason(n) => Polled(n) \/ sweep \/ n \in Heard(pending)
                                               \/ Loaded(n) \/ dirty
        BY DEF Reason, Queued
      <4>5. QED
        BY <4>1, <4>2, <4>3, <4>4, <1>6, <1>15 DEF Settled
    <3>4. CASE r = "none" /\ ~s
      <4>1. rootEvent = "none" /\ ~sweep
        BY <3>4
      <4>2. ~full
        BY <3>4 DEF full
      <4>3. n \in look \/ asked => n \in Covers(next)
        BY <1>3, <4>2, <3>4 DEF Covers
      <4>4. n \in Heard(pending) => n \in Covers(next) \/ n \in forgotten'
        BY <1>9, <4>3, <3>4, <1>15
      <4>5. Carried(n) => n \in Covers(next) \/ n \in forgotten'
        BY <1>15 DEF Carried
      <4>6. QED
        BY <4>1, <4>4, <4>5, <3>1, <3>4 DEF Reason, Queued
    <3>5. QED
      BY <3>1, <3>2, <3>3, <3>4 DEF full
  <2>2. Polled(n)' \/ dirty' \/ Carried(n)' \/ n \in forgotten' \/ Known(item[n], Disk(n))'
        \/ job' # NoJob
    BY <2>1, <1>7, <1>8, <1>12, <1>15
  <2>3. QED
    BY <2>2, <1>1 DEF Reason, Settled
<1>16. CASE ~busy /\ worker' = worker /\ forgotten' = forgotten \cup again /\ look = {}
            /\ ~next.gone /\ ~full
  <2>1. r = "none" /\ ~s /\ rootEvent = "none" /\ ~sweep
    BY <1>16, <1>3 DEF full
  <2>2. asked => n \in again
    <3>1. \A m \in Name : actionable[m] = NoItem
      BY <1>16 DEF look
    <3>2. QED
      BY <3>1 DEF Told, Priors
  <2>3. n \in Heard(pending) => n \in forgotten'
    BY <1>9, <2>1, <2>2, <1>16
  <2>4. Settled(n) \/ Polled(n) \/ n \in forgotten' \/ dirty \/ job # NoJob \/ Carried(n)
    BY <2>1, <2>3 DEF Reason, Queued
  <2>5. job' = job
    BY <2>1
  <2>6. QED
    BY <2>4, <2>5, <1>1, <1>7, <1>8, <1>13, <1>16 DEF Reason, Settled
<1>17. QED
  BY <1>1, <1>14, <1>15, <1>16

----------------------------------------------------------------------------
(* What a comparison comes to *)

(* The queue stays a queue. *)
LEMMA CompareTypes ==
  ASSUME TypeOK, seen # NoItem, Compare
  PROVE /\ seen' = at /\ rootEvent' = rootEvent
        /\ pending' \in [Name -> Event \cup {NoItem}] /\ sweep' \in BOOLEAN
        /\ forgotten \subseteq forgotten' /\ forgotten' \subseteq Name
<1>1. \A n \in Name : Events[n] \in Event \cup {NoItem}
  BY EventsType
<1>2. \A n \in Name : Events[n] # NoItem => Merge(pending[n], Events[n]) \in Event
  BY <1>1, MergeType DEF TypeOK
<1>3. seen' = at /\ rootEvent' = rootEvent
  BY DEF Compare
<1>4. CASE rootEvent # "none"
  BY <1>3, <1>4 DEF Compare, TypeOK
<1>5. CASE rootEvent = "none"
  <2>1. pending' = [n \in Name |-> IF Events[n] = NoItem THEN pending[n]
                                   ELSE Merge(pending[n], Events[n])]
    BY <1>5 DEF Compare
  <2>2. pending' \in [Name -> Event \cup {NoItem}]
    BY <2>1, <1>2 DEF TypeOK
  <2>3. sweep' \in BOOLEAN
    BY <1>5 DEF Compare, TypeOK
  <2>4. forgotten \subseteq forgotten' /\ forgotten' \subseteq Name
    <3>1. Priors(pending) \subseteq Name /\ Priors(Events) \subseteq Name
      BY DEF Priors
    <3>2. QED
      BY <3>1, <1>5 DEF Compare, TypeOK
  <2>5. QED
    BY <1>3, <2>2, <2>3, <2>4
<1>6. QED
  BY <1>4, <1>5

(* A name whose file has changed gets an event, or its file has moved and  *)
(* the event of the new name tells of it.                                  *)
LEMMA EventsTell ==
  ASSUME TypeOK, seen # NoItem, Unique(seen), NEW n \in Name, seen[n] # at[n]
  PROVE Events[n] # NoItem \/ (n \in Priors(Events) /\ at[n] = Nobody)
<1>1. at \in [Name -> Content] /\ seen \in [Name -> Content]
  BY DEF TypeOK
<1>2. ASSUME NEW m \in Name, \E k \in Name : Relocated(k, m)
      PROVE Events[m] = [RawEvent(m, CHOOSE k \in Name : Relocated(k, m)) EXCEPT !.kind = "other"]
  BY <1>2 DEF Events
<1>3. CASE \E k \in Name : Relocated(k, n)
  <2>1. PICK k \in Name : k = CHOOSE x \in Name : Relocated(x, n)
    BY <1>3
  <2>2. Events[n] = [RawEvent(n, k) EXCEPT !.kind = "other"]
    BY <1>2, <1>3, <2>1
  <2>3. [RawEvent(n, k) EXCEPT !.kind = "other"] \in Event
    BY <1>1 DEF RawEvent, Event
  <2>4. QED
    BY <2>2, <2>3, Parts
<1>4. CASE \E m \in Name : Relocated(n, m)
  <2>1. PICK m \in Name : Relocated(n, m)
    BY <1>4
  <2>2. \A k \in Name : Relocated(k, m) => k = n
    BY <2>1 DEF Relocated, Unique
  <2>3. (CHOOSE k \in Name : Relocated(k, m)) = n
    BY <2>1, <2>2
  <2>4. Events[m] = [RawEvent(m, n) EXCEPT !.kind = "other"]
    BY <1>2, <2>1, <2>3
  <2>5. [RawEvent(m, n) EXCEPT !.kind = "other"] \in Event
        /\ [RawEvent(m, n) EXCEPT !.kind = "other"].from = n
    BY <1>1 DEF RawEvent, Event
  <2>6. n \in Priors(Events)
    BY <2>4, <2>5, Parts DEF Priors
  <2>7. QED
    BY <2>1, <2>6 DEF Relocated
<1>5. CASE (~\E k \in Name : Relocated(k, n)) /\ (~\E m \in Name : Relocated(n, m))
  <2>1. Events[n] = RawEvent(n, Nobody)
    BY <1>5 DEF Events
  <2>2. RawEvent(n, Nobody) \in Event
    BY <1>1 DEF RawEvent, Event
  <2>3. QED
    BY <2>1, <2>2, Parts
<1>6. QED
  BY <1>3, <1>4, <1>5

(* A comparison loses no name: it becomes news, or was news, or is noted   *)
(* as forgotten.                                                           *)
LEMMA CompareAccounts ==
  ASSUME TypeOK, Distinct, there, seen # NoItem, Compare,
         NEW n \in Name, Settled(n) \/ Reason(n),
         at' = at, there' = there, item' = item
  PROVE Settled(n)' \/ Reason(n)'
<1>1. at \in [Name -> Content] /\ seen \in [Name -> Content]
  BY DEF TypeOK
<1>2. /\ seen' = at /\ rootEvent' = rootEvent /\ forgotten \subseteq forgotten'
      /\ pending' \in [Name -> Event \cup {NoItem}]
  BY CompareTypes
<1>3. Disk(n) = at[n] /\ Disk(n)' = at[n] /\ Loaded(n)' = Loaded(n)
  BY DEF Disk, Loaded
<1>4. Known(item[n], at[n]) => Settled(n)'
  BY <1>3 DEF Settled, Known
<1>5. CASE Settled(n)
  BY <1>2, <1>3, <1>4, <1>5 DEF Settled
<1>6. CASE ~Settled(n) /\ rootEvent = "none"
  <2>1. /\ pending' = [m \in Name |-> IF Events[m] = NoItem THEN pending[m]
                                     ELSE Merge(pending[m], Events[m])]
        /\ sweep' = (sweep \/ seen = at)
        /\ ((Priors(pending) \cup Priors(Events)) \ Told(pending')) \subseteq forgotten'
        /\ {m \in Name : seen # at /\ seen[m] = at[m] /\ ~Known(item[m], at[m])}
              \ Heard(pending') \subseteq forgotten'
    BY <1>6 DEF Compare
  <2>2. ~Known(item[n], at[n])
    BY <1>3, <1>6 DEF Settled
  <2>3. CASE seen = at
    BY <2>1, <2>3 DEF Reason, Queued
  <2>4. CASE seen # at /\ seen[n] = at[n]
    <3>1. n \in Heard(pending') \/ n \in forgotten'
      BY <2>1, <2>2, <2>4
    <3>2. Heard(pending') = Heard(pending)'
      BY DEF Heard, Loaded
    <3>3. QED
      BY <3>1, <3>2 DEF Reason, Queued, Settled
  <2>5. CASE seen[n] # at[n]
    <3>1. CASE Events[n] # NoItem
      <4>1. Events[n] \in Event
        BY <3>1, EventsType
      <4>2. pending'[n] \in Event
        BY <2>1, <3>1, <4>1, MergeType DEF TypeOK
      <4>3. n \in Heard(pending)'
        BY <4>2, Parts DEF Heard
      <4>4. QED
        BY <4>3 DEF Reason, Queued
    <3>2. CASE n \in Priors(Events) /\ at[n] = Nobody
      <4>1. Loaded(n)
        BY <2>2, <3>2 DEF Known, Loaded
      <4>2. n \in Told(pending') \/ n \in forgotten'
        BY <2>1, <3>2
      <4>3. n \in Told(pending') => n \in Heard(pending)'
        BY <4>1, <1>3 DEF Told, Heard, Priors
      <4>4. QED
        BY <4>2, <4>3 DEF Reason, Queued, Settled
    <3>3. QED
      BY <3>1, <3>2, <2>5, EventsTell DEF Distinct
  <2>6. QED
    BY <2>3, <2>4, <2>5
<1>7. CASE rootEvent = "restored"
  BY <1>2, <1>7 DEF Reason, Queued
<1>8. CASE ~Settled(n) /\ rootEvent = "lost"
  <2>1. /\ {m \in Name : seen # at /\ seen[m] = at[m] /\ ~Known(item[m], at[m])} \subseteq forgotten'
        /\ {m \in Name : seen[m] # at[m]} \subseteq forgotten'
        /\ pending' = pending /\ sweep' = sweep
    BY <1>8 DEF Compare
  <2>2. ~Known(item[n], at[n])
    BY <1>3, <1>8 DEF Settled
  <2>3. CASE seen # at
    BY <2>1, <2>2, <2>3 DEF Settled
  <2>4. CASE seen = at
    <3>1. sweep \/ n \in Heard(pending) \/ Loaded(n)
      BY <1>8, <2>4 DEF Reason, Polled, Queued
    <3>2. Heard(pending)' = Heard(pending)
      BY <2>1 DEF Heard, Loaded, Priors
    <3>3. QED
      BY <3>1, <3>2, <2>1, <1>2, <1>3, <1>8 DEF Reason, Queued
  <2>5. QED
    BY <2>3, <2>4
<1>9. QED
  BY <1>5, <1>6, <1>7, <1>8 DEF TypeOK

----------------------------------------------------------------------------
(* What a plan does to the items *)

(* An item moves from a name that has one to one name that has none, where *)
(* the worker has found a file.                                            *)
LEMMA MoveFacts ==
  ASSUME TypeOK
  PROVE /\ \A n, m \in Name : Moves(n, m) =>
              /\ Loaded(n) /\ n \in Asked /\ ~Loaded(m) /\ m \in NewFiles /\ m \in worker.look
              /\ worker.view[m] # Nobody
        /\ \A n, m, k \in Name : Moves(n, m) /\ Moves(n, k) => m = k
        /\ \A n, m : Moves(n, m) => n \in Name
<1>1. worker \in WorkerType
  BY DEF TypeOK, WorkerType
<1>2. Asked \subseteq Name
  BY <1>1 DEF Asked, WorkerType
<1>3. ASSUME NEW n \in Name, NEW m \in Name, Moves(n, m) PROVE m \in NewFiles
  <2>1. m \in {k \in NewFiles : worker.view[k].inode = item[n].base.inode}
    BY <1>3 DEF Moves
  <2>2. QED
    BY <2>1
<1>4. QED
  BY <1>2, <1>3 DEF Moves, NewFiles

(* An item that is refreshed is one or none.    *)
LEMMA ChangedType ==
  ASSUME NEW i \in Item, NEW c \in Content, NEW had \in BOOLEAN, NEW overlap \in BOOLEAN
  PROVE Refreshed(i, c, had, overlap) \in Item \cup {NoItem}
<1>1. \A s \in State, d \in Content : [i EXCEPT !.state = s, !.disk = d] \in Item
  BY DEF Item
<1>2. \A s \in State, d \in Content : [i EXCEPT !.disk = d, !.state = s] \in Item
  BY DEF Item
<1>3. ASSUME NEW s \in State PROVE [Read(c, s) EXCEPT !.proposal = i.proposal] \in Item
  BY DEF Item, Read, Content
<1>4. {"missing", "current", "conflict", "stale", "replaced", "changed"} \subseteq State
      /\ Nobody \in Content
  BY DEF State, Content
<1>5. QED
  BY <1>1, <1>2, <1>3, <1>4 DEF Refreshed

(* What becomes of an item that is followed. *)
IsFollowed(f, i, m, had) ==
    /\ f \in Item /\ f.state = "moved"
    /\ f.disk = IF had THEN worker.view[m] ELSE Nobody
    /\ f.proposal = i.proposal
    /\ i.proposal => f.base = i.base /\ f.shown = i.shown
    /\ ~i.proposal => f.shown = worker.view[m]

LEMMA FollowedIs ==
  ASSUME TypeOK, NEW i \in Item, NEW m \in Name, NEW had \in BOOLEAN
  PROVE IsFollowed(Followed(i, m, had), i, m, had)
<1> DEFINE j == IF i.proposal THEN i ELSE Read(worker.view[m], "moved")
           d == IF had THEN worker.view[m] ELSE Nobody
<1>1. worker.view[m] \in Content /\ d \in Content
  BY DEF TypeOK, Content
<1>2. j \in Item
  BY <1>1, Parts DEF State
<1>3. /\ j.proposal = i.proposal
      /\ i.proposal => j = i
      /\ ~i.proposal => j.shown = worker.view[m]
  BY DEF Read, Item
<1>4. Followed(i, m, had) = [j EXCEPT !.state = "moved", !.disk = d]
  BY DEF Followed
<1> HIDE DEF j, d
<1>5. [j EXCEPT !.state = "moved", !.disk = d] \in Item
  BY <1>1, <1>2 DEF Item, State
<1>6. LET f == [j EXCEPT !.state = "moved", !.disk = d]
      IN  f.state = "moved" /\ f.disk = d /\ f.proposal = j.proposal /\ f.base = j.base
          /\ f.shown = j.shown
  BY <1>2 DEF Item
<1>7. QED
  BY <1>3, <1>4, <1>5, <1>6 DEF d, IsFollowed

(* The ways a plan has with a name, and that there are no others. *)
WayMoved(m, i) == \E n \in Name : Moves(n, m) /\ i = Followed(item[n], m, n \in worker.had)
WayLeft(m, i) == (\E k \in Name : Moves(m, k)) /\ i = NoItem
WayNew(m, i) == m \in NewFiles /\ i = Read(worker.view[m], "changed")
WayAsked(m, i, o) == /\ m \in Asked /\ Loaded(m) /\ ~\E k \in Name : Moves(m, k)
                     /\ i = Refreshed(item[m], worker.view[m], m \in worker.had, o)
WayAlone(m, i) == /\ m \notin NewFiles /\ (m \in Asked => ~Loaded(m)) /\ i = item[m]

LEMMA PlanWays ==
  ASSUME TypeOK, ~worker.gone, NEW overlap, NEW m \in Name
  PROVE \/ WayMoved(m, Planned(overlap)[m]) \/ WayLeft(m, Planned(overlap)[m])
        \/ WayNew(m, Planned(overlap)[m]) \/ WayAsked(m, Planned(overlap)[m], m \in overlap)
        \/ WayAlone(m, Planned(overlap)[m])
<1>1. CASE \E n \in Name : Moves(n, m)
  <2>1. PICK n \in Name : Moves(n, m) /\ n = CHOOSE x \in Name : Moves(x, m)
    BY <1>1
  <2>2. Planned(overlap)[m] = Followed(item[n], m, n \in worker.had)
    BY <1>1, <2>1 DEF Planned
  <2>3. QED
    BY <2>1, <2>2 DEF WayMoved
<1>2. CASE ~(\E n \in Name : Moves(n, m)) /\ \E k \in Name : Moves(m, k)
  BY <1>2 DEF Planned, WayLeft
<1>3. CASE ~(\E n \in Name : Moves(n, m)) /\ ~(\E k \in Name : Moves(m, k)) /\ m \in NewFiles
  BY <1>3 DEF Planned, WayNew
<1>4. CASE /\ ~(\E n \in Name : Moves(n, m)) /\ ~(\E k \in Name : Moves(m, k))
           /\ m \notin NewFiles /\ m \in Asked /\ Loaded(m)
  BY <1>4 DEF Planned, WayAsked
<1>5. CASE /\ ~(\E n \in Name : Moves(n, m)) /\ ~(\E k \in Name : Moves(m, k))
           /\ m \notin NewFiles /\ ~(m \in Asked /\ Loaded(m))
  BY <1>5 DEF Planned, WayAlone
<1>6. QED
  BY <1>1, <1>2, <1>3, <1>4, <1>5

(* After a plan there is an item or none at a name. *)
LEMMA PlanTypes ==
  ASSUME TypeOK, NEW overlap
  PROVE Planned(overlap) \in [Name -> Item \cup {NoItem}]
<1>1. item \in [Name -> Item \cup {NoItem}] /\ worker \in WorkerType
  BY DEF TypeOK, WorkerType
<1>2. ASSUME NEW m \in Name PROVE Planned(overlap)[m] \in Item \cup {NoItem}
  <2>1. CASE worker.gone
    <3>1. Planned(overlap)[m] = IF Loaded(m) /\ item[m].state # "unavailable"
             THEN [item[m] EXCEPT !.state = "unavailable", !.disk = Nobody] ELSE item[m]
      BY <2>1 DEF Planned
    <3>2. Loaded(m) => [item[m] EXCEPT !.state = "unavailable", !.disk = Nobody] \in Item
      BY <1>1 DEF Loaded, Item, State, Content
    <3>3. QED
      BY <3>1, <3>2, <1>1
  <2>2. CASE ~worker.gone
    <3>1. worker.view[m] \in Content
      BY <1>1 DEF WorkerType
    <3>2. ASSUME WayMoved(m, Planned(overlap)[m]) PROVE Planned(overlap)[m] \in Item
      <4>1. PICK n \in Name : /\ Moves(n, m)
                              /\ Planned(overlap)[m] = Followed(item[n], m, n \in worker.had)
        BY <3>2 DEF WayMoved
      <4>2. item[n] \in Item
        BY <4>1, <1>1, MoveFacts DEF Loaded
      <4>3. (n \in worker.had) \in BOOLEAN
        OBVIOUS
      <4>4. IsFollowed(Followed(item[n], m, n \in worker.had), item[n], m, n \in worker.had)
        BY <4>2, <4>3, FollowedIs
      <4>5. QED
        BY <4>1, <4>4 DEF IsFollowed
    <3>3. WayNew(m, Planned(overlap)[m]) => Planned(overlap)[m] \in Item
      BY <3>1, Parts DEF WayNew, State
    <3>4. ASSUME WayAsked(m, Planned(overlap)[m], m \in overlap)
          PROVE Planned(overlap)[m] \in Item \cup {NoItem}
      <4>1. item[m] \in Item
        BY <3>4, <1>1 DEF WayAsked, Loaded
      <4>2. (m \in worker.had) \in BOOLEAN /\ (m \in overlap) \in BOOLEAN
        OBVIOUS
      <4>3. Refreshed(item[m], worker.view[m], m \in worker.had, m \in overlap)
               \in Item \cup {NoItem}
        BY <3>1, <4>1, <4>2, ChangedType
      <4>4. QED
        BY <3>4, <4>3 DEF WayAsked
    <3>5. QED
      BY <2>2, <3>2, <3>3, <3>4, PlanWays, <1>1 DEF WayLeft, WayAlone
  <2>3. QED
    BY <2>1, <2>2
<1>3. QED
  BY <1>2 DEF Planned

(* What becomes of an item that is looked at: it is gone, or said to be    *)
(* missing, or is as it was read, or waits for a decision, or is read      *)
(* again. Only without proposals does it go or get another file.           *)
Keeps(f, i) == f.proposal = i.proposal /\ f.base = i.base /\ f.shown = i.shown

IsRefreshed(f, i, c, had) ==
    \/ c = Nobody /\ ~had /\ f = NoItem
    \/ c = Nobody /\ had /\ f \in Item /\ f.state = "missing" /\ Keeps(f, i)
    \/ c # Nobody /\ c = i.base /\ f \in Item /\ f.state = "current" /\ Keeps(f, i)
    \/ c # Nobody /\ had /\ f \in Item /\ f.state \in {"conflict", "stale"} /\ Keeps(f, i)
    \/ /\ c # Nobody /\ ~had /\ f \in Item /\ f.state \in {"replaced", "changed"}
       /\ f.base = c /\ f.shown = c /\ f.proposal = i.proposal

LEMMA RefreshedIs ==
  ASSUME NEW i \in Item, NEW c \in Content, NEW had \in BOOLEAN, NEW o \in BOOLEAN
  PROVE IsRefreshed(Refreshed(i, c, had, o), i, c, had)
<1>1. c # Nobody \/ had => Refreshed(i, c, had, o) \in Item
  <2>1. \A s \in State, d \in Content : [i EXCEPT !.state = s, !.disk = d] \in Item
    BY DEF Item
  <2>2. \A s \in State, d \in Content : [i EXCEPT !.disk = d, !.state = s] \in Item
    BY DEF Item
  <2>3. ASSUME NEW s \in State PROVE [Read(c, s) EXCEPT !.proposal = i.proposal] \in Item
    BY DEF Item, Read, Content
  <2>4. {"missing", "current", "conflict", "stale", "replaced", "changed"} \subseteq State
        /\ Nobody \in Content
    BY DEF State, Content
  <2>5. QED
    BY <2>1, <2>2, <2>3, <2>4 DEF Refreshed
<1>2. CASE c = Nobody /\ ~had
  BY <1>2 DEF Refreshed, IsRefreshed
<1>3. CASE c = Nobody /\ had
  <2>1. Refreshed(i, c, had, o) = [i EXCEPT !.state = "missing", !.disk = Nobody]
    BY <1>3 DEF Refreshed
  <2>2. QED
    BY <2>1, <1>1, <1>3 DEF Item, Keeps, IsRefreshed
<1>4. CASE c # Nobody /\ c = i.base
  <2>1. \/ i.state = "current" /\ Refreshed(i, c, had, o) = i
        \/ Refreshed(i, c, had, o) = [i EXCEPT !.state = "current", !.disk = Nobody]
    BY <1>4 DEF Refreshed
  <2>2. QED
    BY <2>1, <1>1, <1>4 DEF Item, Keeps, IsRefreshed
<1>5. CASE c # Nobody /\ c # i.base /\ had
  <2>1. \E s \in {"conflict", "stale"} :
           Refreshed(i, c, had, o) = [i EXCEPT !.disk = c, !.state = s]
    BY <1>5 DEF Refreshed
  <2>2. QED
    BY <2>1, <1>1, <1>5 DEF Item, Keeps, IsRefreshed
<1>6. CASE c # Nobody /\ c # i.base /\ ~had
  <2>1. \E s \in {"replaced", "changed"} :
           Refreshed(i, c, had, o) = [Read(c, s) EXCEPT !.proposal = i.proposal]
    BY <1>6 DEF Refreshed
  <2>2. QED
    BY <2>1, <1>1, <1>6 DEF Item, Read, IsRefreshed
<1>7. QED
  BY <1>2, <1>3, <1>4, <1>5, <1>6

(* Where the list is not right after a plan, an item has gone, or an item  *)
(* shows tags that were written to another file, or the plan had nothing   *)
(* to do with the name.                                                    *)
LEMMA PlanExplains ==
  ASSUME TypeOK, Workers, Acceptable, NEW overlap, NEW n \in Name,
         ~Known(Planned(overlap)[n], Disk(n))
  PROVE \/ Loaded(n) /\ Planned(overlap)[n] = NoItem
        \/ /\ Planned(overlap)[n] # NoItem /\ ~Flagged(Planned(overlap)[n])
           /\ Planned(overlap)[n].shown # Planned(overlap)[n].base
        \/ Planned(overlap)[n] = item[n] /\ ~Carried(n)
<1> DEFINE i == Planned(overlap)[n]
<1>0. ~Known(i, Disk(n))
  OBVIOUS
<1>1. item[n] \in Item \cup {NoItem} /\ worker \in WorkerType /\ worker.view[n] \in Content
  BY DEF TypeOK, WorkerType
<1>2. worker.stage = "planned" /\ worker.current /\ Unchanged
  BY DEF Acceptable
<1>3. n \in Results => worker.view[n] = Disk(n)
  BY <1>2 DEF Unchanged
<1>4. n \in NewFiles => n \in Results
  BY DEF NewFiles, Results, Asked
<1>5. CASE worker.gone
  <2>1. i = IF Loaded(n) /\ item[n].state # "unavailable"
            THEN [item[n] EXCEPT !.state = "unavailable", !.disk = Nobody] ELSE item[n]
    BY <1>5 DEF Planned
  <2>2. CASE Loaded(n)
    <3>1. i \in Item /\ i.state = "unavailable"
      BY <2>1, <2>2, <1>1 DEF Loaded, Item, State, Content
    <3>2. i # NoItem
      BY <3>1, Parts
    <3>3. QED
      BY <1>0, <3>1, <3>2 DEF Known, Flagged
  <2>3. CASE ~Loaded(n)
    BY <2>1, <2>3, <1>5 DEF Carried, Covers
  <2>4. QED
    BY <2>2, <2>3
<1>6. CASE ~worker.gone
  <2>1. ASSUME WayMoved(n, i) PROVE FALSE
    <3>1. PICK k \in Name : Moves(k, n) /\ i = Followed(item[k], n, k \in worker.had)
      BY <2>1 DEF WayMoved
    <3>2. Loaded(k) /\ n \in NewFiles /\ worker.view[n] # Nobody
      BY <3>1, MoveFacts
    <3>3. item[k] \in Item
      BY <3>2 DEF Loaded, TypeOK
    <3>4. (k \in worker.had) \in BOOLEAN
      OBVIOUS
    <3>9. IsFollowed(Followed(item[k], n, k \in worker.had), item[k], n, k \in worker.had)
      BY <3>3, <3>4, FollowedIs
    <3>5. /\ i \in Item /\ i.state = "moved"
          /\ i.disk = IF k \in worker.had THEN worker.view[n] ELSE Nobody
          /\ ~item[k].proposal => i.shown = worker.view[n]
      BY <3>9, <3>1 DEF IsFollowed
    <3>6. item[k].proposal => k \in worker.had
      BY <3>2, <1>2 DEF Workers, Proposed
    <3>7. worker.view[n] = Disk(n)
      BY <3>2, <1>3, <1>4
    <3>10. i # NoItem
      BY <3>5, Parts
    <3>8. QED
      BY <1>0, <3>2, <3>5, <3>6, <3>7, <3>10 DEF Known, Flagged
  <2>2. WayLeft(n, i) => Loaded(n) /\ i = NoItem
    BY MoveFacts DEF WayLeft
  <2>3. ASSUME WayNew(n, i) PROVE FALSE
    <3>1. i.shown = worker.view[n] /\ worker.view[n] = Disk(n)
      BY <2>3, <1>3, <1>4 DEF WayNew, Read
    <3>2. i # NoItem
      BY <2>3, <1>1, Parts DEF WayNew, State
    <3>3. QED
      BY <3>1, <3>2 DEF Known
  <2>4. ASSUME WayAsked(n, i, n \in overlap)
        PROVE \/ Loaded(n) /\ i = NoItem
              \/ i # NoItem /\ ~Flagged(i) /\ i.shown # i.base
              \/ i = item[n] /\ ~Carried(n)
    <3>1. /\ n \in Asked /\ Loaded(n) /\ (~\E k \in Name : Moves(n, k))
          /\ i = Refreshed(item[n], worker.view[n], n \in worker.had, n \in overlap)
      BY <2>4 DEF WayAsked
    <3>2. item[n] \in Item
      BY <3>1, <1>1 DEF Loaded
    <3>3. (n \in worker.had) \in BOOLEAN /\ (n \in overlap) \in BOOLEAN
      OBVIOUS
    <3>9. IsRefreshed(Refreshed(item[n], worker.view[n], n \in worker.had, n \in overlap),
                      item[n], worker.view[n], n \in worker.had)
      BY <3>2, <3>3, <1>1, RefreshedIs
    <3>4. \/ i = NoItem /\ worker.view[n] = Nobody
          \/ worker.view[n] = Nobody /\ i.state = "missing"
          \/ worker.view[n] = item[n].base /\ i \in Item /\ i.state = "current" /\ Keeps(i, item[n])
          \/ i.state \in {"conflict", "stale"}
          \/ i.shown = worker.view[n]
      BY <3>9, <3>1 DEF IsRefreshed
    <3>5. i # NoItem => i.shown # Disk(n) /\ ~Flagged(i)
      BY <1>0 DEF Known
    <3>6. CASE worker.view[n] # item[n].base \/ item[n].state # "current"
      <4>1. n \in Results
        BY <3>1, <3>6 DEF Results
      <4>2. worker.view[n] = Disk(n)
        BY <4>1, <1>3
      <4>3. i = NoItem \/ (i.state \notin {"missing", "conflict", "stale"} /\ i.shown # worker.view[n])
        BY <3>5, <4>2 DEF Flagged
      <4>4. \/ i = NoItem
            \/ i \in Item /\ i.state = "current" /\ Keeps(i, item[n]) /\ worker.view[n] = item[n].base
        BY <4>3, <3>4
      <4>5. i # NoItem => i.shown # i.base
        BY <4>3, <4>4 DEF Keeps
      <4>6. QED
        BY <4>5, <3>1, <3>5
    <3>7. CASE worker.view[n] = item[n].base /\ item[n].state = "current"
      <4>1. worker.view[n] # Nobody => i = item[n]
        BY <3>1, <3>7 DEF Refreshed
      <4>2. worker.view[n] = Nobody => i = NoItem \/ i.state = "missing"
        BY <3>9, <3>1 DEF IsRefreshed
      <4>3. worker.view[n] = Nobody => i = NoItem
        BY <4>2, <3>5 DEF Flagged
      <4>4. CASE worker.view[n] # Nobody /\ i.shown = i.base
        <5>1. worker.view[n] # Disk(n)
          BY <4>1, <4>4, <3>2, <3>5, <3>7, Parts
        <5>2. QED
          BY <5>1, <4>1, <4>4, <1>2, <1>6 DEF Carried
      <4>5. QED
        BY <4>1, <4>3, <4>4, <3>1, <3>2, <3>5, Parts
    <3>8. QED
      BY <3>6, <3>7
  <2>5. ASSUME WayAlone(n, i) PROVE i = item[n] /\ ~Carried(n)
    <3>1. CASE n \in Asked
      <4>1. i = NoItem /\ ~Loaded(n)
        BY <2>5, <3>1 DEF WayAlone, Loaded
      <4>2. n \in worker.look
        BY <3>1, <4>1, <1>2 DEF Asked, Workers
      <4>3. worker.view[n] = Nobody
        BY <4>1, <4>2, <2>5 DEF WayAlone, NewFiles
      <4>4. Disk(n) # Nobody
        BY <4>1 DEF Known
      <4>5. QED
        BY <2>5, <4>3, <4>4, <1>2, <1>6 DEF Carried, WayAlone
    <3>2. CASE n \notin Asked
      BY <3>2, <2>5, <1>6 DEF WayAlone, Carried, Covers, Asked, Workers
    <3>3. QED
      BY <3>1, <3>2
  <2>6. QED
    BY <2>1, <2>2, <2>3, <2>4, <2>5, <1>6, PlanWays
<1>7. QED
  BY <1>5, <1>6

(* What following the directories after a plan comes to for a name where   *)
(* the list is not right: it is noted as forgotten unless the plan left    *)
(* its item alone; then nothing of the watch changes, or the watch is lost *)
(* and the timer runs.                                                     *)
LEMMA Updating ==
  ASSUME NEW items, UpdateDirectories(items), NEW n \in Name, ~Known(items[n], Disk(n))
  PROVE /\ n \in forgotten => n \in forgotten'
        /\ Loaded(n) /\ items[n] = NoItem => n \in forgotten'
        /\ items[n] # NoItem /\ ~Flagged(items[n]) /\ items[n].shown # items[n].base
             => n \in forgotten'
        /\ \/ n \in forgotten'
           \/ dirty' = dirty /\ seen' = seen
           \/ polling /\ ~there
<1> DEFINE unsure == {x \in Name : ~Known(items[x], Disk(x))}
           hidden == {x \in Name : /\ items[x] # NoItem /\ ~Flagged(items[x])
                                   /\ items[x].shown # items[x].base}
           behind == {x \in unsure : Loaded(x) /\ items[x] = NoItem}
           settled == IF worker.gone THEN {} ELSE Covers(worker) \ unsure
           left   == (forgotten \ settled) \cup hidden \cup behind
           vanished == ~worker.gone /\ ~there /\ seen # NoItem
           returned == worker.full /\ there /\ seen = NoItem
<1>1. \/ /\ ~vanished /\ ~returned
         /\ forgotten' = left /\ UNCHANGED <<dirty, wired, seen>>
      \/ /\ vanished
         /\ seen' = NoItem /\ wired' = FALSE /\ dirty' = FALSE
         /\ forgotten' = IF polling THEN left ELSE Name
      \/ /\ returned
         /\ seen' = at /\ wired' = TRUE /\ UNCHANGED dirty
         /\ forgotten' = left \cup unsure
  BY DEF UpdateDirectories
<1>2. n \in unsure /\ n \notin settled
  OBVIOUS
<1> HIDE DEF unsure, settled
<1>3. left \subseteq forgotten' \/ forgotten' = Name
  BY <1>1
<1>4. n \in forgotten => n \in left
  BY <1>2
<1>5. Loaded(n) /\ items[n] = NoItem => n \in left
  BY <1>2
<1>6. items[n] # NoItem /\ ~Flagged(items[n]) /\ items[n].shown # items[n].base => n \in left
  OBVIOUS
<1>7. n \in forgotten' \/ (dirty' = dirty /\ seen' = seen) \/ (polling /\ ~there)
  BY <1>1, <1>2
<1> HIDE DEF left
<1>8. QED
  BY <1>3, <1>4, <1>5, <1>6, <1>7

(* Accepting a plan loses no name. *)
LEMMA PlanAccounts ==
  ASSUME TypeOK, Workers, Jobs, AcceptPlan, NEW n \in Name, Settled(n) \/ Reason(n)
  PROVE Settled(n)' \/ Reason(n)'
<1>1. Acceptable
  BY DEF AcceptPlan
<1>2. PICK overlap \in SUBSET {x \in Asked : x \in worker.had} :
         item' = Planned(overlap) /\ UpdateDirectories(Planned(overlap))
  BY DEF AcceptPlan
<1>3. /\ worker' = NoWorker /\ at' = at /\ there' = there /\ polling' = polling
      /\ pending' = pending /\ rootEvent' = rootEvent /\ sweep' = sweep
  BY DEF AcceptPlan, diskVars, queueVars
<1>4. job # NoJob => job' # NoJob
  <2>1. job' = [job EXCEPT !.live = [k \in Name |-> IF \E m \in Name : Moves(@[k], m)
                                     THEN CHOOSE m \in Name : Moves(@[k], m) ELSE @[k]]]
    BY DEF AcceptPlan
  <2>2. job'.stage = job.stage
    BY <2>1 DEF TypeOK
  <2>3. QED
    BY <2>2 DEF Jobs, NoJob
<1> DEFINE i == Planned(overlap)[n]
<1>5. Disk(n)' = Disk(n) /\ item'[n] = i
  BY <1>2, <1>3 DEF Disk
<1>6. CASE Known(i, Disk(n))
  <2>1. Known(item[n], Disk(n))' = Known(i, Disk(n))
    BY <1>5 DEF Known
  <2>2. QED
    BY <2>1, <1>6 DEF Settled
<1>7. CASE ~Known(i, Disk(n))
  <2>1. /\ n \in forgotten => n \in forgotten'
        /\ Loaded(n) /\ i = NoItem => n \in forgotten'
        /\ i # NoItem /\ ~Flagged(i) /\ i.shown # i.base => n \in forgotten'
        /\ n \in forgotten' \/ (dirty' = dirty /\ seen' = seen) \/ (polling /\ ~there)
    BY <1>2, <1>7, Updating
  <2>2. n \in forgotten' \/ (i = item[n] /\ ~Carried(n))
    BY <2>1, <1>1, <1>7, PlanExplains
  <2>3. CASE n \in forgotten'
    BY <2>3 DEF Settled
  <2>4. CASE polling /\ ~there
    BY <2>4, <1>3 DEF Reason, Polled
  <2>5. CASE n \notin forgotten' /\ dirty' = dirty /\ seen' = seen
    <3>1. i = item[n] /\ ~Carried(n) /\ n \notin forgotten
      BY <2>1, <2>2, <2>5
    <3>2. ~Settled(n)
      BY <3>1, <1>7 DEF Settled
    <3>3. Loaded(n)' = Loaded(n)
      BY <3>1, <1>5 DEF Loaded
    <3>4. n \in Heard(pending) => n \in Heard(pending)'
      BY <3>3, <1>3 DEF Heard, Priors
    <3>5. Polled(n) => Polled(n)'
      BY <2>5, <1>3 DEF Polled
    <3>6. Queued(n) => Queued(n)'
      BY <3>4, <1>3 DEF Queued
    <3>7. QED
      BY <3>1, <3>2, <3>3, <3>5, <3>6, <2>5, <1>3, <1>4 DEF Reason
  <2>6. QED
    BY <2>1, <2>3, <2>4, <2>5
<1>8. QED
  BY <1>6, <1>7

(* A plan keeps every proposal with the file it was made for, and makes    *)
(* none.                                                                   *)
LEMMA PlanKeeps ==
  ASSUME TypeOK, Workers, Acceptable, Apart, NEW overlap
  PROVE /\ \A n, m \in Name : Proposed(n) /\ Moves(n, m) =>
              Planned(overlap)[m] # NoItem /\ Keeps(Planned(overlap)[m], item[n])
        /\ \A n \in Name : Proposed(n) /\ (~\E m \in Name : Moves(n, m)) =>
              Planned(overlap)[n] # NoItem /\ Keeps(Planned(overlap)[n], item[n])
        /\ \A m \in Name : Planned(overlap)[m] # NoItem /\ Planned(overlap)[m].proposal =>
              \E n \in Name : Proposed(n) /\ Keeps(Planned(overlap)[m], item[n])
<1>1. item \in [Name -> Item \cup {NoItem}] /\ worker \in WorkerType
  BY DEF TypeOK, WorkerType
<1>2. \A n \in Name : Proposed(n) => n \in worker.had
  BY DEF Workers, Acceptable
<1>3. CASE worker.gone
  <2>1. ASSUME NEW m \in Name
        PROVE Loaded(m) => Planned(overlap)[m] \in Item /\ Keeps(Planned(overlap)[m], item[m])
    <3>1. Planned(overlap)[m] = IF Loaded(m) /\ item[m].state # "unavailable"
             THEN [item[m] EXCEPT !.state = "unavailable", !.disk = Nobody] ELSE item[m]
      BY <1>3 DEF Planned
    <3>2. CASE item[m] \in Item
      <4>1. [item[m] EXCEPT !.state = "unavailable", !.disk = Nobody] \in Item
        BY <3>2 DEF Item, State, Content
      <4>2. Keeps([item[m] EXCEPT !.state = "unavailable", !.disk = Nobody], item[m])
        BY <3>2 DEF Item, Keeps
      <4>3. Keeps(item[m], item[m])
        BY DEF Keeps
      <4>4. QED
        BY <3>1, <3>2, <4>1, <4>2, <4>3
    <3>3. QED
      BY <3>2, <1>1 DEF Loaded
  <2>2. ASSUME NEW m \in Name, Planned(overlap)[m] # NoItem PROVE Loaded(m)
    BY <2>2, <1>3 DEF Planned, Loaded
  <2>3. \A m \in Name : ~\E n \in Name : Moves(n, m)
    <3>1. worker.look = {} /\ worker.old = {}
      BY <1>3 DEF Workers
    <3>2. QED
      BY <3>1, MoveFacts
  <2>4. QED
    BY <2>1, <2>2, <2>3, Parts DEF Proposed, Keeps
<1>4. CASE ~worker.gone
  <2>1. ASSUME NEW m \in Name, NEW n \in Name, Moves(n, m)
        PROVE /\ IsFollowed(Planned(overlap)[m], item[n], m, n \in worker.had)
    <3>1. n = CHOOSE x \in Name : Moves(x, m)
      BY <2>1 DEF Apart
    <3>2. Planned(overlap)[m] = Followed(item[n], m, n \in worker.had)
      BY <1>4, <2>1, <3>1 DEF Planned
    <3>3. item[n] \in Item
      BY <1>1, <2>1, MoveFacts DEF Loaded
    <3>4. (n \in worker.had) \in BOOLEAN
      OBVIOUS
    <3>5. QED
      BY <3>2, <3>3, <3>4, FollowedIs
  <2>2. ASSUME NEW m \in Name, WayAsked(m, Planned(overlap)[m], m \in overlap)
        PROVE IsRefreshed(Planned(overlap)[m], item[m], worker.view[m], m \in worker.had)
    <3>1. item[m] \in Item /\ worker.view[m] \in Content
      BY <1>1, <2>2 DEF WayAsked, Loaded, WorkerType
    <3>2. (m \in worker.had) \in BOOLEAN /\ (m \in overlap) \in BOOLEAN
      OBVIOUS
    <3>3. QED
      BY <2>2, <3>1, <3>2, RefreshedIs DEF WayAsked
  <2>3. ASSUME NEW n \in Name, Proposed(n), ~\E m \in Name : Moves(n, m)
        PROVE Planned(overlap)[n] # NoItem /\ Keeps(Planned(overlap)[n], item[n])
    <3>1. ~WayMoved(n, Planned(overlap)[n]) /\ ~WayLeft(n, Planned(overlap)[n])
          /\ ~WayNew(n, Planned(overlap)[n])
      BY <2>3, MoveFacts DEF WayMoved, WayLeft, WayNew, NewFiles, Proposed
    <3>2. CASE WayAlone(n, Planned(overlap)[n])
      BY <3>2, <2>3 DEF WayAlone, Proposed, Loaded, Keeps
    <3>3. CASE WayAsked(n, Planned(overlap)[n], n \in overlap)
      <4>1. IsRefreshed(Planned(overlap)[n], item[n], worker.view[n], n \in worker.had)
        BY <2>2, <3>3
      <4>2. n \in worker.had
        BY <2>3, <1>2
      <4>3. QED
        BY <4>1, <4>2, Parts DEF IsRefreshed
    <3>4. QED
      BY <1>4, <3>1, <3>2, <3>3, PlanWays
  <2>4. ASSUME NEW n \in Name, NEW m \in Name, Proposed(n), Moves(n, m)
        PROVE Planned(overlap)[m] # NoItem /\ Keeps(Planned(overlap)[m], item[n])
    <3>1. item[n].proposal
      BY <2>4 DEF Proposed
    <3>2. QED
      BY <2>1, <2>4, <3>1, Parts DEF IsFollowed, Keeps
  <2>5. ASSUME NEW m \in Name, Planned(overlap)[m] # NoItem, Planned(overlap)[m].proposal
        PROVE \E n \in Name : Proposed(n) /\ Keeps(Planned(overlap)[m], item[n])
    <3>1. ASSUME NEW n \in Name, Moves(n, m)
          PROVE Proposed(n) /\ Keeps(Planned(overlap)[m], item[n])
      BY <3>1, <2>1, <2>5, MoveFacts DEF IsFollowed, Keeps, Proposed
    <3>2. CASE WayMoved(m, Planned(overlap)[m])
      BY <3>1, <3>2 DEF WayMoved
    <3>3. CASE WayNew(m, Planned(overlap)[m])
      BY <3>3, <2>5 DEF WayNew, Read
    <3>4. CASE WayAlone(m, Planned(overlap)[m])
      BY <3>4, <2>5 DEF WayAlone, Proposed, Loaded, Keeps
    <3>5. CASE WayAsked(m, Planned(overlap)[m], m \in overlap)
      <4>1. IsRefreshed(Planned(overlap)[m], item[m], worker.view[m], m \in worker.had)
        BY <2>2, <3>5
      <4>2. Loaded(m)
        BY <3>5 DEF WayAsked
      <4>3. Planned(overlap)[m].proposal = item[m].proposal
        BY <4>1, <2>5 DEF IsRefreshed, Keeps
      <4>4. m \in worker.had
        BY <4>2, <4>3, <2>5, <1>2 DEF Proposed
      <4>5. Keeps(Planned(overlap)[m], item[m])
        BY <4>1, <4>4, <2>5 DEF IsRefreshed
      <4>6. QED
        BY <4>2, <4>3, <4>5, <2>5 DEF Proposed
    <3>6. QED
      BY <1>4, <2>5, <3>2, <3>3, <3>4, <3>5, PlanWays DEF WayLeft
  <2>6. QED
    BY <2>3, <2>4, <2>5
<1>5. QED
  BY <1>3, <1>4

----------------------------------------------------------------------------
(* The steps, and what each of them leaves alone *)

(* Every step is one of these, or stutters. *)
LEMMA Steps ==
  ASSUME [Next]_vars
  PROVE \/ DirectoryChanged \/ Poll \/ Flush \/ Look \/ WorkerFails \/ PlanIsStale
        \/ PlanIsRefused \/ AcceptPlan \/ ManualRefresh \/ Prune \/ CheckSources
        \/ EndWrites \/ Recapture \/ Finish \/ Vanish \/ Return
        \/ \E n \in Name : Edit(n) \/ Resolve(n) \/ RecycleFile(n) \/ WriteFile(n)
        \/ \E n \in Name : WriteInPlace(n) \/ PutFile(n) \/ RemoveFile(n)
        \/ \E n, m \in Name : RenameFile(n, m) \/ MoveFile(n, m)
        \/ \E S \in SUBSET Name : BeginApply(S)
        \/ UNCHANGED vars
BY DEF Next, Watch, Refresh, Operate, Others

(* What a step does not touch. *)
LEMMA Frames ==
  /\ DirectoryChanged =>
        UNCHANGED <<at, there, clock, wired, paused, worker, item, reviewable, own, job,
                    budget>>
  /\ Poll =>
        UNCHANGED <<at, there, clock, dirty, polling, paused, worker, item, reviewable, own,
                    job, budget>>
  /\ Flush =>
        UNCHANGED <<at, there, clock, dirty, wired, seen, polling, paused, item, reviewable,
                    own, job, budget>>
  /\ Look =>
        UNCHANGED <<at, there, clock, dirty, wired, seen, polling, paused, pending,
                    rootEvent, sweep, item, reviewable, own, job, budget, forgotten>>
  /\ WorkerFails =>
        UNCHANGED <<at, there, clock, dirty, wired, seen, polling, paused, pending,
                    rootEvent, sweep, item, reviewable, own, job, budget>>
  /\ PlanIsStale =>
        UNCHANGED <<at, there, clock, dirty, wired, seen, polling, paused, item, reviewable,
                    own, job, budget>>
  /\ PlanIsRefused =>
        UNCHANGED <<at, there, clock, dirty, wired, seen, polling, paused, pending,
                    rootEvent, sweep, item, reviewable, own, job, budget>>
  /\ AcceptPlan =>
        UNCHANGED <<at, there, clock, polling, paused, pending, rootEvent, sweep, own,
                    budget>>
  /\ ManualRefresh =>
        UNCHANGED <<at, there, clock, dirty, wired, seen, polling, paused, item, reviewable,
                    own, job, budget>>
  /\ Prune =>
        UNCHANGED <<at, there, clock, dirty, wired, seen, polling, paused, pending,
                    rootEvent, sweep, worker, item, reviewable, job, budget, forgotten>>
  /\ \A n : Edit(n) =>
        UNCHANGED <<at, there, clock, dirty, wired, seen, polling, paused, pending,
                    rootEvent, sweep, own, job, forgotten>>
  /\ \A n : Resolve(n) =>
        UNCHANGED <<at, there, clock, dirty, wired, seen, polling, paused, pending,
                    rootEvent, sweep, own, job, budget, forgotten>>
  /\ \A n : RecycleFile(n) =>
        UNCHANGED <<there, clock, wired, seen, polling, paused, job>>
  /\ \A n, m : RenameFile(n, m) =>
        UNCHANGED <<there, clock, wired, seen, polling, paused, job>>
  /\ \A S : BeginApply(S) =>
        UNCHANGED <<at, there, clock, dirty, wired, seen, polling, pending, rootEvent,
                    sweep, worker, item, reviewable, forgotten>>
  /\ CheckSources =>
        UNCHANGED <<at, there, clock, dirty, wired, seen, polling, paused, pending,
                    rootEvent, sweep, worker, item, reviewable, own, budget, forgotten>>
  /\ \A n : WriteFile(n) =>
        UNCHANGED <<there, wired, seen, polling, paused, pending, rootEvent, sweep, worker,
                    reviewable, own, budget>>
  /\ EndWrites =>
        UNCHANGED <<at, there, clock, dirty, wired, seen, polling, paused, pending,
                    rootEvent, sweep, worker, item, reviewable, own, budget, forgotten>>
  /\ Recapture =>
        UNCHANGED <<at, there, clock, dirty, wired, seen, polling, paused, pending,
                    rootEvent, sweep, own, budget, forgotten>>
  /\ Finish =>
        UNCHANGED <<at, there, clock, dirty, wired, seen, polling, item, reviewable, budget>>
  /\ \A n : WriteInPlace(n) =>
        UNCHANGED <<there, wired, seen, polling, paused, pending, rootEvent, sweep, worker,
                    item, reviewable, own, job>>
  /\ \A n : PutFile(n) =>
        UNCHANGED <<there, wired, seen, polling, paused, pending, rootEvent, sweep, worker,
                    item, reviewable, own, job>>
  /\ \A n : RemoveFile(n) =>
        UNCHANGED <<there, wired, seen, polling, paused, pending, rootEvent, sweep, worker,
                    item, reviewable, own, job>>
  /\ \A n, m : MoveFile(n, m) =>
        UNCHANGED <<there, wired, seen, polling, paused, pending, rootEvent, sweep, worker,
                    item, reviewable, own, job>>
  /\ Vanish =>
        UNCHANGED <<at, clock, seen, polling, paused, pending, rootEvent, sweep, worker,
                    item, reviewable, own, job>>
  /\ Return =>
        UNCHANGED <<at, clock, dirty, wired, seen, polling, paused, pending, rootEvent,
                    sweep, worker, item, reviewable, own, job, budget>>
BY DEF DirectoryChanged, Poll, Flush, Look, WorkerFails, PlanIsStale, PlanIsRefused, AcceptPlan,
       ManualRefresh, Prune, Edit, Resolve, RecycleFile, RenameFile, BeginApply, CheckSources,
       WriteFile, EndWrites, Recapture, Finish, WriteInPlace, PutFile, RemoveFile, MoveFile, Elsewhere,
       Vanish, Return, diskVars, watchVars, queueVars, itemVars

(* The queue is drained with the news that is in it; all: a full pass is   *)
(* asked for.                                                              *)
Drain(busy, current, all) ==
    \E r \in {"none", "lost", "restored"}, s \in BOOLEAN :
        /\ Serve(r, s, busy, current)
        /\ sweep => s
        /\ r = rootEvent \/ (r = "lost" /\ ~there)
        /\ all => r # "none" \/ s
(* A full pass waits in the queue. *)
Defer == /\ rootEvent' = ManualRoot /\ sweep' = ManualSweep
         /\ pending' = pending /\ forgotten' = forgotten
(* A worker has been started. *)
Fresh(current) == \E r \in {"none", "lost", "restored"}, s \in BOOLEAN : Started(r, s, current)

(* A full pass is about a lost directory, or restored one, or all of it. *)
LEMMA ManualIs ==
  ASSUME TypeOK
  PROVE /\ ManualRoot \in {"none", "lost", "restored"} /\ ManualSweep \in BOOLEAN
        /\ ManualRoot # "none" \/ ManualSweep
        /\ sweep => ManualSweep
        /\ ManualRoot = rootEvent \/ (ManualRoot = "lost" /\ ~there)
BY DEF TypeOK, ManualRoot, ManualSweep

(* The steps that drain the queue, or leave a full pass in it. *)
LEMMA Drainers ==
  ASSUME TypeOK
  PROVE /\ Flush => Drain(FALSE, TRUE, FALSE)
        /\ PlanIsStale => Drain(FALSE, TRUE, TRUE) \/ (Defer /\ worker' = NoWorker)
        /\ ManualRefresh => Drain(FALSE, TRUE, TRUE) \/ (Defer /\ worker' = worker)
        /\ \A n, m : RenameFile(n, m) =>
              Drain(FALSE, FALSE, TRUE) \/ (Drain(FALSE, TRUE, TRUE) /\ UNCHANGED <<at, item>>)
        /\ \A n : RecycleFile(n) => Drain(FALSE, FALSE, TRUE)
        /\ Finish => \E busy \in BOOLEAN : Drain(busy, TRUE, TRUE)
<1>1. Flush => Drain(FALSE, TRUE, FALSE)
  BY DEF Flush, Drain, TypeOK
<1>2. \A busy, current \in BOOLEAN :
         Serve(ManualRoot, ManualSweep, busy, current) => Drain(busy, current, TRUE)
  BY ManualIs DEF Drain
<1>3. PlanIsStale => Drain(FALSE, TRUE, TRUE) \/ (Defer /\ worker' = NoWorker)
  BY <1>2 DEF PlanIsStale, Defer
<1>4. ManualRefresh => Drain(FALSE, TRUE, TRUE) \/ (Defer /\ worker' = worker)
  BY <1>2 DEF ManualRefresh, Defer
<1>5. \A n, m : RenameFile(n, m) =>
         Drain(FALSE, FALSE, TRUE) \/ (Drain(FALSE, TRUE, TRUE) /\ UNCHANGED <<at, item>>)
  BY <1>2 DEF RenameFile, Operated, itemVars
<1>6. \A n : RecycleFile(n) => Drain(FALSE, FALSE, TRUE)
  BY <1>2 DEF RecycleFile, Operated
<1>7. Finish => \E busy \in BOOLEAN : Drain(busy, TRUE, TRUE)
  BY <1>2 DEF Finish
<1>8. QED
  BY <1>1, <1>3, <1>4, <1>5, <1>6, <1>7

(* What draining the queue leaves. *)
LEMMA DrainLeaves ==
  ASSUME TypeOK, NEW busy \in BOOLEAN, NEW current \in BOOLEAN, NEW all \in BOOLEAN,
         Drain(busy, current, all)
  PROVE /\ pending' = [n \in Name |-> NoItem] /\ rootEvent' = "none" /\ sweep' = FALSE
        /\ forgotten \subseteq forgotten' /\ forgotten' \subseteq Name
        /\ worker' = worker \/ Fresh(current)
        /\ worker' \in WorkerType
        /\ ~busy /\ all => Fresh(current)
<1>1. PICK r \in {"none", "lost", "restored"}, s \in BOOLEAN :
         Serve(r, s, busy, current) /\ (all => r # "none" \/ s)
  BY DEF Drain
<1>2. /\ pending' = [n \in Name |-> NoItem] /\ rootEvent' = "none" /\ sweep' = FALSE
      /\ forgotten \subseteq forgotten' /\ forgotten' \subseteq Name
      /\ worker' = worker \/ Started(r, s, current)
      /\ ~busy /\ (r # "none" \/ s) => Started(r, s, current)
  BY <1>1, Serving
<1>3. Started(r, s, current) => Fresh(current)
  BY DEF Fresh
<1>4. worker' \in WorkerType
  BY <1>2 DEF Started, TypeOK, WorkerType
<1>5. QED
  BY <1>1, <1>2, <1>3, <1>4

(* A full pass that waits is one. *)
LEMMA DeferLeaves ==
  ASSUME TypeOK, Defer
  PROVE /\ rootEvent' \in {"none", "lost", "restored"} /\ sweep' \in BOOLEAN
        /\ pending' = pending /\ forgotten' = forgotten
BY ManualIs DEF Defer

----------------------------------------------------------------------------
(* TypeOK, a component at a time *)

DiskTypes == at \in [Name -> Content] /\ there \in BOOLEAN /\ clock \in 0 .. MaxTime
WatchTypes == /\ dirty \in BOOLEAN /\ wired \in BOOLEAN /\ polling \in BOOLEAN
              /\ seen \in [Name -> Content] \cup {NoItem}
QueueTypes == /\ paused \in BOOLEAN /\ sweep \in BOOLEAN
              /\ pending \in [Name -> Event \cup {NoItem}]
              /\ rootEvent \in {"none", "lost", "restored"}
ItemTypes == item \in [Name -> Item \cup {NoItem}] /\ reviewable \subseteq Name
RestTypes == budget \in 0 .. MaxActs /\ forgotten \subseteq Name

(* A file that is made has a type while the clock may go on. *)
LEMMA NewFileType ==
  ASSUME clock \in 0 .. MaxTime, clock < MaxTime
  PROVE NewFile \in Content /\ clock + 1 \in 0 .. MaxTime
BY BoundsAssumption DEF NewFile, Content, Identity

(* Nothing of what a step of another program changes loses its type. *)
LEMMA DiskTypesStep ==
  ASSUME TypeOK, [Next]_vars
  PROVE DiskTypes'
<1>1. at \in [Name -> Content] /\ there \in BOOLEAN /\ clock \in 0 .. MaxTime
  BY DEF TypeOK
<1>2. clock < MaxTime => NewFile \in Content /\ clock + 1 \in 0 .. MaxTime
  BY <1>1, NewFileType
<1>3. Nobody \in Content
  BY DEF Content
<1>4. ASSUME NEW n \in Name, WriteFile(n) PROVE DiskTypes'
  <2>1. there' = there
    BY <1>4, Frames
  <2>2. \/ clock < MaxTime /\ clock' = clock + 1 /\ at' = [at EXCEPT ![n] = NewFile]
        \/ clock' = clock /\ at' = at
    BY <1>4 DEF WriteFile
  <2>3. QED
    BY <2>1, <2>2, <1>1, <1>2 DEF DiskTypes
<1>5. ASSUME NEW n \in Name, WriteInPlace(n) PROVE DiskTypes'
  <2>1. there' = there
    BY <1>5, Frames
  <2>2. /\ clock < MaxTime /\ clock' = clock + 1 /\ at[n] # Nobody
        /\ at' = [at EXCEPT ![n].time = clock']
    BY <1>5 DEF WriteInPlace
  <2>3. [at[n] EXCEPT !.time = clock'] \in Content
    BY <2>2, <1>1, <1>2 DEF Content, Identity
  <2>4. QED
    BY <2>1, <2>2, <2>3, <1>1, <1>2 DEF DiskTypes
<1>6. ASSUME NEW n \in Name, PutFile(n) PROVE DiskTypes'
  <2>1. there' = there
    BY <1>6, Frames
  <2>2. clock < MaxTime /\ clock' = clock + 1 /\ at' = [at EXCEPT ![n] = NewFile]
    BY <1>6 DEF PutFile
  <2>3. QED
    BY <2>1, <2>2, <1>1, <1>2 DEF DiskTypes
<1>7. ASSUME NEW n \in Name, RemoveFile(n) PROVE DiskTypes'
  <2>1. there' = there
    BY <1>7, Frames
  <2>2. clock' = clock /\ at' = [at EXCEPT ![n] = Nobody]
    BY <1>7 DEF RemoveFile
  <2>3. QED
    BY <2>1, <2>2, <1>1, <1>3 DEF DiskTypes
<1>8. ASSUME NEW n \in Name, NEW m \in Name, MoveFile(n, m) PROVE DiskTypes'
  <2>1. there' = there
    BY <1>8, Frames
  <2>2. clock' = clock /\ at' = [at EXCEPT ![m] = at[n], ![n] = Nobody]
    BY <1>8 DEF MoveFile
  <2>3. QED
    BY <2>1, <2>2, <1>1, <1>3 DEF DiskTypes
<1>9. ASSUME NEW n \in Name, NEW m \in Name, RenameFile(n, m) PROVE DiskTypes'
  <2>1. there' = there /\ clock' = clock
    BY <1>9, Frames
  <2>2. at' = [at EXCEPT ![m] = at[n], ![n] = Nobody] \/ at' = at
    BY <1>9 DEF RenameFile
  <2>3. QED
    BY <2>1, <2>2, <1>1, <1>3 DEF DiskTypes
<1>10. ASSUME NEW n \in Name, RecycleFile(n) PROVE DiskTypes'
  <2>1. there' = there /\ clock' = clock
    BY <1>10, Frames
  <2>2. at' = [at EXCEPT ![n] = Nobody]
    BY <1>10 DEF RecycleFile
  <2>3. QED
    BY <2>1, <2>2, <1>1, <1>3 DEF DiskTypes
<1>11. CASE Vanish \/ Return
  <2>1. at' = at /\ clock' = clock
    BY <1>11, Frames
  <2>2. there' \in BOOLEAN
    BY <1>11 DEF Vanish, Return
  <2>3. QED
    BY <2>1, <2>2, <1>1 DEF DiskTypes
<1>12. CASE UNCHANGED diskVars
  BY <1>12, <1>1 DEF diskVars, DiskTypes
<1>13. UNCHANGED vars => UNCHANGED diskVars
  BY DEF vars
<1>14. \/ DirectoryChanged \/ Poll \/ Flush \/ Look \/ WorkerFails \/ PlanIsStale
       \/ PlanIsRefused \/ AcceptPlan \/ ManualRefresh \/ Prune \/ CheckSources
       \/ EndWrites \/ Recapture \/ Finish \/ (\E n \in Name : Edit(n) \/ Resolve(n))
       \/ (\E S \in SUBSET Name : BeginApply(S))
       => UNCHANGED diskVars
  BY Frames DEF diskVars
<1>15. QED
  BY <1>4, <1>5, <1>6, <1>7, <1>8, <1>9, <1>10, <1>11, <1>12, <1>13, <1>14, Steps

(* What the system tells the watcher is told or not, and what is dropped   *)
(* is a name.                                                              *)
LEMMA NoticeTypes ==
  ASSUME TypeOK, NEW ns \in SUBSET Name, Notice(ns)
  PROVE /\ dirty' = (dirty \/ wired)
        /\ dirty' \in BOOLEAN /\ forgotten \subseteq forgotten' /\ forgotten' \subseteq Name
BY DEF TypeOK, Notice

(* The watch keeps its types. *)
LEMMA WatchTypesStep ==
  ASSUME TypeOK, [Next]_vars
  PROVE WatchTypes'
<1>1. /\ dirty \in BOOLEAN /\ wired \in BOOLEAN /\ polling \in BOOLEAN
      /\ seen \in [Name -> Content] \cup {NoItem} /\ at \in [Name -> Content]
  BY DEF TypeOK
<1>2. CASE DirectoryChanged
  <2>1. wired' = wired
    BY <1>2, Frames
  <2>2. dirty' = FALSE /\ polling' \in BOOLEAN /\ (seen' = NoItem \/ seen' = at)
    BY <1>1, <1>2 DEF DirectoryChanged, Compare
  <2>3. QED
    BY <2>1, <2>2, <1>1 DEF WatchTypes
<1>3. CASE Poll
  <2>1. dirty' = dirty /\ polling' = polling
    BY <1>3, Frames
  <2>2. wired' \in BOOLEAN /\ (seen' = seen \/ seen' = at)
    BY <1>1, <1>3 DEF Poll, Compare
  <2>3. QED
    BY <2>1, <2>2, <1>1 DEF WatchTypes
<1>4. CASE AcceptPlan
  <2>1. polling' = polling
    BY <1>4, Frames
  <2>2. PICK items : UpdateDirectories(items)
    BY <1>4 DEF AcceptPlan
  <2>3. dirty' \in BOOLEAN /\ wired' \in BOOLEAN /\ (seen' = seen \/ seen' = at \/ seen' = NoItem)
    BY <2>2, <1>1 DEF UpdateDirectories
  <2>4. QED
    BY <2>1, <2>3, <1>1 DEF WatchTypes
<1>5. ASSUME NEW n \in Name, RecycleFile(n) PROVE WatchTypes'
  <2>1. UNCHANGED <<wired, seen, polling>>
    BY <1>5, Frames
  <2>2. dirty' \in BOOLEAN
    BY <1>1, <1>5 DEF RecycleFile, Operated
  <2>3. QED
    BY <2>1, <2>2, <1>1 DEF WatchTypes
<1>6. ASSUME NEW n \in Name, NEW m \in Name, RenameFile(n, m) PROVE WatchTypes'
  <2>1. UNCHANGED <<wired, seen, polling>>
    BY <1>6, Frames
  <2>2. dirty' \in BOOLEAN
    BY <1>1, <1>6 DEF RenameFile, Operated
  <2>3. QED
    BY <2>1, <2>2, <1>1 DEF WatchTypes
<1>7. ASSUME NEW n \in Name, WriteFile(n) \/ WriteInPlace(n) \/ PutFile(n) \/ RemoveFile(n)
      PROVE WatchTypes'
  <2>1. UNCHANGED <<wired, seen, polling>>
    BY <1>7, Frames
  <2>2. Notice({n}) \/ dirty' = dirty
    BY <1>7 DEF WriteFile, WriteInPlace, PutFile, RemoveFile
  <2>3. dirty' \in BOOLEAN
    BY <2>2, <1>1, NoticeTypes
  <2>4. QED
    BY <2>1, <2>3, <1>1 DEF WatchTypes
<1>8. ASSUME NEW n \in Name, NEW m \in Name, MoveFile(n, m) PROVE WatchTypes'
  <2>1. UNCHANGED <<wired, seen, polling>>
    BY <1>8, Frames
  <2>2. dirty' \in BOOLEAN
    BY <1>1, <1>8 DEF MoveFile, Notice
  <2>3. QED
    BY <2>1, <2>2, <1>1 DEF WatchTypes
<1>9. CASE Vanish
  <2>1. seen' = seen /\ polling' = polling
    BY <1>9, Frames
  <2>2. dirty' \in BOOLEAN /\ wired' = FALSE
    BY <1>1, <1>9 DEF Vanish
  <2>3. QED
    BY <2>1, <2>2, <1>1 DEF WatchTypes
<1>10. CASE UNCHANGED watchVars
  BY <1>10, <1>1 DEF watchVars, WatchTypes
<1>11. UNCHANGED vars => UNCHANGED watchVars
  BY DEF vars
<1>12. \/ Flush \/ Look \/ WorkerFails \/ PlanIsStale \/ PlanIsRefused \/ ManualRefresh \/ Prune
       \/ CheckSources \/ EndWrites \/ Recapture \/ Finish \/ Return
       \/ (\E n \in Name : Edit(n) \/ Resolve(n)) \/ (\E S \in SUBSET Name : BeginApply(S))
       => UNCHANGED watchVars
  BY Frames DEF watchVars
<1>13. QED
  BY <1>2, <1>3, <1>4, <1>5, <1>6, <1>7, <1>8, <1>9, <1>10, <1>11, <1>12, Steps

(* What is drained or deferred is a queue. *)
LEMMA DrainedQueue ==
  ASSUME TypeOK, paused' \in BOOLEAN,
         \/ Defer
         \/ \E busy, current, all \in BOOLEAN : Drain(busy, current, all)
  PROVE QueueTypes' /\ forgotten' \subseteq Name
<1>1. pending \in [Name -> Event \cup {NoItem}] /\ forgotten \subseteq Name
  BY DEF TypeOK
<1>2. CASE Defer
  BY <1>1, <1>2, DeferLeaves DEF QueueTypes
<1>3. ASSUME NEW busy \in BOOLEAN, NEW current \in BOOLEAN, NEW all \in BOOLEAN,
             Drain(busy, current, all)
      PROVE QueueTypes' /\ forgotten' \subseteq Name
  BY <1>3, DrainLeaves DEF QueueTypes
<1>4. QED
  BY <1>2, <1>3

(* Who drains or defers. *)
LEMMA Served ==
  ASSUME TypeOK,
         \/ Flush \/ PlanIsStale \/ ManualRefresh \/ Finish
         \/ \E n \in Name : RecycleFile(n)
         \/ \E n, m \in Name : RenameFile(n, m)
  PROVE \/ Defer
        \/ \E busy, current, all \in BOOLEAN : Drain(busy, current, all)
<1>1. CASE Flush \/ PlanIsStale \/ ManualRefresh
  BY <1>1, Drainers
<1>2. CASE Finish
  BY <1>2, Drainers
<1>3. ASSUME NEW n \in Name, RecycleFile(n)
      PROVE \E busy, current, all \in BOOLEAN : Drain(busy, current, all)
  BY <1>3, Drainers
<1>4. ASSUME NEW n \in Name, NEW m \in Name, RenameFile(n, m)
      PROVE \E busy, current, all \in BOOLEAN : Drain(busy, current, all)
  BY <1>4, Drainers
<1>5. QED
  BY <1>1, <1>2, <1>3, <1>4

(* The queue keeps its types. *)
LEMMA QueueTypesStep ==
  ASSUME TypeOK, Wired, [Next]_vars
  PROVE QueueTypes'
<1>1. /\ paused \in BOOLEAN /\ sweep \in BOOLEAN
      /\ pending \in [Name -> Event \cup {NoItem}]
      /\ rootEvent \in {"none", "lost", "restored"}
  BY DEF TypeOK
<1>2. CASE DirectoryChanged
  <2>1. paused' = paused
    BY <1>2, Frames
  <2>2. seen # NoItem
    BY <1>2 DEF DirectoryChanged, Wired
  <2>3. Compare \/ (rootEvent' = "lost" /\ UNCHANGED <<pending, sweep>>)
    BY <1>2 DEF DirectoryChanged
  <2>4. QED
    BY <2>1, <2>2, <2>3, <1>1, CompareTypes DEF QueueTypes
<1>3. CASE Poll
  <2>1. paused' = paused
    BY <1>3, Frames
  <2>2. \/ seen # NoItem /\ Compare
        \/ rootEvent' \in {"lost", "restored"} /\ UNCHANGED <<pending, sweep>>
    BY <1>3 DEF Poll
  <2>3. QED
    BY <2>1, <2>2, <1>1, CompareTypes DEF QueueTypes
<1>4. CASE \/ Flush \/ PlanIsStale \/ ManualRefresh
  <2>1. paused' = paused
    BY <1>4, Frames
  <2>2. QED
    BY <2>1, <1>1, <1>4, Served, DrainedQueue
<1>5. CASE (\E n \in Name : RecycleFile(n)) \/ (\E n, m \in Name : RenameFile(n, m))
  <2>1. paused' = paused
    BY <1>5, Frames
  <2>2. QED
    BY <2>1, <1>1, <1>5, Served, DrainedQueue
<1>6. CASE Finish
  <2>1. paused' = FALSE
    BY <1>6 DEF Finish
  <2>2. QED
    BY <2>1, <1>6, Served, DrainedQueue
<1>7. ASSUME NEW S, BeginApply(S) PROVE QueueTypes'
  <2>1. UNCHANGED queueVars
    BY <1>7, Frames DEF queueVars
  <2>2. paused' = TRUE
    BY <1>7 DEF BeginApply
  <2>3. QED
    BY <2>1, <2>2, <1>1 DEF QueueTypes, queueVars
<1>8. CASE UNCHANGED <<queueVars, paused>>
  BY <1>8, <1>1 DEF queueVars, QueueTypes
<1>9. UNCHANGED vars => UNCHANGED <<queueVars, paused>>
  BY DEF vars, queueVars
<1>10. \/ Look \/ WorkerFails \/ PlanIsRefused \/ AcceptPlan \/ Prune
       \/ CheckSources \/ EndWrites \/ Recapture \/ Vanish \/ Return
       \/ (\E n \in Name : Edit(n) \/ Resolve(n) \/ WriteFile(n))
       \/ (\E n \in Name : WriteInPlace(n) \/ PutFile(n) \/ RemoveFile(n))
       \/ (\E n, m \in Name : MoveFile(n, m))
       => UNCHANGED <<queueVars, paused>>
  BY Frames DEF queueVars
<1>11. QED
  BY <1>2, <1>3, <1>4, <1>5, <1>6, <1>7, <1>8, <1>9, <1>10, Steps

(* The worker keeps its type. *)
LEMMA WorkerTypeStep ==
  ASSUME TypeOK, [Next]_vars
  PROVE worker' \in WorkerType
<1>1. worker \in WorkerType
  BY DEF TypeOK, WorkerType
<1>2. ASSUME \E busy, current, all \in BOOLEAN : Drain(busy, current, all)
      PROVE worker' \in WorkerType
  BY <1>2, DrainLeaves
<1>3. CASE \/ Flush \/ PlanIsStale \/ ManualRefresh
  BY <1>1, <1>2, <1>3, Drainers, Parts
<1>4. CASE \/ Finish \/ (\E n \in Name : RecycleFile(n)) \/ (\E n, m \in Name : RenameFile(n, m))
  BY <1>2, <1>4, Drainers
<1>5. CASE Look
  <2>1. worker' = [worker EXCEPT !.stage = "planned",
                    !.view = [n \in Name |-> IF n \in worker.look \cup worker.old
                                             THEN Disk(n) ELSE Nobody]]
    BY <1>5 DEF Look
  <2>2. [n \in Name |-> IF n \in worker.look \cup worker.old THEN Disk(n) ELSE Nobody]
           \in [Name -> Content]
    BY DiskType DEF Content
  <2>3. QED
    BY <2>1, <2>2, <1>1 DEF WorkerType
<1>6. CASE WorkerFails \/ PlanIsRefused \/ AcceptPlan
  BY <1>6, Parts DEF WorkerFails, PlanIsRefused, AcceptPlan
<1>7. Revised => worker' \in WorkerType
  BY <1>1 DEF Revised, WorkerType
<1>8. CASE Recapture \/ (\E n \in Name : Edit(n) \/ Resolve(n))
  BY <1>1, <1>7, <1>8 DEF Recapture, Edit, Resolve
<1>9. CASE UNCHANGED worker
  BY <1>1, <1>9
<1>10. UNCHANGED vars => UNCHANGED worker
  BY DEF vars
<1>11. \/ DirectoryChanged \/ Poll \/ Prune
       \/ CheckSources \/ EndWrites \/ Vanish \/ Return
       \/ (\E n \in Name : WriteFile(n)) \/ (\E S \in SUBSET Name : BeginApply(S))
       \/ (\E n \in Name : WriteInPlace(n) \/ PutFile(n) \/ RemoveFile(n))
       \/ (\E n, m \in Name : MoveFile(n, m))
       => UNCHANGED worker
  BY Frames
<1>12. QED
  BY <1>3, <1>4, <1>5, <1>6, <1>8, <1>9, <1>10, <1>11, Steps

(* What changes an item leaves one. *)
LEMMA EditedType ==
  ASSUME NEW i \in Item, NEW p \in BOOLEAN, NEW c \in Content, NEW s \in State
  PROVE /\ [i EXCEPT !.proposal = p] \in Item
        /\ [i EXCEPT !.base = c, !.state = s, !.disk = Nobody] \in Item
        /\ [Read(c, s) EXCEPT !.proposal = p] \in Item
        /\ [i EXCEPT !.proposal = p].proposal = p
        /\ [i EXCEPT !.base = c, !.state = s, !.disk = Nobody].proposal = i.proposal
        /\ [Read(c, s) EXCEPT !.proposal = p].proposal = p
BY DEF Item, Read, Content

(* What a write does to the items and to the Apply. *)
LEMMA WriteIs ==
  ASSUME TypeOK, Jobs, NEW n \in Name, WriteFile(n)
  PROVE /\ job.stage = "write" /\ n \in job.left /\ n \in Busy
        /\ job.live[n] \in Name /\ item[job.live[n]] \in Item
        /\ \/ item' = item /\ job' = [job EXCEPT !.left = @ \ {n}]
           \/ /\ \E i \in Item :
                    /\ item' = [item EXCEPT ![job.live[n]] = i]
                    /\ ~i.proposal /\ i.base = item[job.live[n]].base
                    /\ i.state = item[job.live[n]].state
              /\ job' = [job EXCEPT !.left = @ \ {n}, !.wrote = @ \cup {n}]
<1> DEFINE k == job.live[n]
<1>1. job.stage = "write" /\ n \in job.left
  BY DEF WriteFile
<1>2. n \in Busy
  BY <1>1 DEF Busy
<1>3. k \in Name /\ Proposed(k) /\ item[k] \in Item
  BY <1>2 DEF Jobs, Proposed, Loaded, TypeOK
<1>4. CASE item' = item /\ job' = [job EXCEPT !.left = @ \ {n}]
  BY <1>1, <1>2, <1>3, <1>4
<1>5. CASE /\ clock < MaxTime
           /\ item' = [item EXCEPT ![k].proposal = FALSE,
                                   ![k].shown = IF @ = at[n] \/ k # n THEN NewFile ELSE @]
           /\ job' = [job EXCEPT !.left = @ \ {n}, !.wrote = @ \cup {n}]
  <2> DEFINE c == IF item[k].shown = at[n] \/ k # n THEN NewFile ELSE item[k].shown
             i == [item[k] EXCEPT !.proposal = FALSE, !.shown = c]
  <2>1. c \in Content
    BY <1>3, <1>5, NewFileType DEF TypeOK, Item
  <2>2. item' = [item EXCEPT ![k] = i]
    <3>1. [item[k] EXCEPT !.proposal = FALSE].shown = item[k].shown
      BY <1>3 DEF Item
    <3>2. QED
      BY <1>3, <1>5, <3>1 DEF TypeOK
  <2>3. i \in Item /\ ~i.proposal /\ i.base = item[k].base /\ i.state = item[k].state
    BY <2>1, <1>3 DEF Item
  <2>4. QED
    BY <2>2, <2>3, <1>1, <1>2, <1>3, <1>5
<1>6. QED
  BY <1>4, <1>5 DEF WriteFile

(* The items keep their types. *)
LEMMA ItemTypesStep ==
  ASSUME TypeOK, Jobs, [Next]_vars
  PROVE ItemTypes'
<1>1. item \in [Name -> Item \cup {NoItem}] /\ reviewable \subseteq Name
  BY DEF TypeOK
<1>2. CASE AcceptPlan
  <2>1. PICK overlap \in SUBSET {x \in Asked : x \in worker.had} :
           /\ item' = Planned(overlap)
           /\ reviewable' \in {reviewable, {m \in Asked : Planned(overlap)[m] # NoItem
                                                          /\ Flagged(Planned(overlap)[m])}}
    BY <1>2 DEF AcceptPlan
  <2>2. Asked \subseteq Name
    BY DEF Asked, TypeOK
  <2>3. QED
    BY <2>1, <2>2, <1>1, PlanTypes DEF ItemTypes
<1>3. ASSUME NEW n \in Name, Edit(n) PROVE ItemTypes'
  <2>1. item[n] \in Item /\ item' = [item EXCEPT ![n].proposal = ~@] /\ reviewable' = {}
    BY <1>1, <1>3 DEF Edit, Idle, Loaded, Revised
  <2>2. [item[n] EXCEPT !.proposal = ~@] \in Item
    BY <2>1, EditedType DEF Item
  <2>3. QED
    BY <2>1, <2>2, <1>1 DEF ItemTypes
<1>4. ASSUME NEW n \in Name, Resolve(n) PROVE ItemTypes'
  <2>1. item[n] \in Item /\ reviewable' = {}
    BY <1>1, <1>4 DEF Resolve, Idle, Loaded, Revised
  <2>2. Read(Disk(n), "current") \in Item
    BY DiskType, Parts DEF State
  <2>3. [Read(Disk(n), "current") EXCEPT !.proposal = item[n].proposal] \in Item
    <3>1. item[n].proposal \in BOOLEAN /\ Disk(n) \in Content /\ "current" \in State
      BY <2>1, DiskType DEF Item, State
    <3>2. QED
      BY <2>1, <3>1, EditedType
  <2>4. \E i \in Item \cup {NoItem} : item' = [item EXCEPT ![n] = i]
    BY <2>2, <2>3, <1>4 DEF Resolve
  <2>5. QED
    BY <2>1, <2>4, <1>1 DEF ItemTypes
<1>5. ASSUME NEW n \in Name, RecycleFile(n) PROVE ItemTypes'
  BY <1>1, <1>5 DEF RecycleFile, ItemTypes
<1>6. ASSUME NEW n \in Name, NEW m \in Name, RenameFile(n, m) PROVE ItemTypes'
  <2>1. item[n] \in Item
    BY <1>1, <1>6 DEF RenameFile, Loaded
  <2>2. [item[n] EXCEPT !.proposal = FALSE] \in Item
    BY <2>1, EditedType, Parts DEF Item
  <2>3. \/ UNCHANGED <<item, reviewable>>
        \/ reviewable' = {} /\ \E i \in Item : item' = [item EXCEPT ![m] = i, ![n] = NoItem]
    BY <1>6, <2>1, <2>2 DEF RenameFile, itemVars
  <2>4. QED
    BY <2>3, <1>1 DEF ItemTypes
<1>7. ASSUME NEW n \in Name, WriteFile(n) PROVE ItemTypes'
  <2>1. reviewable' = reviewable
    BY <1>7, Frames
  <2>2. QED
    BY <2>1, <1>1, <1>7, WriteIs DEF ItemTypes
<1>8. CASE Recapture
  <2>1. item' = [n \in Name |-> IF n \in job.wrote /\ Loaded(n)
                               THEN [item[n] EXCEPT !.base = Disk(n), !.state = "own", !.disk = Nobody]
                               ELSE item[n]]
    BY <1>8 DEF Recapture
  <2>2. ASSUME NEW n \in Name, Loaded(n)
        PROVE [item[n] EXCEPT !.base = Disk(n), !.state = "own", !.disk = Nobody] \in Item
    <3>1. item[n] \in Item /\ Disk(n) \in Content /\ "own" \in State
      BY <2>2, <1>1, DiskType DEF Loaded, State
    <3>2. QED
      BY <3>1 DEF Item, Content
  <2>3. reviewable' = reviewable \/ reviewable' = {}
    BY <1>8 DEF Recapture, Revised
  <2>4. QED
    BY <2>1, <2>2, <2>3, <1>1 DEF ItemTypes
<1>9. CASE UNCHANGED itemVars
  BY <1>9, <1>1 DEF itemVars, ItemTypes
<1>10. UNCHANGED vars => UNCHANGED itemVars
  BY DEF vars
<1>11. \/ DirectoryChanged \/ Poll \/ Flush \/ Look \/ WorkerFails \/ PlanIsStale \/ PlanIsRefused
       \/ ManualRefresh \/ Prune \/ CheckSources \/ EndWrites \/ Finish \/ Vanish \/ Return
       \/ (\E S \in SUBSET Name : BeginApply(S))
       \/ (\E n \in Name : WriteInPlace(n) \/ PutFile(n) \/ RemoveFile(n))
       \/ (\E n, m \in Name : MoveFile(n, m))
       => UNCHANGED itemVars
  BY Frames DEF itemVars
<1>12. QED
  BY <1>2, <1>3, <1>4, <1>5, <1>6, <1>7, <1>8, <1>9, <1>10, <1>11, Steps

(* The files of an Apply can be put in an order: what the CHOOSE of        *)
(* BeginApply picks is one.                                                *)
LEMMA Orders ==
  ASSUME NEW S \in SUBSET Name
  PROVE /\ Cardinality(S) \in Nat
        /\ \E f \in [1 .. Cardinality(S) -> S] : \A n \in S : \E i \in DOMAIN f : f[i] = n
<1>1. IsFiniteSet(S)
  BY NameAssumption, FS_Subset
<1>2. Cardinality(S) \in Nat /\ ExistsBijection(1 .. Cardinality(S), S)
  BY <1>1, FS_CardinalityType
<1>3. PICK f \in Bijection(1 .. Cardinality(S), S) : TRUE
  BY <1>2 DEF ExistsBijection
<1>4. f \in [1 .. Cardinality(S) -> S] /\ \A n \in S : \E i \in 1 .. Cardinality(S) : f[i] = n
  BY <1>3 DEF Bijection, Injection, Surjection
<1>5. QED
  BY <1>2, <1>4

(* The ledger stays a sequence of entries. *)
LEMMA LedgerStep ==
  ASSUME TypeOK, [Next]_vars
  PROVE own' \in Seq(Entry)
<1>1. own \in Seq(Entry)
  BY DEF TypeOK
<1>2. ASSUME NEW n \in Name, NEW m \in Name, NEW c \in Content, NEW r \in {"proven", "unproven"},
             Operated(n, m, c, r)
      PROVE own' \in Seq(Entry)
  <2>1. [orig |-> n, final |-> m, left |-> c, result |-> r] \in Entry
    BY DEF Entry
  <2>2. QED
    BY <2>1, <1>1, <1>2, AppendProperties DEF Operated
<1>3. ASSUME NEW n \in Name, NEW m \in Name, RenameFile(n, m) PROVE own' \in Seq(Entry)
  <2>1. Operated(n, m, at[n], "proven") \/ Operated(n, m, Nobody, "unproven")
    BY <1>3 DEF RenameFile
  <2>2. at[n] \in Content /\ Nobody \in Content
    BY DEF TypeOK, Content
  <2>3. QED
    BY <2>1, <2>2, <1>2
<1>4. ASSUME NEW n \in Name, RecycleFile(n) PROVE own' \in Seq(Entry)
  <2>1. Operated(n, n, Nobody, "proven") /\ Nobody \in Content
    BY <1>4 DEF RecycleFile, Content
  <2>2. QED
    BY <2>1, <1>2
<1>5. CASE Prune
  <2>1. own # <<>> /\ own' = Tail(own)
    BY <1>5 DEF Prune
  <2>2. QED
    BY <2>1, <1>1, HeadTailProperties
<1>6. ASSUME NEW S \in SUBSET Name, BeginApply(S) PROVE own' \in Seq(Entry)
  <2> DEFINE order == CHOOSE f \in [1 .. Cardinality(S) -> S] :
                         \A n \in S : \E i \in DOMAIN f : f[i] = n
             more == [i \in DOMAIN order |-> [orig |-> order[i], final |-> order[i],
                                              left |-> Nobody, result |-> "pending"]]
  <2>1. order \in [1 .. Cardinality(S) -> S] /\ Cardinality(S) \in Nat
    BY Orders
  <2>2. own' = own \o more
    BY <1>6 DEF BeginApply
  <2> HIDE DEF order
  <2>3. \A i \in 1 .. Cardinality(S) : [orig |-> order[i], final |-> order[i],
                                        left |-> Nobody, result |-> "pending"] \in Entry
    BY <2>1 DEF Entry, Content
  <2>4. DOMAIN order = 1 .. Cardinality(S)
    BY <2>1
  <2>5. more \in [1 .. Cardinality(S) -> Entry]
    BY <2>3, <2>4
  <2>6. more \in Seq(Entry)
    BY <2>1, <2>5, SeqDef
  <2> HIDE DEF more
  <2>7. QED
    BY <2>2, <2>6, <1>1, ConcatProperties
<1>7. CASE Finish
  <2>1. own' = [i \in DOMAIN own |->
                 IF own[i].result # "pending" THEN own[i]
                 ELSE IF own[i].orig \in job.wrote /\ Disk(own[i].orig) # Nobody
                 THEN [own[i] EXCEPT !.result = "proven", !.left = Disk(own[i].orig)]
                 ELSE [own[i] EXCEPT !.result = "unproven"]]
    BY <1>7 DEF Finish
  <2>2. Len(own) \in Nat /\ DOMAIN own = 1 .. Len(own) /\ \A i \in 1 .. Len(own) : own[i] \in Entry
    BY <1>1
  <2>3. ASSUME NEW e \in Entry
        PROVE [e EXCEPT !.result = "proven", !.left = Disk(e.orig)] \in Entry
              /\ [e EXCEPT !.result = "unproven"] \in Entry
    <3>1. Disk(e.orig) \in Content
      BY DiskType DEF Entry
    <3>2. QED
      BY <3>1 DEF Entry
  <2>4. \A i \in 1 .. Len(own) : own'[i] \in Entry
    BY <2>1, <2>2, <2>3
  <2>5. own' \in [1 .. Len(own) -> Entry]
    <3>1. DOMAIN own' = 1 .. Len(own) /\ own' = [i \in DOMAIN own' |-> own'[i]]
      BY <2>1, <2>2
    <3>2. QED
      BY <3>1, <2>4
  <2>6. QED
    BY <2>2, <2>5, SeqDef
<1>8. CASE UNCHANGED own
  BY <1>1, <1>8
<1>9. UNCHANGED vars => UNCHANGED own
  BY DEF vars
<1>10. \/ DirectoryChanged \/ Poll \/ Flush \/ Look \/ WorkerFails \/ PlanIsStale \/ PlanIsRefused
       \/ AcceptPlan \/ ManualRefresh \/ CheckSources \/ EndWrites \/ Recapture \/ Vanish \/ Return
       \/ (\E n \in Name : Edit(n) \/ Resolve(n) \/ WriteFile(n))
       \/ (\E n \in Name : WriteInPlace(n) \/ PutFile(n) \/ RemoveFile(n))
       \/ (\E n, m \in Name : MoveFile(n, m))
       => UNCHANGED own
  BY Frames
<1>11. QED
  BY <1>3, <1>4, <1>5, <1>6, <1>7, <1>8, <1>9, <1>10, Steps

(* The Apply keeps its type. *)
LEMMA JobTypeStep ==
  ASSUME TypeOK, Jobs, [Next]_vars
  PROVE job' \in JobType
<1>1. job \in JobType
  BY DEF TypeOK, JobType
<1>2. CASE AcceptPlan
  <2> DEFINE live == [k \in Name |-> IF \E m \in Name : Moves(job.live[k], m)
                                     THEN CHOOSE m \in Name : Moves(job.live[k], m)
                                     ELSE job.live[k]]
  <2>1. job' = [job EXCEPT !.live = live]
    BY <1>2, <1>1 DEF AcceptPlan, JobType
  <2>2. live \in [Name -> Name \cup {Nobody}]
    BY <1>1 DEF JobType
  <2> HIDE DEF live
  <2>3. QED
    BY <2>1, <2>2, <1>1 DEF JobType
<1>3. ASSUME NEW S \in SUBSET Name, BeginApply(S) PROVE job' \in JobType
  <2> DEFINE base == [n \in Name |-> IF n \in S THEN item[n].base ELSE Nobody]
             live == [n \in Name |-> IF n \in S THEN n ELSE Nobody]
  <2>1. job' = [NoJob EXCEPT !.stage = "check", !.files = S, !.base = base, !.live = live]
    BY <1>3 DEF BeginApply
  <2>2. \A n \in S : item[n] \in Item
    BY <1>3 DEF BeginApply, Proposed, Loaded, TypeOK
  <2>3. base \in [Name -> Content] /\ live \in [Name -> Name \cup {Nobody}]
    BY <2>2 DEF Item, Content
  <2> HIDE DEF base, live
  <2>4. QED
    BY <2>1, <2>3, Parts DEF JobType
<1>4. CASE CheckSources
  BY <1>1, <1>4, Parts DEF CheckSources, JobType
<1>5. ASSUME NEW n \in Name, WriteFile(n) PROVE job' \in JobType
  <2>1. \/ job' = [job EXCEPT !.left = @ \ {n}]
        \/ job' = [job EXCEPT !.left = @ \ {n}, !.wrote = @ \cup {n}]
    BY <1>5, WriteIs
  <2>2. job.left \ {n} \subseteq Name /\ job.wrote \cup {n} \subseteq Name
    BY <1>1 DEF JobType
  <2>3. QED
    BY <2>1, <2>2, <1>1 DEF JobType
<1>6. CASE EndWrites \/ Recapture
  BY <1>1, <1>6 DEF EndWrites, Recapture, JobType
<1>7. CASE Finish
  BY <1>7, Parts DEF Finish
<1>8. CASE UNCHANGED job
  BY <1>1, <1>8
<1>9. UNCHANGED vars => UNCHANGED job
  BY DEF vars
<1>10. \/ DirectoryChanged \/ Poll \/ Flush \/ Look \/ WorkerFails \/ PlanIsStale \/ PlanIsRefused
       \/ ManualRefresh \/ Prune \/ Vanish \/ Return
       \/ (\E n \in Name : Edit(n) \/ Resolve(n) \/ RecycleFile(n))
       \/ (\E n \in Name : WriteInPlace(n) \/ PutFile(n) \/ RemoveFile(n))
       \/ (\E n, m \in Name : RenameFile(n, m) \/ MoveFile(n, m))
       => UNCHANGED job
  BY Frames
<1>11. QED
  BY <1>2, <1>3, <1>4, <1>5, <1>6, <1>7, <1>8, <1>9, <1>10, Steps

(* No act is done that is not left, and only names are forgotten. *)
LEMMA RestTypesStep ==
  ASSUME TypeOK, Wired, [Next]_vars
  PROVE RestTypes'
<1>1. budget \in 0 .. MaxActs /\ forgotten \subseteq Name /\ worker \in WorkerType
  BY DEF TypeOK, WorkerType
<1>2. Act => budget' \in 0 .. MaxActs
  BY <1>1, BoundsAssumption DEF Act
<1>3. budget' \in 0 .. MaxActs
  <2>1. (\E S \in SUBSET Name : BeginApply(S)) => Act
    BY DEF BeginApply
  <2>2. (\E n \in Name : Edit(n) \/ RecycleFile(n)) => Act
    BY DEF Edit, RecycleFile
  <2>3. (\E n \in Name : WriteInPlace(n) \/ PutFile(n) \/ RemoveFile(n)) => Act
    BY DEF WriteInPlace, PutFile, RemoveFile
  <2>4. (\E n, m \in Name : RenameFile(n, m) \/ MoveFile(n, m)) \/ Vanish => Act
    BY DEF RenameFile, MoveFile, Vanish
  <2>5. \/ DirectoryChanged \/ Poll \/ Flush \/ Look \/ WorkerFails \/ PlanIsStale \/ PlanIsRefused
        \/ AcceptPlan \/ ManualRefresh \/ Prune \/ CheckSources \/ EndWrites \/ Recapture \/ Finish
        \/ Return \/ (\E n \in Name : Resolve(n) \/ WriteFile(n)) \/ UNCHANGED vars
        => UNCHANGED budget
    BY Frames DEF vars
  <2>6. QED
    BY <2>1, <2>2, <2>3, <2>4, <2>5, <1>1, <1>2, Steps
<1>4. forgotten' \subseteq Name
  <2>1. CASE DirectoryChanged
    <3>1. seen # NoItem
      BY <2>1 DEF DirectoryChanged, Wired
    <3>2. QED
      BY <2>1, <3>1, <1>1, CompareTypes DEF DirectoryChanged
  <2>2. CASE Poll
    <3>1. (seen # NoItem /\ Compare) \/ forgotten' = forgotten
      BY <2>2 DEF Poll
    <3>2. QED
      BY <3>1, <1>1, CompareTypes
  <2>3. CASE \/ Flush \/ PlanIsStale \/ ManualRefresh \/ Finish
             \/ (\E n \in Name : RecycleFile(n)) \/ (\E n, m \in Name : RenameFile(n, m))
    <3>1. paused' \in BOOLEAN
      <4>1. paused \in BOOLEAN
        BY DEF TypeOK
      <4>2. Finish => paused' = FALSE
        BY DEF Finish
      <4>3. QED
        BY <2>3, <4>1, <4>2, Frames
    <3>2. QED
      BY <2>3, <3>1, Served, DrainedQueue
  <2>4. CASE WorkerFails \/ PlanIsRefused
    BY <2>4, <1>1, CoversType DEF WorkerFails, PlanIsRefused
  <2>5. CASE AcceptPlan
    <3>1. PICK items : UpdateDirectories(items)
      BY <2>5 DEF AcceptPlan
    <3>2. QED
      BY <3>1, <1>1 DEF UpdateDirectories
  <2>6. CASE \E n \in Name : WriteFile(n) \/ WriteInPlace(n) \/ PutFile(n) \/ RemoveFile(n)
    <3>1. \E n \in Name : Notice({n}) \/ forgotten' \subseteq forgotten \cup {n}
      BY <2>6 DEF WriteFile, WriteInPlace, PutFile, RemoveFile
    <3>2. QED
      BY <3>1, <1>1, NoticeTypes
  <2>7. CASE \E n, m \in Name : MoveFile(n, m)
    <3>1. \E n, m \in Name : Notice({n, m})
      BY <2>7 DEF MoveFile
    <3>2. QED
      BY <3>1, <1>1, NoticeTypes
  <2>8. CASE Vanish \/ Return
    BY <2>8, <1>1 DEF Vanish, Return
  <2>9. \/ Look \/ Prune \/ CheckSources \/ EndWrites \/ Recapture
        \/ (\E n \in Name : Edit(n) \/ Resolve(n)) \/ (\E S \in SUBSET Name : BeginApply(S))
        \/ UNCHANGED vars
        => UNCHANGED forgotten
    BY Frames DEF vars
  <2>10. QED
    BY <2>1, <2>2, <2>3, <2>4, <2>5, <2>6, <2>7, <2>8, <2>9, <1>1, Steps
<1>5. QED
  BY <1>3, <1>4 DEF RestTypes

(* Every step keeps the types. *)
LEMMA TypeStep ==
  ASSUME TypeOK, Jobs, Wired, [Next]_vars
  PROVE TypeOK'
<1>1. /\ DiskTypes' /\ WatchTypes' /\ QueueTypes' /\ worker' \in WorkerType /\ ItemTypes'
      /\ own' \in Seq(Entry) /\ job' \in JobType /\ RestTypes'
  BY DiskTypesStep, WatchTypesStep, QueueTypesStep, WorkerTypeStep, ItemTypesStep, LedgerStep,
     JobTypeStep, RestTypesStep
<1>2. QED
  BY <1>1 DEF TypeOK, DiskTypes, WatchTypes, QueueTypes, WorkerType, ItemTypes, JobType, RestTypes

----------------------------------------------------------------------------
(* The watch and the files *)

(* A directory that is gone is not watched, and the watcher has seen every *)
(* one it is told of.                                                      *)
LEMMA WiredStep ==
  ASSUME TypeOK, Wired, [Next]_vars
  PROVE Wired'
<1>1. there \in BOOLEAN /\ at # NoItem
  BY Parts DEF TypeOK
<1>2. CASE DirectoryChanged
  <2>1. wired' = wired /\ there' = there
    BY <1>2, Frames
  <2>2. dirty' = FALSE /\ (~there \/ (there /\ seen' = at))
    BY <1>2 DEF DirectoryChanged, Compare
  <2>3. QED
    BY <2>1, <2>2, <1>1 DEF Wired
<1>3. CASE Poll
  <2>1. dirty' = dirty /\ there' = there
    BY <1>3, Frames
  <2>2. \/ ~there /\ seen' = seen /\ wired' = wired
        \/ there /\ seen' = at
    BY <1>3 DEF Poll, Compare
  <2>3. QED
    BY <2>1, <2>2, <1>1 DEF Wired
<1>4. CASE AcceptPlan
  <2>1. there' = there
    BY <1>4, Frames
  <2>2. PICK items : UpdateDirectories(items)
    BY <1>4 DEF AcceptPlan
  <2>3. \/ UNCHANGED <<dirty, wired, seen>>
        \/ wired' = FALSE /\ dirty' = FALSE
        \/ there /\ seen' = at
    BY <2>2 DEF UpdateDirectories
  <2>4. QED
    BY <2>1, <2>3, <1>1 DEF Wired
<1>5. CASE (\E n \in Name : RecycleFile(n)) \/ (\E n, m \in Name : RenameFile(n, m))
  <2>1. UNCHANGED <<there, wired, seen>>
    BY <1>5, Frames
  <2>2. dirty' => dirty \/ wired
    BY <1>5 DEF RecycleFile, RenameFile, Operated
  <2>3. QED
    BY <2>1, <2>2 DEF Wired
<1>6. CASE \/ \E n \in Name : WriteFile(n) \/ WriteInPlace(n) \/ PutFile(n) \/ RemoveFile(n)
           \/ \E n, m \in Name : MoveFile(n, m)
  <2>1. UNCHANGED <<there, wired, seen>>
    BY <1>6, Frames
  <2>2. dirty' => dirty \/ wired
    BY <1>6 DEF WriteFile, WriteInPlace, PutFile, RemoveFile, MoveFile, Notice
  <2>3. QED
    BY <2>1, <2>2 DEF Wired
<1>7. CASE Vanish
  <2>1. seen' = seen
    BY <1>7, Frames
  <2>2. wired' = FALSE /\ (dirty' => dirty \/ wired)
    BY <1>7 DEF Vanish
  <2>3. QED
    BY <2>1, <2>2 DEF Wired
<1>8. CASE Return
  <2>1. UNCHANGED watchVars /\ there'
    BY <1>8, Frames DEF watchVars, Return
  <2>2. QED
    BY <2>1 DEF Wired, watchVars
<1>9. CASE UNCHANGED <<there, watchVars>>
  BY <1>9 DEF Wired, watchVars
<1>10. UNCHANGED vars => UNCHANGED <<there, watchVars>>
  BY DEF vars, diskVars
<1>11. \/ Flush \/ Look \/ WorkerFails \/ PlanIsStale \/ PlanIsRefused \/ ManualRefresh \/ Prune
       \/ CheckSources \/ EndWrites \/ Recapture \/ Finish
       \/ (\E n \in Name : Edit(n) \/ Resolve(n)) \/ (\E S \in SUBSET Name : BeginApply(S))
       => UNCHANGED <<there, watchVars>>
  BY Frames DEF watchVars
<1>12. QED
  BY <1>2, <1>3, <1>4, <1>5, <1>6, <1>7, <1>8, <1>9, <1>10, <1>11, Steps

(* What a step does to the files and to the clock: nothing, or a file is   *)
(* new, or has a new time, or is gone, or has moved.                       *)
Making(n) == clock < MaxTime /\ clock' = clock + 1 /\ at' = [at EXCEPT ![n] = NewFile]
Writing(n) == /\ clock < MaxTime /\ clock' = clock + 1 /\ at[n] # Nobody
              /\ at' = [at EXCEPT ![n].time = clock']
Removing(n) == clock' = clock /\ at' = [at EXCEPT ![n] = Nobody]
Moving(n, m) == clock' = clock /\ at' = [at EXCEPT ![m] = at[n], ![n] = Nobody]

LEMMA FileSteps ==
  ASSUME [Next]_vars
  PROVE \/ at' = at /\ clock' = clock
        \/ \E n \in Name : Making(n) \/ Writing(n) \/ Removing(n)
        \/ \E n, m \in Name : Moving(n, m)
<1>1. ASSUME NEW n \in Name, WriteFile(n) \/ PutFile(n)
      PROVE Making(n) \/ (at' = at /\ clock' = clock)
  BY <1>1 DEF WriteFile, PutFile, Making
<1>2. ASSUME NEW n \in Name, WriteInPlace(n) PROVE Writing(n)
  BY <1>2 DEF WriteInPlace, Writing
<1>3. ASSUME NEW n \in Name, RemoveFile(n) \/ RecycleFile(n) PROVE Removing(n)
  BY <1>3, Frames DEF RemoveFile, RecycleFile, Removing
<1>4. ASSUME NEW n \in Name, NEW m \in Name, RenameFile(n, m) \/ MoveFile(n, m)
      PROVE Moving(n, m) \/ (at' = at /\ clock' = clock)
  BY <1>4, Frames DEF RenameFile, MoveFile, Moving
<1>5. \/ DirectoryChanged \/ Poll \/ Flush \/ Look \/ WorkerFails \/ PlanIsStale
      \/ PlanIsRefused \/ AcceptPlan \/ ManualRefresh \/ Prune \/ CheckSources
      \/ EndWrites \/ Recapture \/ Finish \/ Vanish \/ Return
      \/ (\E n \in Name : Edit(n) \/ Resolve(n)) \/ (\E S \in SUBSET Name : BeginApply(S))
      \/ UNCHANGED vars
      => at' = at /\ clock' = clock
  BY Frames DEF vars, diskVars
<1>6. QED
  BY <1>1, <1>2, <1>3, <1>4, <1>5, Steps

(* The watcher has seen what it saw before, or what is there, or nothing.  *)
LEMMA SeenSteps ==
  ASSUME [Next]_vars
  PROVE seen' = seen \/ seen' = NoItem \/ (seen' = at /\ at' = at /\ clock' = clock)
<1>1. CASE DirectoryChanged
  BY <1>1, Frames DEF DirectoryChanged, Compare
<1>2. CASE Poll
  BY <1>2, Frames DEF Poll, Compare
<1>3. CASE AcceptPlan
  <2>1. PICK items : UpdateDirectories(items)
    BY <1>3 DEF AcceptPlan
  <2>2. QED
    BY <2>1, <1>3, Frames DEF UpdateDirectories
<1>4. \/ Flush \/ Look \/ WorkerFails \/ PlanIsStale
      \/ PlanIsRefused \/ ManualRefresh \/ Prune \/ CheckSources
      \/ EndWrites \/ Recapture \/ Finish \/ Vanish \/ Return
      \/ (\E n \in Name : Edit(n) \/ Resolve(n) \/ RecycleFile(n) \/ WriteFile(n))
      \/ (\E n \in Name : WriteInPlace(n) \/ PutFile(n) \/ RemoveFile(n))
      \/ (\E n, m \in Name : RenameFile(n, m) \/ MoveFile(n, m))
      \/ (\E S \in SUBSET Name : BeginApply(S)) \/ UNCHANGED vars
      => seen' = seen
  BY Frames DEF vars, watchVars
<1>5. QED
  BY <1>1, <1>2, <1>3, <1>4, Steps

(* Time and inodes go on with the clock. *)
LEMMA StampedStep ==
  ASSUME TypeOK, Stamped, [Next]_vars
  PROVE Stamped'
<1>1. /\ at \in [Name -> Content] /\ clock \in 0 .. MaxTime
      /\ seen \in [Name -> Content] \cup {NoItem} /\ MaxTime \in Nat
  BY BoundsAssumption DEF TypeOK
<1>2. clock' \in Nat /\ clock \in Nat /\ clock <= clock'
  <2>1. clock' = clock \/ clock' = clock + 1
    BY FileSteps DEF Making, Writing, Removing, Moving
  <2>2. QED
    BY <2>1, <1>1
<1>3. \A c \in Content : Old(c, clock) => Old(c, clock')
  BY <1>2, <1>1 DEF Old, Content, Identity
<1>4. \A n \in Name : Old(at[n], clock) /\ (seen # NoItem => Old(seen[n], clock))
  BY DEF Stamped
<1>5. ASSUME NEW n \in Name PROVE Old(at'[n], clock')
  <2>1. CASE at'[n] = at[n]
    BY <2>1, <1>1, <1>3, <1>4
  <2>2. ASSUME NEW m \in Name, Making(m) \/ Writing(m) \/ Removing(m), n = m PROVE Old(at'[n], clock')
    <3>1. CASE Making(m)
      <4>1. at'[n] = NewFile /\ clock' = clock + 1
        BY <2>2, <3>1, <1>1 DEF Making
      <4>2. QED
        BY <4>1, <1>1 DEF NewFile, Old
    <3>2. CASE Writing(m)
      <4>1. at'[n] = [at[n] EXCEPT !.time = clock'] /\ at[n] # Nobody /\ clock' = clock + 1
        BY <2>2, <3>2, <1>1 DEF Writing
      <4>2. at[n] \in Identity
        BY <4>1, <1>1 DEF Content
      <4>3. at'[n].time = clock' /\ at'[n].inode = at[n].inode
        BY <4>1, <4>2 DEF Identity
      <4>4. at[n].inode \in Name \cup 1 .. clock
        BY <1>4, <4>1 DEF Old
      <4>5. QED
        BY <4>1, <4>3, <4>4, <1>1 DEF Old
    <3>3. CASE Removing(m)
      BY <2>2, <3>3, <1>1 DEF Removing, Old
    <3>4. QED
      BY <2>2, <3>1, <3>2, <3>3
  <2>3. ASSUME NEW k \in Name, NEW m \in Name, Moving(k, m) PROVE Old(at'[n], clock')
    <3>1. at'[n] = Nobody \/ at'[n] = at[n] \/ at'[n] = at[k]
      BY <2>3, <1>1 DEF Moving
    <3>2. Old(Nobody, clock')
      BY DEF Old
    <3>3. QED
      BY <3>1, <3>2, <1>1, <1>3, <1>4
  <2>4. ASSUME NEW m \in Name, Making(m) \/ Writing(m) \/ Removing(m), n # m PROVE at'[n] = at[n]
    BY <2>4, <1>1 DEF Making, Writing, Removing
  <2>5. QED
    BY <2>1, <2>2, <2>3, <2>4, FileSteps
<1>6. ASSUME NEW n \in Name, seen' # NoItem PROVE Old(seen'[n], clock')
  <2>1. CASE seen' = seen
    BY <2>1, <1>6, <1>1, <1>3, <1>4
  <2>2. CASE seen' = at
    BY <2>2, <1>1, <1>3, <1>4
  <2>3. QED
    BY <2>1, <2>2, <1>6, SeenSteps
<1>7. QED
  BY <1>5, <1>6 DEF Stamped

(* No file gets two names. *)
LEMMA DistinctStep ==
  ASSUME TypeOK, Stamped, Distinct, [Next]_vars
  PROVE Distinct'
<1>1. /\ at \in [Name -> Content] /\ clock \in 0 .. MaxTime /\ MaxTime \in Nat
  BY BoundsAssumption DEF TypeOK
<1>2. Unique(at)
  BY DEF Distinct
<1>3. Unique(at')
  <2>1. ASSUME NEW k \in Name, Making(k) PROVE Unique(at')
    <3>1. clock < MaxTime /\ at' = [at EXCEPT ![k] = NewFile] /\ NewFile.inode = clock + 1
      BY <2>1 DEF Making, NewFile
    <3>2. \A n \in Name : at[n] # Nobody => at[n].inode \in Name \cup 1 .. clock
      BY DEF Stamped, Old
    <3>3. clock + 1 \notin Name \cup 1 .. clock
      BY <3>1, <1>1, NameAssumption
    <3>4. ASSUME NEW n \in Name, NEW m \in Name, at'[n] # Nobody, at'[m] # Nobody,
                 at'[n].inode = at'[m].inode
          PROVE n = m
      BY <3>1, <3>2, <3>3, <3>4, <1>1, <1>2 DEF Unique
    <3>5. QED
      BY <3>4 DEF Unique
  <2>2. ASSUME NEW k \in Name, Writing(k) PROVE Unique(at')
    <3>1. at[k] # Nobody /\ at' = [at EXCEPT ![k] = [at[k] EXCEPT !.time = clock']]
      BY <2>2, <1>1 DEF Writing
    <3>2. [at[k] EXCEPT !.time = clock'].inode = at[k].inode
      BY <3>1, <1>1 DEF Content, Identity
    <3>3. \A n \in Name : at'[n] # Nobody => at[n] # Nobody /\ at'[n].inode = at[n].inode
      BY <3>1, <3>2, <1>1
    <3>4. QED
      BY <3>3, <1>2 DEF Unique
  <2>3. ASSUME NEW k \in Name, Removing(k) PROVE Unique(at')
    <3>1. \A n \in Name : at'[n] # Nobody => at'[n] = at[n]
      BY <2>3, <1>1 DEF Removing
    <3>2. QED
      BY <3>1, <1>2 DEF Unique
  <2>4. ASSUME NEW k \in Name, NEW l \in Name, Moving(k, l) PROVE Unique(at')
    <3>1. at' = [at EXCEPT ![l] = at[k], ![k] = Nobody]
      BY <2>4 DEF Moving
    <3>2. ASSUME NEW n \in Name, at'[n] # Nobody
          PROVE n # k /\ ((n = l /\ at'[n] = at[k]) \/ (n # l /\ at'[n] = at[n]))
      BY <3>1, <3>2, <1>1
    <3>3. QED
      BY <3>2, <1>2 DEF Unique
  <2>5. QED
    BY <2>1, <2>2, <2>3, <2>4, <1>2, FileSteps
<1>4. seen' # NoItem => Unique(seen')
  BY SeenSteps DEF Distinct
<1>5. QED
  BY <1>3, <1>4 DEF Distinct, Unique

----------------------------------------------------------------------------
(* The Apply, the worker and the baselines *)

(* An Apply that has not more before it than it had, and whose items keep  *)
(* their proposals, is as it should be.                                    *)
LEMMA JobsStay ==
  ASSUME Jobs, job'.stage = "none" => job' = NoJob, Busy' \subseteq Busy, job'.live = job.live,
         \A n \in Busy' : Proposed(job.live[n])'
  PROVE Jobs'
BY DEF Jobs

(* A plan takes an Apply along with its items. *)
LEMMA JobsFollow ==
  ASSUME TypeOK, Jobs, Workers, AcceptPlan
  PROVE Jobs'
<1> DEFINE live == [k \in Name |-> IF \E m \in Name : Moves(job.live[k], m)
                                   THEN CHOOSE m \in Name : Moves(job.live[k], m)
                                   ELSE job.live[k]]
<1>1. PICK overlap : item' = Planned(overlap)
  BY DEF AcceptPlan
<1>2. Acceptable /\ Apart
  BY DEF AcceptPlan
<1>3. job \in JobType
  BY DEF TypeOK, JobType
<1>4. job' = [job EXCEPT !.live = live]
  BY <1>3 DEF AcceptPlan, JobType
<1> HIDE DEF live
<1>5. job'.stage = job.stage /\ job'.live = live /\ job'.files = job.files /\ job'.left = job.left
  BY <1>3, <1>4 DEF JobType
<1>6. Busy' = Busy /\ Busy \subseteq Name
  BY <1>3, <1>5 DEF Busy, JobType
<1>7. job'.stage = "none" => job' = NoJob
  <2>1. SUFFICES ASSUME job = NoJob PROVE job' = job
    BY <1>5 DEF Jobs
  <2>2. \A k \in Name : live[k] = job.live[k]
    BY <2>1, MoveFacts, NoneAssumption DEF live, NoJob
  <2>3. live = job.live
    BY <2>2, <1>3 DEF live, JobType
  <2>4. QED
    BY <2>3, <1>3, <1>4 DEF JobType
<1>8. ASSUME NEW n \in Busy
      PROVE /\ Proposed(job.live[n]) /\ job.live[n] \in Name
            /\ \/ live[n] \in Name /\ Moves(job.live[n], live[n])
               \/ live[n] = job.live[n] /\ ~\E m \in Name : Moves(job.live[n], m)
  BY <1>6, <1>8 DEF Jobs, live
<1>9. ASSUME NEW n \in Busy PROVE live[n] \in Name /\ Proposed(job.live[n])'
  <2>1. /\ item'[live[n]] # NoItem /\ Keeps(item'[live[n]], item[job.live[n]])
        /\ live[n] \in Name
    BY <1>1, <1>2, <1>8, PlanKeeps
  <2>2. item'[live[n]].proposal
    BY <2>1, <1>8 DEF Keeps, Proposed
  <2>3. QED
    BY <2>1, <2>2, <1>5 DEF Proposed, Loaded
<1>10. ASSUME NEW n \in Busy, NEW m \in Busy, live[n] = live[m] PROVE n = m
  <2>1. Loaded(job.live[n]) /\ Loaded(job.live[m])
    BY <1>8 DEF Proposed
  <2>2. job.live[n] = job.live[m]
    BY <2>1, <1>2, <1>8, <1>10, MoveFacts DEF Apart
  <2>3. QED
    BY <2>2, <1>10 DEF Jobs
<1>11. QED
  BY <1>5, <1>6, <1>7, <1>9, <1>10 DEF Jobs

(* The items an Apply is to write keep their proposals. *)
LEMMA JobsStep ==
  ASSUME TypeOK, Jobs, Workers, [Next]_vars
  PROVE Jobs'
<1>1. job \in JobType /\ item \in [Name -> Item \cup {NoItem}]
  BY DEF TypeOK, JobType
<1>2. job.stage = "none" => Busy = {}
  BY DEF Busy
<1>3. job = NoJob => Busy = {}
  BY <1>2 DEF NoJob
<1>4. ASSUME NEW n \in Name, Edit(n) \/ Resolve(n) PROVE Jobs'
  <2>1. job' = job /\ \A k \in Name : job.live[k] # n
    BY <1>4, Frames DEF Edit, Resolve, Idle
  <2>2. \E i : item' = [item EXCEPT ![n] = i]
    BY <1>4, <1>1 DEF Edit, Resolve
  <2>3. Busy' = Busy /\ Busy \subseteq Name
    BY <2>1, <1>1 DEF Busy, JobType
  <2>4. \A k \in Busy : item'[job.live[k]] = item[job.live[k]]
    BY <2>1, <2>2, <2>3, <1>1 DEF Jobs
  <2>5. \A k \in Busy : Proposed(job.live[k])'
    BY <2>1, <2>4 DEF Jobs, Proposed, Loaded
  <2>6. QED
    BY <2>1, <2>3, <2>5, JobsStay DEF Jobs
<1>5. CASE (\E n \in Name : RecycleFile(n)) \/ (\E n, m \in Name : RenameFile(n, m))
  <2>1. job = NoJob /\ job' = job
    BY <1>5, Frames DEF RecycleFile, RenameFile
  <2>2. Busy' = {}
    BY <2>1, <1>3 DEF Busy
  <2>3. QED
    BY <2>1, <2>2, JobsStay
<1>6. ASSUME NEW S \in SUBSET Name, BeginApply(S) PROVE Jobs'
  <2> DEFINE base == [n \in Name |-> IF n \in S THEN item[n].base ELSE Nobody]
             live == [n \in Name |-> IF n \in S THEN n ELSE Nobody]
  <2>1. job' = [NoJob EXCEPT !.stage = "check", !.files = S, !.base = base, !.live = live]
    BY <1>6 DEF BeginApply
  <2>2. item' = item /\ \A n \in S : Proposed(n)
    BY <1>6, Frames DEF BeginApply
  <2>3. job'.stage = "check" /\ job'.files = S /\ job'.live = live
    BY <2>1 DEF NoJob
  <2>4. Busy' = S
    BY <2>3 DEF Busy
  <2>5. \A n \in S : live[n] = n /\ Proposed(n)'
    BY <2>2 DEF Proposed, Loaded
  <2>6. QED
    BY <2>3, <2>4, <2>5 DEF Jobs
<1>7. CASE CheckSources
  <2>1. item' = item
    BY <1>7, Frames
  <2>2. /\ job.stage = "check" /\ job'.live = job.live
        /\ \/ job'.stage = "write" /\ job'.left = job.files
           \/ job'.stage = "captured"
    BY <1>1, <1>7 DEF CheckSources, JobType
  <2>3. Busy' \subseteq Busy
    BY <2>2 DEF Busy
  <2>4. \A k \in Busy' : Proposed(job.live[k])'
    BY <2>1, <2>2, <2>3 DEF Jobs, Proposed, Loaded
  <2>5. QED
    BY <2>2, <2>3, <2>4, JobsStay
<1>8. ASSUME NEW n \in Name, WriteFile(n) PROVE Jobs'
  <2>1. /\ job.stage = "write" /\ n \in Busy /\ job.live[n] \in Name
        /\ item' = item \/ \E i \in Item : item' = [item EXCEPT ![job.live[n]] = i]
        /\ \/ job' = [job EXCEPT !.left = @ \ {n}]
           \/ job' = [job EXCEPT !.left = @ \ {n}, !.wrote = @ \cup {n}]
    BY <1>8, WriteIs
  <2>2. job'.stage = "write" /\ job'.live = job.live /\ job'.left = job.left \ {n}
    BY <2>1, <1>1 DEF JobType
  <2>3. Busy' \subseteq Busy /\ n \notin Busy'
    BY <2>1, <2>2 DEF Busy
  <2>4. ASSUME NEW k \in Busy' PROVE Proposed(job.live[k])'
    <3>1. k \in Busy /\ k # n
      BY <2>3
    <3>2. job.live[k] # job.live[n] /\ job.live[k] \in Name /\ Proposed(job.live[k])
      BY <3>1, <2>1 DEF Jobs
    <3>3. item'[job.live[k]] = item[job.live[k]]
      BY <3>2, <2>1, <1>1
    <3>4. QED
      BY <3>2, <3>3, <2>2 DEF Proposed, Loaded
  <2>5. QED
    BY <2>2, <2>3, <2>4, JobsStay
<1>9. CASE EndWrites \/ Recapture
  <2>1. job'.stage \in {"ended", "captured"} /\ job'.live = job.live
    BY <1>1, <1>9 DEF EndWrites, Recapture, JobType
  <2>2. Busy' = {}
    BY <2>1 DEF Busy
  <2>3. QED
    BY <2>1, <2>2, JobsStay
<1>10. CASE Finish
  <2>1. job' = NoJob
    BY <1>10 DEF Finish
  <2>2. Busy' = {}
    BY <2>1 DEF Busy, NoJob
  <2>3. QED
    BY <2>1, <2>2 DEF Jobs
<1>11. CASE UNCHANGED <<job, item>>
  <2>1. Busy' = Busy
    BY <1>11 DEF Busy
  <2>2. \A k \in Busy : Proposed(job.live[k])'
    BY <1>11 DEF Jobs, Proposed, Loaded
  <2>3. QED
    BY <1>11, <2>1, <2>2, JobsStay DEF Jobs
<1>12. UNCHANGED vars => UNCHANGED <<job, item>>
  BY DEF vars, itemVars
<1>13. \/ DirectoryChanged \/ Poll \/ Flush \/ Look \/ WorkerFails \/ PlanIsStale \/ PlanIsRefused
       \/ ManualRefresh \/ Prune \/ Vanish \/ Return
       \/ (\E n \in Name : WriteInPlace(n) \/ PutFile(n) \/ RemoveFile(n))
       \/ (\E n, m \in Name : MoveFile(n, m))
       => UNCHANGED <<job, item>>
  BY Frames
<1>14. QED
  BY <1>4, <1>5, <1>6, <1>7, <1>8, <1>9, <1>10, <1>11, <1>12, <1>13, JobsFollow, Steps

(* What a started worker has of the items is so. *)
LEMMA FreshIsRight ==
  ASSUME NEW current \in BOOLEAN, Fresh(current), current => item' = item
  PROVE Workers' /\ worker'.stage = "run" /\ worker' # NoWorker
<1>1. PICK r \in {"none", "lost", "restored"}, s \in BOOLEAN : Started(r, s, current)
  BY DEF Fresh
<1>2. /\ worker'.stage = "run" /\ worker'.gone = (r = "lost")
      /\ worker'.gone => worker'.look = {} /\ worker'.old = {}
      /\ worker'.full = (r = "restored" \/ (r = "none" /\ s))
      /\ worker'.full => worker'.look = Name
      /\ \A n \in worker'.old : Loaded(n)
      /\ worker'.had = {n \in Name : Proposed(n)} /\ worker'.current = current
  BY <1>1 DEF Started
<1>3. worker' # NoWorker
  BY <1>2 DEF NoWorker
<1>4. worker'.full => ~worker'.gone
  BY <1>2
<1>5. current => \A n : (Loaded(n) => Loaded(n)') /\ (Proposed(n)' => Proposed(n))
  BY DEF Loaded, Proposed
<1>6. QED
  BY <1>2, <1>3, <1>4, <1>5 DEF Workers

(* What a worker has of the items is so until a revision changes. *)
LEMMA WorkersStep ==
  ASSUME TypeOK, Jobs, Workers, [Next]_vars
  PROVE Workers'
<1>1. worker \in WorkerType /\ item \in [Name -> Item \cup {NoItem}]
  BY DEF TypeOK, WorkerType
<1>2. worker' = NoWorker => Workers'
  BY DEF NoWorker, Workers
<1>3. worker' = worker /\ item' = item => Workers'
  BY DEF Workers, Loaded, Proposed
<1>4. CASE \/ Flush \/ PlanIsStale \/ ManualRefresh \/ Finish
  <2>1. item' = item
    BY <1>4, Frames
  <2>2. \/ Defer /\ worker' \in {worker, NoWorker}
        \/ \E busy \in BOOLEAN, all \in BOOLEAN : Drain(busy, TRUE, all)
    BY <1>4, Drainers
  <2>3. worker' \in {worker, NoWorker} \/ Fresh(TRUE)
    BY <2>2, DrainLeaves
  <2>4. QED
    BY <2>1, <2>3, <1>2, <1>3, FreshIsRight
<1>5. CASE (\E n \in Name : RecycleFile(n)) \/ (\E n, m \in Name : RenameFile(n, m))
  <2>1. Drain(FALSE, FALSE, TRUE) \/ (Drain(FALSE, TRUE, TRUE) /\ item' = item)
    BY <1>5, Drainers
  <2>2. Fresh(FALSE) \/ (Fresh(TRUE) /\ item' = item)
    BY <2>1, DrainLeaves
  <2>3. QED
    BY <2>2, FreshIsRight
<1>6. CASE Look
  <2>1. item' = item
    BY <1>6, Frames
  <2>2. /\ worker'.full = worker.full /\ worker'.gone = worker.gone /\ worker'.look = worker.look
        /\ worker'.old = worker.old /\ worker'.had = worker.had /\ worker'.current = worker.current
    BY <1>1, <1>6 DEF Look, WorkerType
  <2>3. QED
    BY <2>1, <2>2 DEF Workers, Loaded, Proposed
<1>7. CASE WorkerFails \/ PlanIsRefused \/ AcceptPlan
  BY <1>2, <1>7 DEF WorkerFails, PlanIsRefused, AcceptPlan
<1>8. Revised => Workers'
  <2>1. Revised => /\ worker'.full = worker.full /\ worker'.gone = worker.gone
                   /\ worker'.look = worker.look /\ worker'.old = worker.old /\ ~worker'.current
    BY <1>1 DEF Revised, WorkerType
  <2>2. QED
    BY <2>1 DEF Workers
<1>9. CASE \E n \in Name : Edit(n) \/ Resolve(n)
  BY <1>8, <1>9 DEF Edit, Resolve
<1>10. CASE Recapture
  <2>1. CASE Revised
    BY <1>8, <2>1
  <2>2. CASE job.wrote = {} /\ worker' = worker
    <3>1. item' = [n \in Name |-> item[n]]
      BY <1>10, <2>2 DEF Recapture
    <3>2. item' = item
      BY <3>1, <1>1
    <3>3. QED
      BY <3>2, <2>2, <1>3
  <2>3. QED
    BY <1>10, <2>1, <2>2 DEF Recapture
<1>11. ASSUME NEW n \in Name, WriteFile(n) PROVE Workers'
  <2>1. worker' = worker
    BY <1>11, Frames
  <2>2. CASE item' = item
    BY <2>1, <2>2, <1>3
  <2>3. ASSUME NEW k \in Name, NEW i \in Item, item' = [item EXCEPT ![k] = i], ~i.proposal
        PROVE Workers'
    <3>1. \A m \in Name : (Loaded(m) => Loaded(m)') /\ (Proposed(m)' => Proposed(m))
      BY <2>3, <1>1, Parts DEF Loaded, Proposed
    <3>2. worker.old \subseteq Name
      BY <1>1 DEF WorkerType
    <3>3. QED
      BY <2>1, <3>1, <3>2 DEF Workers
  <2>4. QED
    BY <2>2, <2>3, <1>11, WriteIs
<1>12. UNCHANGED vars => worker' = worker /\ item' = item
  BY DEF vars, itemVars
<1>13. \/ DirectoryChanged \/ Poll \/ Prune \/ CheckSources \/ EndWrites \/ Vanish \/ Return
       \/ (\E S \in SUBSET Name : BeginApply(S))
       \/ (\E n \in Name : WriteInPlace(n) \/ PutFile(n) \/ RemoveFile(n))
       \/ (\E n, m \in Name : MoveFile(n, m))
       => worker' = worker /\ item' = item
  BY Frames
<1>14. QED
  BY <1>3, <1>4, <1>5, <1>6, <1>7, <1>9, <1>10, <1>11, <1>12, <1>13, Steps

(* An item that is current was read from a file. *)
LEMMA BasesStep ==
  ASSUME TypeOK, Jobs, Bases, [Next]_vars
  PROVE Bases'
<1>1. item \in [Name -> Item \cup {NoItem}] /\ worker \in WorkerType
  BY DEF TypeOK, WorkerType
<1>2. \A n \in Name : Loaded(n) /\ item[n].base = Nobody => item[n].state # "current"
  BY DEF Bases
<1>3. CASE AcceptPlan
  <2>1. PICK overlap : item' = Planned(overlap)
    BY <1>3 DEF AcceptPlan
  <2>2. ASSUME NEW m \in Name, Planned(overlap)[m] # NoItem, Planned(overlap)[m].base = Nobody
        PROVE Planned(overlap)[m].state # "current"
    <3>1. CASE worker.gone
      <4>1. Planned(overlap)[m] = IF Loaded(m) /\ item[m].state # "unavailable"
               THEN [item[m] EXCEPT !.state = "unavailable", !.disk = Nobody] ELSE item[m]
        BY <3>1 DEF Planned
      <4>2. Loaded(m)
        BY <2>2, <4>1 DEF Loaded
      <4>3. item[m] \in Item
        BY <4>2, <1>1 DEF Loaded
      <4>4. [item[m] EXCEPT !.state = "unavailable", !.disk = Nobody].state = "unavailable"
        BY <4>3 DEF Item
      <4>5. QED
        BY <4>1, <4>2, <4>4
    <3>2. ASSUME WayMoved(m, Planned(overlap)[m]) PROVE Planned(overlap)[m].state = "moved"
      <4>1. PICK n \in Name : /\ Moves(n, m)
                              /\ Planned(overlap)[m] = Followed(item[n], m, n \in worker.had)
        BY <3>2 DEF WayMoved
      <4>2. item[n] \in Item /\ (n \in worker.had) \in BOOLEAN
        BY <4>1, <1>1, MoveFacts DEF Loaded
      <4>3. IsFollowed(Followed(item[n], m, n \in worker.had), item[n], m, n \in worker.had)
        BY <4>2, FollowedIs
      <4>4. QED
        BY <4>1, <4>3 DEF IsFollowed
    <3>3. ~WayNew(m, Planned(overlap)[m])
      BY <2>2 DEF WayNew, NewFiles, Read
    <3>4. ASSUME WayAsked(m, Planned(overlap)[m], m \in overlap)
          PROVE Planned(overlap)[m].state # "current"
      <4>1. item[m] \in Item /\ worker.view[m] \in Content
        BY <3>4, <1>1 DEF WayAsked, Loaded, WorkerType
      <4>2. (m \in worker.had) \in BOOLEAN /\ (m \in overlap) \in BOOLEAN
        OBVIOUS
      <4>3. IsRefreshed(Planned(overlap)[m], item[m], worker.view[m], m \in worker.had)
        BY <3>4, <4>1, <4>2, RefreshedIs DEF WayAsked
      <4>4. QED
        BY <4>3, <2>2 DEF IsRefreshed, Keeps
    <3>5. QED
      BY <3>1, <3>2, <3>3, <3>4, <2>2, <1>2, PlanWays DEF WayLeft, WayAlone, Loaded
  <2>3. QED
    BY <2>1, <2>2 DEF Bases, Loaded
<1>4. ASSUME NEW n \in Name, Edit(n) PROVE Bases'
  <2>1. item[n] \in Item /\ item' = [item EXCEPT ![n] = [item[n] EXCEPT !.proposal = ~item[n].proposal]]
    BY <1>1, <1>4 DEF Edit, Idle, Loaded
  <2>2. LET i == [item[n] EXCEPT !.proposal = ~item[n].proposal]
        IN  i.base = item[n].base /\ i.state = item[n].state
    BY <2>1 DEF Item
  <2>3. item[n] # NoItem
    BY <2>1, Parts
  <2>4. QED
    BY <2>1, <2>2, <2>3, <1>1, <1>2 DEF Bases, Loaded
<1>5. ASSUME NEW n \in Name, Resolve(n) PROVE Bases'
  <2>1. \E i : /\ item' = [item EXCEPT ![n] = i]
               /\ i # NoItem => i.base # Nobody
    BY <1>5 DEF Resolve, Read
  <2>2. QED
    BY <2>1, <1>1, <1>2 DEF Bases, Loaded
<1>6. ASSUME NEW n \in Name, RecycleFile(n) PROVE Bases'
  BY <1>1, <1>2, <1>6 DEF RecycleFile, Bases, Loaded
<1>7. ASSUME NEW n \in Name, NEW m \in Name, RenameFile(n, m) PROVE Bases'
  <2>1. item[n] \in Item /\ Loaded(n)
    BY <1>1, <1>7 DEF RenameFile, Loaded
  <2>2. LET i == [item[n] EXCEPT !.proposal = FALSE]
        IN  i.base = item[n].base /\ i.state = item[n].state
    BY <2>1 DEF Item
  <2>3. \/ item' = item
        \/ \E i : /\ item' = [item EXCEPT ![m] = i, ![n] = NoItem]
                  /\ i.base = item[n].base /\ i.state = item[n].state
    BY <1>7, <2>2 DEF RenameFile, itemVars
  <2>4. QED
    BY <2>1, <2>3, <1>1, <1>2 DEF Bases, Loaded
<1>8. ASSUME NEW n \in Name, WriteFile(n) PROVE Bases'
  <2>1. /\ job.live[n] \in Name /\ item[job.live[n]] \in Item
        /\ \/ item' = item
           \/ \E i : /\ item' = [item EXCEPT ![job.live[n]] = i]
                     /\ i.base = item[job.live[n]].base /\ i.state = item[job.live[n]].state
    BY <1>8, WriteIs
  <2>2. Loaded(job.live[n])
    BY <2>1, Parts DEF Loaded
  <2>3. QED
    BY <2>1, <2>2, <1>1, <1>2 DEF Bases, Loaded
<1>9. CASE Recapture
  <2>1. item' = [n \in Name |-> IF n \in job.wrote /\ Loaded(n)
                               THEN [item[n] EXCEPT !.base = Disk(n), !.state = "own", !.disk = Nobody]
                               ELSE item[n]]
    BY <1>9 DEF Recapture
  <2>2. ASSUME NEW n \in Name, Loaded(n)
        PROVE [item[n] EXCEPT !.base = Disk(n), !.state = "own", !.disk = Nobody].state = "own"
    BY <2>2, <1>1 DEF Loaded, Item
  <2>3. QED
    BY <2>1, <2>2, <1>2 DEF Bases, Loaded
<1>10. CASE item' = item
  BY <1>10, <1>2 DEF Bases, Loaded
<1>11. UNCHANGED vars => item' = item
  BY DEF vars, itemVars
<1>12. \/ DirectoryChanged \/ Poll \/ Flush \/ Look \/ WorkerFails \/ PlanIsStale \/ PlanIsRefused
       \/ ManualRefresh \/ Prune \/ CheckSources \/ EndWrites \/ Finish \/ Vanish \/ Return
       \/ (\E S \in SUBSET Name : BeginApply(S))
       \/ (\E n \in Name : WriteInPlace(n) \/ PutFile(n) \/ RemoveFile(n))
       \/ (\E n, m \in Name : MoveFile(n, m))
       => item' = item
  BY Frames
<1>13. QED
  BY <1>3, <1>4, <1>5, <1>6, <1>7, <1>8, <1>9, <1>10, <1>11, <1>12, Steps

----------------------------------------------------------------------------
(* Behind news of a loss *)

(* After a full pass, of a name that is said to be missing there is no     *)
(* file.                                                                   *)
LEMMA PlanMissing ==
  ASSUME TypeOK, Workers, Bases, Acceptable, worker.full, NEW overlap, NEW m \in Name,
         Planned(overlap)[m] # NoItem, Planned(overlap)[m].state = "missing"
  PROVE Disk(m) = Nobody
<1>1. item \in [Name -> Item \cup {NoItem}] /\ worker \in WorkerType
  BY DEF TypeOK, WorkerType
<1>2. ~worker.gone /\ m \in Asked /\ Unchanged
  BY DEF Workers, Asked, Acceptable
<1>3. ~WayMoved(m, Planned(overlap)[m])
  <2>1. SUFFICES ASSUME WayMoved(m, Planned(overlap)[m]) PROVE FALSE
    OBVIOUS
  <2>2. PICK n \in Name : Moves(n, m) /\ Planned(overlap)[m] = Followed(item[n], m, n \in worker.had)
    BY <2>1 DEF WayMoved
  <2>3. item[n] \in Item /\ (n \in worker.had) \in BOOLEAN
    BY <2>2, <1>1, MoveFacts DEF Loaded
  <2>4. IsFollowed(Followed(item[n], m, n \in worker.had), item[n], m, n \in worker.had)
    BY <2>3, FollowedIs
  <2>5. QED
    BY <2>2, <2>4 DEF IsFollowed
<1>4. ~WayNew(m, Planned(overlap)[m]) /\ ~WayLeft(m, Planned(overlap)[m])
  BY DEF WayNew, WayLeft, Read
<1>5. ~WayAlone(m, Planned(overlap)[m])
  BY <1>2 DEF WayAlone, Loaded
<1>6. WayAsked(m, Planned(overlap)[m], m \in overlap)
  BY <1>2, <1>3, <1>4, <1>5, PlanWays
<1>7. item[m] \in Item /\ worker.view[m] \in Content
  BY <1>6, <1>1 DEF WayAsked, Loaded, WorkerType
<1>8. (m \in worker.had) \in BOOLEAN /\ (m \in overlap) \in BOOLEAN
  OBVIOUS
<1>9. IsRefreshed(Planned(overlap)[m], item[m], worker.view[m], m \in worker.had)
  BY <1>6, <1>7, <1>8, RefreshedIs DEF WayAsked
<1>10. worker.view[m] = Nobody
  BY <1>9 DEF IsRefreshed
<1>11. worker.view[m] # item[m].base \/ item[m].state # "current"
  BY <1>6, <1>10 DEF Bases, WayAsked
<1>12. m \in Results
  BY <1>6, <1>11, <1>2 DEF Results, WayAsked
<1>13. QED
  BY <1>2, <1>10, <1>12 DEF Unchanged

(* A directory that is watched again was looked at as a whole. *)
LEMMA LostReturn ==
  ASSUME TypeOK, Workers, Bases, AcceptPlan, wired' = TRUE, wired' # wired
  PROVE Lost'
<1>1. PICK overlap \in SUBSET {x \in Asked : x \in worker.had} :
         item' = Planned(overlap) /\ UpdateDirectories(Planned(overlap))
  BY DEF AcceptPlan
<1>2. Acceptable /\ worker' = NoWorker
  BY DEF AcceptPlan
<1> DEFINE unsure == {n \in Name : ~Known(Planned(overlap)[n], Disk(n))}
<1>3. worker.full /\ there /\ seen' = at /\ unsure \subseteq forgotten'
  BY <1>1 DEF UpdateDirectories
<1>4. \A n \in Name : Disk(n) = at[n]
  BY <1>3, Parts
<1>5. ASSUME NEW n \in Name PROVE Loaded(n)' \/ n \in forgotten' \/ at[n] = Nobody
  <2>1. CASE Planned(overlap)[n] = NoItem /\ at[n] # Nobody
    <3>1. n \in unsure
      BY <2>1, <1>4 DEF Known
    <3>2. QED
      BY <3>1, <1>3
  <2>2. QED
    BY <2>1, <1>1 DEF Loaded
<1>6. ASSUME NEW n \in Name, Loaded(n)', item'[n].state = "missing" PROVE at[n] = Nobody
  BY <1>1, <1>2, <1>3, <1>4, <1>6, PlanMissing DEF Loaded
<1>7. reviewable' \subseteq Name
  <2>1. reviewable' = reviewable \/ reviewable' \subseteq Asked
    BY DEF AcceptPlan
  <2>2. QED
    BY <2>1 DEF Asked, TypeOK
<1>8. QED
  BY <1>2, <1>3, <1>5, <1>6, <1>7 DEF Lost

(* A comparison behind news of a loss notes what it sees. *)
LEMMA LostCompare ==
  ASSUME TypeOK, Lost, seen # NoItem, Compare, wired' = wired,
         UNCHANGED <<worker, item, reviewable>>
  PROVE Lost'
<1>1. seen' = at /\ rootEvent' = rootEvent /\ forgotten \subseteq forgotten'
  BY CompareTypes
<1>2. SUFFICES ASSUME wired, rootEvent = "lost" PROVE Lost'
  BY <1>1 DEF Lost
<1>3. {n \in Name : seen[n] # at[n]} \subseteq forgotten'
  BY <1>2 DEF Compare
<1>4. \A n \in Name : n \in forgotten' \/ at[n] = seen[n]
  BY <1>3
<1>5. \A n \in Name : Loaded(n)' = Loaded(n)
  BY DEF Loaded
<1>6. reviewable \subseteq Name
  BY DEF TypeOK
<1>7. QED
  BY <1>1, <1>2, <1>4, <1>5, <1>6 DEF Lost

(* A revision changes nothing of a worker that is not there. *)
LEMMA NoWorkerRevised == [NoWorker EXCEPT !.current = FALSE] = NoWorker
<1>1. NoWorker.current = FALSE /\ NoWorker \in WorkerType
  BY Parts DEF NoWorker
<1>2. ASSUME NEW w \in WorkerType, w.current = FALSE PROVE [w EXCEPT !.current = FALSE] = w
  BY <1>2 DEF WorkerType
<1>3. QED
  BY <1>1, <1>2

(* Nothing is under way behind news of a loss that the watch has outlived. *)
LEMMA LostStep ==
  ASSUME TypeOK, Wired, Jobs, Workers, Bases, Lost, [Next]_vars
  PROVE Lost'
<1>1. /\ item \in [Name -> Item \cup {NoItem}] /\ reviewable \subseteq Name
      /\ there \in BOOLEAN /\ wired \in BOOLEAN
  BY DEF TypeOK
<1>2. ASSUME rootEvent' = rootEvent, wired' = wired, seen' = seen,
             worker.stage = "none" => worker' = worker \/ worker' = NoWorker,
             forgotten \subseteq forgotten', reviewable' \subseteq reviewable,
             \A n \in Name : Loaded(n) => Loaded(n)',
             \A n \in reviewable' : Loaded(n)' /\ item'[n].state = "missing"
                                       => Loaded(n) /\ item[n].state = "missing"
      PROVE Lost'
  <2>1. SUFFICES ASSUME wired, rootEvent = "lost" PROVE Lost'
    BY <1>2 DEF Lost
  <2>2. worker = NoWorker /\ NoWorker.stage = "none"
    BY <2>1 DEF Lost, NoWorker
  <2>3. worker' = NoWorker
    BY <2>2, <1>2
  <2>4. QED
    BY <2>1, <2>3, <1>1, <1>2 DEF Lost
<1>3. CASE DirectoryChanged
  <2>1. UNCHANGED <<wired, worker, item, reviewable, there>> /\ seen # NoItem
    BY <1>3, Frames DEF DirectoryChanged, Wired
  <2>2. Compare \/ ~there
    BY <1>3 DEF DirectoryChanged
  <2>3. QED
    BY <2>1, <2>2, LostCompare DEF Lost, Wired
<1>4. CASE Poll
  <2>1. UNCHANGED <<worker, item, reviewable, there>>
    BY <1>4, Frames
  <2>2. \/ ~there /\ wired' = wired
        \/ rootEvent' = "restored"
        \/ seen # NoItem /\ Compare /\ wired' = wired
    BY <1>4 DEF Poll
  <2>3. QED
    BY <2>1, <2>2, LostCompare DEF Lost, Wired
<1>5. CASE \/ Flush \/ Finish \/ (\E n \in Name : RecycleFile(n))
           \/ (\E n, m \in Name : RenameFile(n, m))
  <2>1. \E busy, current, all \in BOOLEAN : Drain(busy, current, all)
    BY <1>5, Drainers
  <2>2. rootEvent' = "none"
    BY <2>1, DrainLeaves
  <2>3. QED
    BY <2>2 DEF Lost
<1>6. CASE PlanIsStale \/ ManualRefresh
  <2>1. UNCHANGED <<there, wired, seen, item, reviewable>>
    BY <1>6, Frames
  <2>2. CASE Drain(FALSE, TRUE, TRUE)
    <3>1. rootEvent' = "none"
      BY <2>2, DrainLeaves
    <3>2. QED
      BY <3>1 DEF Lost
  <2>3. CASE Defer /\ worker' \in {worker, NoWorker}
    <3>1. CASE there
      <4>1. rootEvent' = rootEvent /\ forgotten' = forgotten
        BY <2>3, <3>1 DEF Defer, ManualRoot
      <4>2. QED
        BY <4>1, <2>1, <2>3, <1>2 DEF Loaded
    <3>2. CASE ~there
      BY <3>2, <2>1 DEF Lost, Wired
    <3>3. QED
      BY <3>1, <3>2
  <2>4. QED
    BY <2>2, <2>3, <1>6, Drainers
<1>7. CASE Look \/ WorkerFails \/ PlanIsRefused
  <2>1. UNCHANGED <<wired, seen, rootEvent, item, reviewable>> /\ worker.stage # "none"
    BY <1>7, Frames DEF Look, WorkerFails, PlanIsRefused
  <2>2. forgotten \subseteq forgotten'
    BY <1>7 DEF Look, WorkerFails, PlanIsRefused
  <2>3. QED
    BY <2>1, <2>2, <1>2 DEF Loaded
<1>8. CASE AcceptPlan
  <2>1. rootEvent' = rootEvent /\ worker.stage = "planned"
    BY <1>8, Frames DEF AcceptPlan, Acceptable
  <2>2. wired' \in {wired, FALSE, TRUE}
    <3>1. PICK items : UpdateDirectories(items)
      BY <1>8 DEF AcceptPlan
    <3>2. QED
      BY <3>1 DEF UpdateDirectories
  <2>3. ~(wired /\ rootEvent = "lost")
    BY <2>1 DEF Lost, NoWorker
  <2>4. CASE wired' = TRUE /\ wired' # wired
    BY <2>4, <1>8, LostReturn
  <2>5. QED
    BY <2>1, <2>2, <2>3, <2>4, <1>1 DEF Lost
<1>9. ASSUME NEW n \in Name, Edit(n) PROVE Lost'
  <2>1. /\ UNCHANGED <<wired, seen, rootEvent, forgotten>> /\ reviewable' = {}
        /\ worker' = [worker EXCEPT !.current = FALSE]
    BY <1>9, Frames DEF Edit, Revised
  <2>2. item[n] \in Item /\ item' = [item EXCEPT ![n] = [item[n] EXCEPT !.proposal = ~item[n].proposal]]
    BY <1>1, <1>9 DEF Edit, Idle, Loaded
  <2>3. [item[n] EXCEPT !.proposal = ~item[n].proposal] \in Item
    BY <2>2 DEF Item
  <2>4. \A k \in Name : Loaded(k) => Loaded(k)'
    BY <2>2, <2>3, <1>1, Parts DEF Loaded
  <2>5. worker = NoWorker => worker' = NoWorker
    BY <2>1, NoWorkerRevised
  <2>6. QED
    BY <2>1, <2>4, <2>5, <1>1 DEF Lost
<1>10. ASSUME NEW n \in Name, Resolve(n) PROVE Lost'
  <2>1. /\ UNCHANGED <<wired, seen, rootEvent, forgotten>> /\ reviewable' = {}
        /\ worker' = [worker EXCEPT !.current = FALSE] /\ n \in reviewable /\ Loaded(n)
    BY <1>10, Frames DEF Resolve, Revised, Idle
  <2>2. item[n] \in Item /\ Disk(n) \in Content
    BY <2>1, <1>1, DiskType DEF Loaded
  <2>3. Read(Disk(n), "current") # NoItem
    BY <2>2, Parts DEF State
  <2>4. [Read(Disk(n), "current") EXCEPT !.proposal = item[n].proposal] # NoItem
    <3>1. item[n].proposal \in BOOLEAN /\ "current" \in State
      BY <2>2 DEF Item, State
    <3>2. [Read(Disk(n), "current") EXCEPT !.proposal = item[n].proposal] \in Item
      BY <2>2, <3>1, EditedType
    <3>3. QED
      BY <3>2, Parts
  <2>5. \/ item[n].state = "missing" /\ item' = [item EXCEPT ![n] = NoItem]
        \/ \E i : i # NoItem /\ item' = [item EXCEPT ![n] = i]
    BY <1>10, <2>3, <2>4 DEF Resolve
  <2>6. worker = NoWorker => worker' = NoWorker
    BY <2>1, NoWorkerRevised
  <2>7. \A k \in Name : k # n => Loaded(k)' = Loaded(k)
    BY <2>5, <1>1 DEF Loaded
  <2>8. Loaded(n)' \/ item[n].state = "missing"
    BY <2>5, <1>1 DEF Loaded
  <2>9. QED
    BY <2>1, <2>6, <2>7, <2>8, <1>1 DEF Lost
<1>11. ASSUME NEW n \in Name, WriteFile(n) PROVE Lost'
  <2>1. UNCHANGED <<wired, seen, rootEvent, worker, reviewable>>
    BY <1>11, Frames
  <2>2. forgotten \subseteq forgotten'
    BY <1>11 DEF WriteFile, Notice
  <2>3. /\ job.live[n] \in Name /\ item[job.live[n]] \in Item
        /\ \/ item' = item
           \/ \E i \in Item : /\ item' = [item EXCEPT ![job.live[n]] = i]
                              /\ i.state = item[job.live[n]].state
    BY <1>11, WriteIs
  <2>4. \A k \in Name : Loaded(k)' = Loaded(k) /\ (Loaded(k) => item'[k].state = item[k].state)
    BY <2>3, <1>1, Parts DEF Loaded
  <2>5. QED
    BY <2>1, <2>2, <2>4, <1>1, <1>2
<1>12. CASE Recapture
  <2>1. UNCHANGED <<wired, seen, rootEvent, forgotten>>
    BY <1>12, Frames
  <2>2. /\ item' = [n \in Name |-> IF n \in job.wrote /\ Loaded(n)
                               THEN [item[n] EXCEPT !.base = Disk(n), !.state = "own", !.disk = Nobody]
                               ELSE item[n]]
        /\ (worker' = worker /\ reviewable' = reviewable) \/ Revised
    BY <1>12 DEF Recapture
  <2>3. ASSUME NEW n \in Name, Loaded(n)
        PROVE LET i == [item[n] EXCEPT !.base = Disk(n), !.state = "own", !.disk = Nobody]
              IN  i # NoItem /\ i.state = "own"
    <3>1. item[n] \in Item /\ Disk(n) \in Content /\ "own" \in State
      BY <2>3, <1>1, DiskType DEF Loaded, State
    <3>2. [item[n] EXCEPT !.base = Disk(n), !.state = "own", !.disk = Nobody] \in Item
      BY <3>1, EditedType
    <3>3. [item[n] EXCEPT !.base = Disk(n), !.state = "own", !.disk = Nobody].state = "own"
      BY <3>1 DEF Item
    <3>4. QED
      BY <3>2, <3>3, Parts
  <2>4. \A n \in Name : /\ Loaded(n)' = Loaded(n)
                        /\ Loaded(n) /\ item'[n].state = "missing" => item[n].state = "missing"
    BY <2>2, <2>3 DEF Loaded
  <2>5. reviewable' \subseteq reviewable
    BY <2>2 DEF Revised
  <2>6. worker = NoWorker => worker' = NoWorker
    BY <2>2, NoWorkerRevised DEF Revised
  <2>7. QED
    BY <2>1, <2>4, <2>5, <2>6, <1>1 DEF Lost
<1>13. CASE \/ \E n \in Name : WriteInPlace(n) \/ PutFile(n) \/ RemoveFile(n)
            \/ \E n, m \in Name : MoveFile(n, m)
  <2>1. UNCHANGED <<wired, seen, rootEvent, worker, item, reviewable>>
    BY <1>13, Frames
  <2>2. forgotten \subseteq forgotten'
    BY <1>13 DEF WriteInPlace, PutFile, RemoveFile, MoveFile, Notice
  <2>3. QED
    BY <2>1, <2>2, <1>2 DEF Loaded
<1>14. CASE Vanish
  <2>1. wired' = FALSE
    BY <1>14 DEF Vanish
  <2>2. QED
    BY <2>1 DEF Lost
<1>15. CASE Return
  <2>1. UNCHANGED <<wired, seen, rootEvent, worker, item, reviewable>>
    BY <1>15, Frames
  <2>2. forgotten \subseteq forgotten'
    BY <1>15 DEF Return
  <2>3. QED
    BY <2>1, <2>2, <1>2 DEF Loaded
<1>16. CASE UNCHANGED <<wired, seen, rootEvent, worker, item, reviewable, forgotten>>
  BY <1>16, <1>2 DEF Loaded
<1>17. UNCHANGED vars => UNCHANGED <<wired, seen, rootEvent, worker, item, reviewable, forgotten>>
  BY DEF vars, watchVars, queueVars, itemVars
<1>18. Prune \/ CheckSources \/ EndWrites \/ (\E S \in SUBSET Name : BeginApply(S))
       => UNCHANGED <<wired, seen, rootEvent, worker, item, reviewable, forgotten>>
  BY Frames
<1>19. QED
  BY <1>3, <1>4, <1>5, <1>6, <1>7, <1>8, <1>9, <1>10, <1>11, <1>12, <1>13, <1>14, <1>15, <1>16,
     <1>17, <1>18, Steps

----------------------------------------------------------------------------
(* No news is lost *)

(* Draining loses no name whose file and item stay as they are. *)
LEMMA DrainAccounts ==
  ASSUME TypeOK, NEW busy \in BOOLEAN, NEW current \in BOOLEAN, NEW all \in BOOLEAN,
         Drain(busy, current, all), busy => all, job' = job \/ all,
         NEW n \in Name, Settled(n) \/ Reason(n),
         at'[n] = at[n], item'[n] = item[n], dirty => dirty',
         polling' = polling, there' = there, seen' = seen
  PROVE Settled(n)' \/ Reason(n)'
<1>1. PICK r \in {"none", "lost", "restored"}, s \in BOOLEAN :
         /\ Serve(r, s, busy, current) /\ (sweep => s)
         /\ r = rootEvent \/ (r = "lost" /\ ~there)
         /\ all => r # "none" \/ s
  BY DEF Drain
<1>2. (busy => r # "none" \/ s) /\ (job' = job \/ r # "none" \/ s)
  BY <1>1
<1>3. QED
  BY <1>1, <1>2, ServeAccounts

(* A full pass that waits loses no name, whatever becomes of the worker. *)
LEMMA DeferAccounts ==
  ASSUME TypeOK, Defer, NEW n \in Name, Settled(n) \/ Reason(n),
         UNCHANGED <<at, there, dirty, seen, polling, item>>
  PROVE Settled(n)' \/ Reason(n)'
<1>1. /\ rootEvent' = (IF there THEN rootEvent ELSE "lost")
      /\ sweep' = (sweep \/ (there /\ rootEvent = "none"))
      /\ pending' = pending /\ forgotten' = forgotten
  BY DEF Defer, ManualRoot, ManualSweep
<1>2. /\ Loaded(n)' = Loaded(n) /\ Heard(pending)' = Heard(pending) /\ Polled(n)' = Polled(n)
      /\ Settled(n)' = Settled(n)
  BY <1>1 DEF Loaded, Heard, Priors, Polled, Settled, Known, Disk
<1>3. CASE ~there
  <2>1. ~Loaded(n) => Settled(n)
    BY <1>3 DEF Loaded, Settled, Known, Disk
  <2>2. QED
    BY <2>1, <1>1, <1>2, <1>3 DEF Reason
<1>4. CASE there /\ rootEvent = "none"
  BY <1>1, <1>4 DEF Reason, Queued
<1>5. CASE there /\ rootEvent # "none"
  <2>1. rootEvent = "restored" \/ rootEvent = "lost"
    BY <1>5 DEF TypeOK
  <2>2. Queued(n) => Queued(n)'
    BY <1>1, <1>2, <1>5 DEF Queued
  <2>3. QED
    BY <2>1, <2>2, <1>1, <1>2, <1>5 DEF Reason, Queued
<1>6. QED
  BY <1>3, <1>4, <1>5 DEF TypeOK

(* While an Apply runs, a pass will come after it. *)
LEMMA ApplyAccounts ==
  ASSUME NEW n \in Name, Settled(n) \/ Reason(n), job' # NoJob,
         UNCHANGED <<at, there, dirty, seen, polling, pending, rootEvent, sweep, forgotten>>,
         Loaded(n)' = Loaded(n), item'[n] = item[n] \/ Loaded(n)
  PROVE Settled(n)' \/ Reason(n)'
<1>1. CASE rootEvent # "lost" \/ Loaded(n)
  BY <1>1 DEF Reason
<1>2. CASE rootEvent = "lost" /\ ~Loaded(n)
  <2>1. item'[n] = item[n]
    BY <1>2
  <2>2. Settled(n)' = Settled(n) /\ Polled(n)' = Polled(n)
    BY <2>1 DEF Settled, Known, Disk, Polled
  <2>3. Queued(n) => Queued(n)'
    BY <1>2 DEF Queued, Heard, Priors, Loaded
  <2>4. QED
    BY <2>2, <2>3, <1>2 DEF Reason
<1>3. QED
  BY <1>1, <1>2

(* A change the system may tell of loses no name: the watcher is told, or  *)
(* the timer will see it, or it is noted as forgotten.                     *)
LEMMA NoticeAccounts ==
  ASSUME TypeOK, Wired, Lost, NEW ns \in SUBSET Name, Notice(ns),
         NEW n \in Name, Settled(n) \/ Reason(n),
         UNCHANGED <<there, seen, polling, pending, rootEvent, sweep, worker>>,
         n \notin ns => at'[n] = at[n],
         Loaded(n)' = Loaded(n), item'[n] = item[n] \/ (Loaded(n) /\ job' # NoJob),
         job # NoJob => job' # NoJob
  PROVE Settled(n)' \/ Reason(n)'
<1>1. /\ dirty' = (dirty \/ wired)
      /\ forgotten' = IF wired THEN forgotten
                      ELSE forgotten \cup {x \in ns : ~polling \/ (seen # NoItem /\ seen[x] = at'[x])}
  BY DEF Notice
<1>2. CASE wired
  <2>1. dirty' /\ seen' # NoItem /\ forgotten' = forgotten
    BY <1>1, <1>2 DEF Wired
  <2>2. CASE rootEvent # "lost" \/ Loaded(n)
    BY <2>1, <2>2 DEF Reason
  <2>3. CASE rootEvent = "lost" /\ ~Loaded(n)
    <3>1. n \in forgotten \/ seen[n] = Nobody
      BY <2>3, <1>2 DEF Lost
    <3>2. at'[n] = Nobody => Settled(n)'
      BY <2>3 DEF Settled, Known, Disk, Loaded
    <3>3. QED
      BY <3>1, <3>2, <2>1, <2>3 DEF Settled, Reason
  <2>4. QED
    BY <2>2, <2>3
<1>3. CASE ~wired /\ n \in ns
  <2>1. n \in forgotten' \/ (polling /\ (seen = NoItem \/ seen[n] # at'[n]))
    BY <1>1, <1>3
  <2>2. QED
    BY <2>1 DEF Settled, Reason, Polled
<1>4. CASE ~wired /\ n \notin ns
  <2>1. at'[n] = at[n] /\ dirty' = dirty /\ forgotten \subseteq forgotten'
    <3>1. dirty \in BOOLEAN /\ wired \in BOOLEAN
      BY DEF TypeOK
    <3>2. dirty' = dirty
      BY <3>1, <1>1, <1>4
    <3>3. forgotten \subseteq forgotten'
      BY <1>1, <1>4
    <3>4. QED
      BY <3>2, <3>3, <1>4
  <2>2. CASE item'[n] = item[n]
    <3>1. Settled(n) => Settled(n)'
      BY <2>1, <2>2 DEF Settled, Known, Disk
    <3>2. Polled(n)' = Polled(n) /\ (Carried(n) => Carried(n)')
      BY <2>1 DEF Polled, Carried, Covers, Disk
    <3>3. Queued(n) => Queued(n)'
      BY DEF Queued, Heard, Priors
    <3>4. QED
      BY <3>1, <3>2, <3>3, <2>1 DEF Reason
  <2>3. CASE Loaded(n) /\ job' # NoJob
    BY <2>3 DEF Reason
  <2>4. QED
    BY <2>2, <2>3
<1>5. QED
  BY <1>2, <1>3, <1>4

(* A change of a revision alone loses no name whose item stays as known,   *)
(* or becomes so.                                                          *)
LEMMA RevisedAccounts ==
  ASSUME TypeOK, NEW n \in Name, Settled(n) \/ Reason(n), Revised,
         UNCHANGED <<at, there, dirty, seen, polling, pending, rootEvent, sweep, forgotten, job>>,
         Known(item[n], Disk(n)) => Known(item'[n], Disk(n)), Loaded(n)' = Loaded(n)
  PROVE Settled(n)' \/ Reason(n)'
<1>1. /\ worker'.gone = worker.gone /\ worker'.full = worker.full /\ worker'.look = worker.look
      /\ worker'.old = worker.old /\ worker'.stage = worker.stage /\ worker'.view = worker.view
  BY DEF TypeOK, Revised
<1>2. Settled(n) => Settled(n)'
  BY DEF Settled, Known, Disk
<1>3. Polled(n)' = Polled(n) /\ (Carried(n) => Carried(n)')
  BY <1>1 DEF Polled, Carried, Covers, Disk
<1>4. Queued(n) => Queued(n)'
  BY DEF Queued, Heard, Priors
<1>5. QED
  BY <1>2, <1>3, <1>4 DEF Reason

(* Watching loses no name. *)
LEMMA WatchAccounts ==
  ASSUME IInv, DirectoryChanged \/ Poll, NEW n \in Name
  PROVE Settled(n)' \/ Reason(n)'
<1>1. /\ Settled(n) \/ Reason(n)
      /\ TypeOK /\ Distinct /\ Wired
  BY DEF IInv, Accounted
<1>2. UNCHANGED <<at, there, item>>
  BY Frames
<1>3. CASE there /\ seen # NoItem /\ Compare
  BY <1>1, <1>2, <1>3, CompareAccounts
<1>4. CASE DirectoryChanged /\ ~there
  <2>1. polling' /\ ~there'
    BY <1>4, <1>2 DEF DirectoryChanged
  <2>2. QED
    BY <2>1 DEF Reason, Polled
<1>5. CASE Poll /\ ~there
  <2>1. polling' /\ ~there'
    BY <1>5, <1>2, Frames DEF Poll
  <2>2. QED
    BY <2>1 DEF Reason, Polled
<1>6. CASE Poll /\ there /\ rootEvent' = "restored"
  BY <1>6 DEF Reason, Queued
<1>7. DirectoryChanged => seen # NoItem
  BY <1>1 DEF DirectoryChanged, Wired
<1>8. QED
  BY <1>3, <1>4, <1>5, <1>6, <1>7 DEF DirectoryChanged, Poll

(* Draining and deferring the queue, where files and items stay, lose no   *)
(* name.                                                                   *)
LEMMA BatchAccounts ==
  ASSUME IInv, Flush \/ PlanIsStale \/ ManualRefresh \/ Finish, NEW n \in Name
  PROVE Settled(n)' \/ Reason(n)'
<1>1. /\ Settled(n) \/ Reason(n)
      /\ TypeOK
  BY DEF IInv, Accounted
<1>2. UNCHANGED <<at, there, dirty, seen, polling, item>>
  BY Frames
<1>3. CASE Flush
  <2>1. job' = job /\ Drain(FALSE, TRUE, FALSE)
    BY <1>1, <1>3, Frames, Drainers
  <2>2. QED
    BY <2>1, <1>1, <1>2, DrainAccounts
<1>4. CASE Finish \/ Drain(FALSE, TRUE, TRUE)
  <2>1. PICK busy \in BOOLEAN : Drain(busy, TRUE, TRUE)
    BY <1>1, <1>4, Drainers
  <2>2. QED
    BY <2>1, <1>1, <1>2, DrainAccounts
<1>5. CASE Defer
  BY <1>1, <1>2, <1>5, DeferAccounts
<1>6. QED
  BY <1>1, <1>3, <1>4, <1>5, Drainers

(* A worker that looks, or is dropped, loses no name. *)
LEMMA WorkerAccounts ==
  ASSUME IInv, Look \/ WorkerFails \/ PlanIsRefused, NEW n \in Name
  PROVE Settled(n)' \/ Reason(n)'
<1>1. /\ Settled(n) \/ Reason(n)
      /\ TypeOK /\ Workers /\ worker \in WorkerType
  BY DEF IInv, Accounted, TypeOK, WorkerType
<1>2. UNCHANGED <<at, there, dirty, seen, polling, pending, rootEvent, sweep, item, job>>
  BY Frames
<1>3. /\ Polled(n)' = Polled(n) /\ Disk(n)' = Disk(n) /\ Loaded(n)' = Loaded(n)
      /\ Heard(pending)' = Heard(pending)
  BY <1>2 DEF Polled, Disk, Loaded, Heard, Priors
<1>4. Queued(n)' = Queued(n)
  BY <1>2, <1>3 DEF Queued
<1>5. CASE WorkerFails \/ PlanIsRefused
  <2>1. forgotten' = forgotten \cup Covers(worker)
    BY <1>5 DEF WorkerFails, PlanIsRefused
  <2>2. Carried(n) => n \in forgotten'
    BY <2>1 DEF Carried
  <2>3. Settled(n) => Settled(n)'
    BY <2>1, <1>2, <1>3 DEF Settled, Known
  <2>4. QED
    BY <2>2, <2>3, <1>1, <1>2, <1>3, <1>4 DEF Reason, Settled
<1>6. CASE Look
  <2>1. /\ forgotten' = forgotten
        /\ worker' = [worker EXCEPT !.stage = "planned",
                        !.view = [x \in Name |-> IF x \in worker.look \cup worker.old
                                                 THEN Disk(x) ELSE Nobody]]
    BY <1>6, Frames DEF Look
  <2>2. /\ worker'.gone = worker.gone /\ worker'.full = worker.full
        /\ worker'.look = worker.look /\ worker'.old = worker.old
        /\ worker'.view = [x \in Name |-> IF x \in worker.look \cup worker.old
                                          THEN Disk(x) ELSE Nobody]
    BY <2>1, <1>1 DEF WorkerType
  <2>3. n \in Covers(worker) => n \in Covers(worker)'
    BY <2>2, <1>3 DEF Covers, Loaded
  <2>4. n \in Covers(worker) /\ ~worker.gone => n \in worker.look \cup worker.old
    BY <1>1 DEF Covers, Workers
  <2>5. Carried(n) => Carried(n)'
    BY <2>2, <2>3, <2>4, <1>3 DEF Carried
  <2>6. Settled(n) => Settled(n)'
    BY <2>1, <1>2, <1>3 DEF Settled, Known
  <2>7. QED
    BY <2>5, <2>6, <1>1, <1>2, <1>3, <1>4 DEF Reason
<1>7. QED
  BY <1>5, <1>6

(* A step that leaves a name, its file and its reasons alone loses nothing *)
(* of it.                                                                  *)
LEMMA StillAccounts ==
  ASSUME NEW n \in Name, Settled(n) \/ Reason(n), at'[n] = at[n],
         UNCHANGED <<there, dirty, seen, polling, pending, rootEvent, sweep, worker, item, job>>,
         forgotten \subseteq forgotten'
  PROVE Settled(n)' \/ Reason(n)'
<1>1. Polled(n)' = Polled(n) /\ Disk(n)' = Disk(n) /\ Loaded(n)' = Loaded(n)
  BY DEF Polled, Disk, Loaded
<1>2. Queued(n)' = Queued(n)
  BY DEF Queued, Heard, Priors, Loaded
<1>3. Carried(n) => Carried(n)'
  BY <1>1 DEF Carried, Covers, Loaded
<1>4. Settled(n) => Settled(n)'
  BY <1>1 DEF Settled, Known
<1>5. QED
  BY <1>1, <1>2, <1>3, <1>4 DEF Reason

(* What the user edits and decides loses no name. *)
LEMMA EditAccounts ==
  ASSUME IInv, NEW k \in Name, Edit(k) \/ Resolve(k), NEW n \in Name
  PROVE Settled(n)' \/ Reason(n)'
<1>1. /\ Settled(n) \/ Reason(n)
      /\ TypeOK
  BY DEF IInv, Accounted
<1>2. /\ UNCHANGED <<at, there, dirty, seen, polling, pending, rootEvent, sweep, forgotten, job>>
      /\ Revised /\ Loaded(k)
  BY Frames DEF Edit, Resolve, Idle
<1>3. /\ item \in [Name -> Item \cup {NoItem}] /\ item[k] \in Item /\ Disk(k) \in Content
      /\ Disk(n)' = Disk(n)
  BY <1>1, <1>2, DiskType DEF TypeOK, Loaded, Disk
<1>4. CASE n # k
  <2>1. item'[n] = item[n]
    BY <1>3, <1>4 DEF Edit, Resolve
  <2>2. Loaded(n)' = Loaded(n)
    BY <2>1 DEF Loaded
  <2>3. QED
    BY <2>1, <2>2, <1>1, <1>2, RevisedAccounts
<1>5. CASE n = k /\ Edit(k)
  <2>1. item'[k] = [item[k] EXCEPT !.proposal = ~item[k].proposal]
    BY <1>3, <1>5 DEF Edit
  <2>2. /\ item'[k] \in Item
        /\ item'[k].state = item[k].state /\ item'[k].disk = item[k].disk
        /\ item'[k].shown = item[k].shown
    BY <2>1, <1>3 DEF Item
  <2>3. item'[k] # NoItem /\ item[k] # NoItem
    BY <2>2, <1>3, Parts
  <2>4. Loaded(k)' = Loaded(k)
    BY <2>3 DEF Loaded
  <2>5. Known(item[k], Disk(k)) => Known(item'[k], Disk(k))
    BY <2>2, <2>3 DEF Known, Flagged
  <2>6. QED
    BY <2>4, <2>5, <1>1, <1>2, <1>5, RevisedAccounts
<1>6. CASE n = k /\ Resolve(k)
  <2>1. /\ Read(Disk(k), "current") \in Item
        /\ [Read(Disk(k), "current") EXCEPT !.proposal = item[k].proposal] \in Item
    <3>1. item[k].proposal \in BOOLEAN /\ "current" \in State
      BY <1>3 DEF Item, State
    <3>2. QED
      BY <3>1, <1>3, Parts, EditedType
  <2>2. /\ Read(Disk(k), "current").shown = Disk(k)
        /\ [Read(Disk(k), "current") EXCEPT !.proposal = item[k].proposal].shown = Disk(k)
    BY DEF Read
  <2>3. \/ item'[k] = NoItem /\ Disk(k) = Nobody
        \/ item'[k] # NoItem /\ item'[k].shown = Disk(k)
    BY <2>1, <2>2, <1>3, <1>6, Parts DEF Resolve
  <2>4. Known(item'[k], Disk(k))
    BY <2>3 DEF Known
  <2>5. QED
    BY <2>4, <1>3, <1>6 DEF Settled, Known
<1>7. QED
  BY <1>4, <1>5, <1>6

(* A full pass has started. *)
LEMMA FullPass ==
  ASSUME TypeOK, NEW current \in BOOLEAN, Drain(FALSE, current, TRUE)
  PROVE /\ worker'.stage = "run" /\ (worker'.gone \/ worker'.full)
        /\ rootEvent' = "none"
<1>1. PICK r \in {"none", "lost", "restored"}, s \in BOOLEAN :
         Serve(r, s, FALSE, current) /\ (r # "none" \/ s)
  BY DEF Drain
<1>2. rootEvent' = "none" /\ Started(r, s, current)
  BY <1>1, Serving
<1>3. QED
  BY <1>1, <1>2 DEF Started

(* A disk operation of the panel loses no name: its full pass looks at     *)
(* every item, and at every name of a directory that is there.             *)
LEMMA OperateAccounts ==
  ASSUME IInv, NEW n \in Name,
         \/ \E k \in Name : RecycleFile(k)
         \/ \E k, m \in Name : RenameFile(k, m)
  PROVE Settled(n)' \/ Reason(n)'
<1>1. /\ Settled(n) \/ Reason(n)
      /\ TypeOK /\ item \in [Name -> Item \cup {NoItem}] /\ at \in [Name -> Content]
  BY DEF IInv, Accounted, TypeOK
<1>2. UNCHANGED <<there, seen, polling, job>>
  BY Frames
<1>3. there /\ (dirty => dirty')
  BY DEF RecycleFile, RenameFile, Operated
<1>4. ASSUME at'[n] = at[n], item'[n] = item[n],
             NEW current \in BOOLEAN, Drain(FALSE, current, TRUE)
      PROVE Settled(n)' \/ Reason(n)'
  BY <1>1, <1>2, <1>3, <1>4, DrainAccounts
<1>5. ASSUME item'[n] = NoItem, at'[n] = Nobody PROVE Settled(n)'
  BY <1>5 DEF Settled, Known, Disk
<1>6. ASSUME NEW k \in Name, RecycleFile(k) PROVE Settled(n)' \/ Reason(n)'
  <2>1. Drain(FALSE, FALSE, TRUE)
    BY <1>1, <1>6, Drainers
  <2>2. at' = [at EXCEPT ![k] = Nobody] /\ item' = [item EXCEPT ![k] = NoItem]
    BY <1>6 DEF RecycleFile
  <2>3. QED
    BY <2>1, <2>2, <1>1, <1>4, <1>5
<1>7. ASSUME NEW k \in Name, NEW m \in Name, RenameFile(k, m) PROVE Settled(n)' \/ Reason(n)'
  <2>1. CASE Drain(FALSE, TRUE, TRUE) /\ UNCHANGED <<at, item>>
    BY <2>1, <1>4
  <2>2. CASE at' = at /\ item' = item
    BY <2>1, <2>2, <1>1, <1>4, <1>7, Drainers
  <2>3. CASE \E i \in {item[k], [item[k] EXCEPT !.proposal = FALSE]} :
                /\ item' = [item EXCEPT ![m] = i, ![k] = NoItem]
                /\ at' = [at EXCEPT ![m] = at[k], ![k] = Nobody]
    <3>1. Drain(FALSE, FALSE, TRUE) \/ Drain(FALSE, TRUE, TRUE)
      BY <1>1, <1>7, Drainers
    <3>2. k # m /\ item[k] \in Item
      BY <1>1, <1>7 DEF RenameFile, Loaded
    <3>3. PICK i \in {item[k], [item[k] EXCEPT !.proposal = FALSE]} :
                /\ item' = [item EXCEPT ![m] = i, ![k] = NoItem]
                /\ at' = [at EXCEPT ![m] = at[k], ![k] = Nobody]
      BY <2>3
    <3>4. i # NoItem
      <4>1. [item[k] EXCEPT !.proposal = FALSE] \in Item
        BY <3>2 DEF Item
      <4>2. QED
        BY <4>1, <3>2, <3>3, Parts
    <3>5. CASE n = k
      BY <3>2, <3>3, <3>5, <1>1, <1>5
    <3>6. CASE n = m
      <4>1. Loaded(m)'
        BY <3>2, <3>3, <3>4, <1>1 DEF Loaded
      <4>2. worker'.stage = "run" /\ (worker'.gone \/ worker'.full) /\ rootEvent' = "none"
        BY <3>1, <1>1, FullPass
      <4>3. m \in Covers(worker)'
        BY <4>1, <4>2 DEF Covers
      <4>4. Carried(m)'
        BY <4>2, <4>3 DEF Carried
      <4>5. QED
        BY <4>2, <4>4, <3>6 DEF Reason
    <3>7. CASE n # k /\ n # m
      <4>1. at'[n] = at[n] /\ item'[n] = item[n]
        BY <3>3, <3>7, <1>1
      <4>2. QED
        BY <4>1, <3>1, <1>4
    <3>8. QED
      BY <3>5, <3>6, <3>7
  <2>4. QED
    BY <2>2, <2>3, <1>7 DEF RenameFile, itemVars
<1>8. QED
  BY <1>6, <1>7

(* An Apply loses no name before its own full pass. *)
LEMMA ApplyStepAccounts ==
  ASSUME IInv, NEW n \in Name,
         \/ CheckSources \/ EndWrites \/ Recapture
         \/ \E S \in SUBSET Name : BeginApply(S)
         \/ \E k \in Name : WriteFile(k)
  PROVE Settled(n)' \/ Reason(n)'
<1>1. /\ Settled(n) \/ Reason(n)
      /\ TypeOK /\ Wired /\ Lost /\ Jobs
      /\ item \in [Name -> Item \cup {NoItem}] /\ at \in [Name -> Content] /\ job \in JobType
  BY DEF IInv, Accounted, TypeOK, JobType
<1>2. NoJob.stage = "none"
  BY DEF NoJob
<1>3. CASE CheckSources \/ EndWrites \/ \E S \in SUBSET Name : BeginApply(S)
  <2>1. UNCHANGED <<at, there, dirty, seen, polling, pending, rootEvent, sweep, forgotten, item>>
    BY <1>3, Frames
  <2>2. job'.stage # "none"
    BY <1>1, <1>3 DEF CheckSources, EndWrites, BeginApply, JobType, NoJob
  <2>3. QED
    BY <2>1, <2>2, <1>1, <1>2, ApplyAccounts DEF Loaded
<1>4. CASE Recapture
  <2>1. UNCHANGED <<at, there, dirty, seen, polling, pending, rootEvent, sweep, forgotten>>
    BY <1>4, Frames
  <2>2. job'.stage # "none"
    BY <1>1, <1>4 DEF Recapture, JobType
  <2>3. item'[n] = item[n]
        \/ (Loaded(n) /\ item'[n] = [item[n] EXCEPT !.base = Disk(n), !.state = "own",
                                                    !.disk = Nobody])
    BY <1>4 DEF Recapture
  <2>4. Loaded(n) => [item[n] EXCEPT !.base = Disk(n), !.state = "own", !.disk = Nobody] # NoItem
    <3>1. SUFFICES ASSUME Loaded(n)
                   PROVE [item[n] EXCEPT !.base = Disk(n), !.state = "own", !.disk = Nobody] \in Item
      BY Parts
    <3>2. item[n] \in Item /\ Disk(n) \in Content /\ "own" \in State
      BY <3>1, <1>1, DiskType DEF Loaded, State
    <3>3. QED
      BY <3>2, EditedType
  <2>5. Loaded(n)' = Loaded(n)
    BY <2>3, <2>4 DEF Loaded
  <2>6. QED
    BY <2>1, <2>2, <2>3, <2>5, <1>1, <1>2, ApplyAccounts
<1>5. ASSUME NEW k \in Name, WriteFile(k) PROVE Settled(n)' \/ Reason(n)'
  <2>1. UNCHANGED <<there, seen, polling, pending, rootEvent, sweep, worker>>
    BY <1>5, Frames
  <2>2. /\ job.live[k] \in Name /\ item[job.live[k]] \in Item
        /\ \/ item' = item
           \/ \E i \in Item : item' = [item EXCEPT ![job.live[k]] = i]
    BY <1>1, <1>5, WriteIs
  <2>3. /\ Loaded(n)' = Loaded(n) /\ (item'[n] = item[n] \/ Loaded(n))
    BY <2>2, <1>1, Parts DEF Loaded
  <2>4. job'.stage # "none"
    BY <1>1, <1>5 DEF WriteFile, JobType
  <2>5. CASE Notice({k}) /\ at' = [at EXCEPT ![k] = NewFile]
    <3>1. n \notin {k} => at'[n] = at[n]
      BY <2>5, <1>1
    <3>2. QED
      BY <3>1, <2>1, <2>3, <2>4, <2>5, <1>1, <1>2, NoticeAccounts
  <2>6. CASE UNCHANGED <<at, dirty, item, forgotten>>
    BY <2>1, <2>3, <2>4, <2>6, <1>1, <1>2, ApplyAccounts
  <2>7. QED
    BY <2>5, <2>6, <1>5 DEF WriteFile
<1>6. QED
  BY <1>3, <1>4, <1>5

(* What other programs do to a name is told of, or seen by the timer, or   *)
(* noted as forgotten.                                                     *)
LEMMA OthersAccount ==
  ASSUME IInv, NEW n \in Name,
         \/ \E k \in Name : WriteInPlace(k) \/ PutFile(k) \/ RemoveFile(k)
         \/ \E k, m \in Name : MoveFile(k, m)
  PROVE Settled(n)' \/ Reason(n)'
<1>1. /\ Settled(n) \/ Reason(n)
      /\ TypeOK /\ Wired /\ Lost /\ Stamped
      /\ at \in [Name -> Content] /\ clock \in Nat
  BY BoundsAssumption DEF IInv, Accounted, TypeOK
<1>2. UNCHANGED <<there, seen, polling, pending, rootEvent, sweep, worker, item, job>>
  BY Frames
<1>3. ASSUME NEW ns \in SUBSET Name, Notice(ns), n \notin ns => at'[n] = at[n]
      PROVE Settled(n)' \/ Reason(n)'
  BY <1>1, <1>2, <1>3, NoticeAccounts DEF Loaded
<1>4. ASSUME NEW k \in Name, PutFile(k) \/ RemoveFile(k) PROVE Settled(n)' \/ Reason(n)'
  <2>1. Notice({k}) /\ (n \notin {k} => at'[n] = at[n])
    BY <1>1, <1>4 DEF PutFile, RemoveFile
  <2>2. QED
    BY <2>1, <1>3
<1>5. ASSUME NEW k \in Name, NEW m \in Name, MoveFile(k, m) PROVE Settled(n)' \/ Reason(n)'
  <2>1. Notice({k, m}) /\ (n \notin {k, m} => at'[n] = at[n])
    BY <1>1, <1>5 DEF MoveFile
  <2>2. QED
    BY <2>1, <1>3
<1>6. ASSUME NEW k \in Name, WriteInPlace(k) PROVE Settled(n)' \/ Reason(n)'
  <2>1. /\ at[k] \in Identity /\ at' = [at EXCEPT ![k].time = clock + 1]
    BY <1>1, <1>6 DEF WriteInPlace, Content
  <2>2. n # k => at'[n] = at[n]
    BY <2>1, <1>1
  <2>3. CASE Notice({k})
    BY <2>2, <2>3, <1>3
  <2>4. CASE dirty' = dirty /\ forgotten' = IF polling THEN forgotten ELSE forgotten \cup {k}
    <3>1. CASE n # k
      BY <2>2, <2>4, <3>1, <1>1, <1>2, StillAccounts
    <3>2. CASE n = k /\ ~polling
      BY <2>4, <3>2 DEF Settled
    <3>3. CASE n = k /\ polling
      <4>1. at'[k].time = clock + 1
        BY <2>1, <1>1 DEF Identity
      <4>2. seen # NoItem /\ seen[k] # Nobody => seen[k].time <= clock
        BY <1>1 DEF Stamped, Old
      <4>3. at'[k] # Nobody
        <5>1. PICK c \in Identity : c = at[k]
          BY <2>1
        <5>2. at'[k].inode = c.inode
          BY <5>1, <2>1, <1>1 DEF Identity
        <5>3. at'[k] = [c EXCEPT !.time = clock + 1]
          BY <5>1, <2>1, <1>1
        <5>4. clock + 1 \in 0 .. MaxTime
          BY <1>1, <1>6, BoundsAssumption DEF WriteInPlace
        <5>5. at'[k] \in Identity
          BY <5>3, <5>4 DEF Identity
        <5>6. QED
          BY <5>5, NoneAssumption
      <4>4. seen # NoItem /\ seen[k] # Nobody => seen[k].time # clock + 1
        <5>1. SUFFICES ASSUME seen # NoItem, seen[k] # Nobody PROVE seen[k].time # clock + 1
          OBVIOUS
        <5>2. seen[k].time \in Nat
          BY <5>1, <1>1, BoundsAssumption DEF TypeOK, Content, Identity
        <5>3. QED
          BY <5>1, <5>2, <4>2, <1>1
      <4>5. seen = NoItem \/ seen[k] # at'[k]
        BY <4>1, <4>3, <4>4
      <4>6. QED
        BY <4>5, <3>3, <1>2 DEF Reason, Polled
    <3>4. QED
      BY <3>1, <3>2, <3>3
  <2>5. QED
    BY <2>3, <2>4, <1>6 DEF WriteInPlace
<1>7. QED
  BY <1>4, <1>5, <1>6

(* A directory that goes leaves nothing unseen but on the items that are   *)
(* loaded; one that is back leaves what is noted, or a comparison to come. *)
LEMMA DirectoryAccounts ==
  ASSUME IInv, Vanish \/ Return, NEW n \in Name
  PROVE Settled(n)' \/ Reason(n)'
<1>1. /\ Settled(n) \/ Reason(n)
      /\ Wired
  BY DEF IInv, Accounted
<1>2. UNCHANGED <<at, seen, polling, pending, rootEvent, sweep, item>>
  BY Frames
<1>3. CASE Vanish
  <2>1. /\ there' = FALSE /\ dirty' = (dirty \/ wired)
        /\ forgotten' = IF wired \/ polling THEN forgotten ELSE Name
    BY <1>3 DEF Vanish
  <2>2. CASE polling
    BY <2>1, <2>2, <1>2 DEF Reason, Polled
  <2>3. CASE ~wired /\ ~polling
    BY <2>1, <2>3 DEF Settled
  <2>4. CASE wired
    <3>1. ~Loaded(n)' => Settled(n)'
      BY <2>1 DEF Settled, Known, Disk, Loaded
    <3>2. dirty'
      BY <2>1, <2>4
    <3>3. QED
      BY <3>1, <3>2 DEF Reason
  <2>5. QED
    BY <2>2, <2>3, <2>4
<1>4. CASE Return
  <2>1. /\ there' = TRUE
        /\ forgotten' = IF seen = NoItem /\ polling THEN forgotten
                        ELSE forgotten \cup {x \in Name : ~Known(item[x], at[x])}
    BY <1>4 DEF Return
  <2>2. CASE seen = NoItem /\ polling
    BY <2>1, <2>2, <1>2 DEF Reason, Polled
  <2>3. CASE ~(seen = NoItem /\ polling)
    <3>1. Known(item[n], at[n]) \/ n \in forgotten'
      BY <2>1, <2>3
    <3>2. Disk(n)' = at[n]
      BY <2>1, <1>2 DEF Disk
    <3>3. QED
      BY <3>1, <3>2, <1>2 DEF Settled, Known
  <2>4. QED
    BY <2>2, <2>3
<1>5. QED
  BY <1>3, <1>4

(* No step loses a name. *)
LEMMA AccountedStep ==
  ASSUME IInv, [Next]_vars
  PROVE Accounted'
<1>1. SUFFICES ASSUME NEW n \in Name PROVE Settled(n)' \/ Reason(n)'
  BY DEF Accounted
<1>2. Settled(n) \/ Reason(n)
  BY DEF IInv, Accounted
<1>3. CASE DirectoryChanged \/ Poll
  BY <1>3, WatchAccounts
<1>4. CASE Flush \/ PlanIsStale \/ ManualRefresh \/ Finish
  BY <1>4, BatchAccounts
<1>5. CASE Look \/ WorkerFails \/ PlanIsRefused
  BY <1>5, WorkerAccounts
<1>6. CASE AcceptPlan
  BY <1>2, <1>6, PlanAccounts DEF IInv
<1>7. CASE Prune \/ UNCHANGED vars
  <2>1. /\ UNCHANGED <<at, there, dirty, seen, polling, pending, rootEvent, sweep, worker,
                       item, job, forgotten>>
    BY <1>7, Frames DEF vars, diskVars, watchVars, queueVars, itemVars
  <2>2. QED
    BY <2>1, <1>2, StillAccounts
<1>8. ASSUME NEW k \in Name, Edit(k) \/ Resolve(k) PROVE Settled(n)' \/ Reason(n)'
  BY <1>8, EditAccounts
<1>9. CASE (\E k \in Name : RecycleFile(k)) \/ (\E k, m \in Name : RenameFile(k, m))
  BY <1>9, OperateAccounts
<1>10. CASE \/ CheckSources \/ EndWrites \/ Recapture
            \/ \E S \in SUBSET Name : BeginApply(S)
            \/ \E k \in Name : WriteFile(k)
  BY <1>10, ApplyStepAccounts
<1>11. CASE \/ \E k \in Name : WriteInPlace(k) \/ PutFile(k) \/ RemoveFile(k)
            \/ \E k, m \in Name : MoveFile(k, m)
  BY <1>11, OthersAccount
<1>12. CASE Vanish \/ Return
  BY <1>12, DirectoryAccounts
<1>13. QED
  BY <1>3, <1>4, <1>5, <1>6, <1>7, <1>8, <1>9, <1>10, <1>11, <1>12, Steps

----------------------------------------------------------------------------
(* The inductive invariant *)

(* The invariant holds when the directory has been scanned. *)
LEMMA InitIInv ==
  ASSUME Init
  PROVE IInv
<1>1. PICK N \in SUBSET Name :
         at = [n \in Name |-> IF n \in N THEN [inode |-> n, time |-> 0] ELSE Nobody]
  BY DEF Init
<1>2. 0 \in 0 .. MaxTime /\ MaxTime \in Nat /\ MaxActs \in Nat
  BY BoundsAssumption
<1>3. \A n \in Name : [inode |-> n, time |-> 0] \in Identity
  BY <1>2 DEF Identity
<1>4. at \in [Name -> Content]
  BY <1>1, <1>3 DEF Content
<1>5. /\ there = TRUE /\ clock = 0 /\ dirty = FALSE /\ wired = TRUE /\ seen = at
      /\ polling = FALSE /\ paused = FALSE /\ pending = [n \in Name |-> NoItem]
      /\ rootEvent = "none" /\ sweep = FALSE /\ worker = NoWorker /\ reviewable = {}
      /\ own = <<>> /\ job = NoJob /\ budget = MaxActs /\ forgotten = {}
      /\ item = [n \in Name |-> IF at[n] = Nobody THEN NoItem ELSE Read(at[n], "current")]
  BY DEF Init
<1>6. \A n \in Name : Read(at[n], "current") \in Item
  BY <1>4, Parts DEF State
<1>7. item \in [Name -> Item \cup {NoItem}]
  BY <1>5, <1>6
<1>8. seen # NoItem
  BY <1>4, <1>5, Parts
<1>9. TypeOK
  <2>1. NoWorker \in WorkerType /\ NoJob \in JobType
    BY Parts
  <2>2. own \in Seq(Entry)
    BY <1>5
  <2>3. /\ there \in BOOLEAN /\ clock \in 0 .. MaxTime
        /\ {dirty, wired, polling, paused, sweep} \subseteq BOOLEAN
        /\ pending \in [Name -> Event \cup {NoItem}]
        /\ rootEvent \in {"none", "lost", "restored"}
        /\ reviewable \subseteq Name /\ forgotten \subseteq Name /\ budget \in 0 .. MaxActs
    <3>1. {dirty, wired, polling, paused, sweep} \subseteq BOOLEAN /\ there \in BOOLEAN
      <4>1. dirty \in BOOLEAN /\ wired \in BOOLEAN /\ polling \in BOOLEAN
            /\ paused \in BOOLEAN /\ sweep \in BOOLEAN /\ there \in BOOLEAN
        BY <1>5
      <4>2. QED
        BY <4>1
    <3>2. clock \in 0 .. MaxTime /\ budget \in 0 .. MaxActs
      BY <1>2, <1>5
    <3>3. reviewable \subseteq Name /\ forgotten \subseteq Name
      BY <1>5
    <3>4. pending \in [Name -> Event \cup {NoItem}] /\ rootEvent \in {"none", "lost", "restored"}
      BY <1>5
    <3>5. QED
      BY <3>1, <3>2, <3>3, <3>4
  <2>4. QED
    BY <2>1, <2>2, <2>3, <1>4, <1>5, <1>7 DEF TypeOK, WorkerType, JobType
<1>10. Wired
  BY <1>5, <1>8 DEF Wired
<1>11. \A n \in Name : at[n] # Nobody => at[n].time = 0 /\ at[n].inode = n
  BY <1>1
<1>12. Stamped
  BY <1>2, <1>5, <1>11 DEF Stamped, Old
<1>13. Distinct
  BY <1>5, <1>11 DEF Distinct, Unique
<1>14. Jobs
  <2>1. NoJob.stage = "none"
    BY DEF NoJob
  <2>2. Busy = {}
    BY <2>1, <1>5 DEF Busy
  <2>3. QED
    BY <2>2, <1>5 DEF Jobs
<1>15. Workers
  <2>1. ~NoWorker.gone /\ ~NoWorker.full /\ ~NoWorker.current
    BY DEF NoWorker
  <2>2. QED
    BY <2>1, <1>5 DEF Workers
<1>16. ASSUME NEW n \in Name, Loaded(n)
       PROVE at[n] # Nobody /\ item[n].base = at[n] /\ item[n].shown = at[n]
  BY <1>5, <1>16 DEF Loaded, Read
<1>17. Bases
  BY <1>16 DEF Bases
<1>18. Lost
  BY <1>5 DEF Lost
<1>19. Accounted
  <2>1. ASSUME NEW n \in Name PROVE Known(item[n], Disk(n))
    <3>1. Disk(n) = at[n]
      BY <1>5 DEF Disk
    <3>2. CASE Loaded(n)
      BY <3>1, <3>2, <1>16 DEF Known, Loaded
    <3>3. CASE ~Loaded(n)
      <4>1. at[n] = Nobody
        BY <3>3, <1>5, <1>6, Parts DEF Loaded
      <4>2. QED
        BY <4>1, <3>1, <3>3 DEF Known, Loaded
    <3>4. QED
      BY <3>2, <3>3
  <2>2. QED
    BY <2>1 DEF Accounted, Settled
<1>20. QED
  BY <1>9, <1>10, <1>12, <1>13, <1>14, <1>15, <1>17, <1>18, <1>19 DEF IInv

(* Every step keeps the invariant. *)
LEMMA InductiveStep ==
  ASSUME IInv, [Next]_vars
  PROVE IInv'
<1>1. TypeOK /\ Wired /\ Stamped /\ Distinct /\ Jobs /\ Workers /\ Bases /\ Lost
  BY DEF IInv
<1>2. TypeOK' /\ Wired' /\ Stamped' /\ Distinct'
  BY <1>1, TypeStep, WiredStep, StampedStep, DistinctStep
<1>3. Jobs' /\ Workers' /\ Bases' /\ Lost'
  BY <1>1, JobsStep, WorkersStep, BasesStep, LostStep
<1>4. QED
  BY <1>2, <1>3, AccountedStep DEF IInv

(* The invariant holds in every behaviour. *)
LEMMA Invariance == Spec => []IInv
<1>1. Init => IInv
  BY InitIInv
<1>2. IInv /\ [Next]_vars => IInv'
  BY InductiveStep
<1>3. QED
  BY <1>1, <1>2, PTL DEF Spec

----------------------------------------------------------------------------
(* Theorems *)

(* Whatever order the watcher, the timers, the worker, the user, an Apply  *)
(* and other programs act in, every variable keeps its type, the queue, an *)
(* Apply's record of where its items are and the ledger among them: no     *)
(* slot reads an entry that another one has not left.                      *)
THEOREM RefreshTypes == Spec => []TypeOK
<1>1. IInv => TypeOK
  BY DEF IInv
<1>2. QED
  BY <1>1, Invariance, PTL

(* _on_directory_changed, EventCoalescer, _on_filesystem_batch,            *)
(* build_plan, _on_filesystem_plan and update_directories together lose no *)
(* news of a file but where they are seen to drop it: what the list shows  *)
(* is so, is marked as in doubt, or is still to be looked at.              *)
THEOREM NewsArrives == Spec => []UnseenIsUnderway
<1>1. IInv => UnseenIsUnderway
  <2>1. SUFFICES ASSUME IInv, NEW n \in Name
                 PROVE Known(item[n], Disk(n)) \/ Underway(n) \/ n \in forgotten
    BY DEF UnseenIsUnderway
  <2>2. Settled(n) \/ Reason(n)
    BY <2>1 DEF IInv, Accounted
  <2>3. Polled(n) \/ Queued(n) \/ Carried(n) \/ rootEvent = "lost" \/ dirty \/ job # NoJob
        => Underway(n)
    BY DEF Polled, Queued, Carried, Underway
  <2>4. QED
    BY <2>2, <2>3 DEF Settled, Reason
<1>2. QED
  BY <1>1, Invariance, PTL

(* A plan that is accepted leaves every proposal with its file.            *)
LEMMA AcceptStands ==
  ASSUME TypeOK, Workers, AcceptPlan
  PROVE Standing' = Standing
<1>1. PICK overlap : item' = Planned(overlap)
  BY DEF AcceptPlan
<1>2. Acceptable /\ Apart
  BY DEF AcceptPlan
<1>3. \A n \in Name : Proposed(n)' = (item'[n] # NoItem /\ item'[n].proposal)
  BY DEF Proposed, Loaded
<1>4. item \in [Name -> Item \cup {NoItem}] /\ item' \in [Name -> Item \cup {NoItem}]
  BY <1>1, PlanTypes DEF TypeOK
<1>5. ASSUME NEW n \in Name, Proposed(n)
      PROVE \E m \in Name : Proposed(m)' /\ item'[m].base = item[n].base
                                         /\ item'[m].shown = item[n].shown
  <2>1. PICK m \in Name : item'[m] # NoItem /\ Keeps(item'[m], item[n])
    BY <1>1, <1>2, <1>5, PlanKeeps
  <2>2. QED
    BY <2>1, <1>3, <1>5 DEF Keeps, Proposed
<1>6. ASSUME NEW m \in Name, Proposed(m)'
      PROVE \E n \in Name : Proposed(n) /\ item'[m].base = item[n].base
                                        /\ item'[m].shown = item[n].shown
  <2>1. item'[m] # NoItem /\ item'[m].proposal
    BY <1>3, <1>6
  <2>2. PICK n \in Name : Proposed(n) /\ Keeps(item'[m], item[n])
    BY <2>1, <1>1, <1>2, PlanKeeps
  <2>3. QED
    BY <2>2 DEF Keeps
<1>7. \A p : p \in Standing <=> \E n \in Name : Proposed(n) /\ p = <<item[n].base, item[n].shown>>
  BY DEF Standing
<1>8. \A p : p \in Standing' <=>
               \E n \in Name : Proposed(n)' /\ p = <<item'[n].base, item'[n].shown>>
  BY DEF Standing
<1>9. \A p : p \in Standing' <=> p \in Standing
  BY <1>5, <1>6, <1>7, <1>8
<1>10. QED
  BY <1>9

(* A plan goes without a successor only where it is stale, refused or      *)
(* accepted; the items stay in the first two cases.                        *)
LEMMA PlanEnds ==
  ASSUME IInv, [Next]_vars, worker.stage = "planned", worker' = NoWorker
  PROVE item' = item \/ AcceptPlan
<1>1. TypeOK /\ worker \in WorkerType /\ NoWorker.stage = "none"
  BY DEF IInv, TypeOK, WorkerType, NoWorker
<1>2. worker'.stage = "none" /\ worker' # worker
  BY <1>1
<1>3. ~\E busy, current, all \in BOOLEAN : Drain(busy, current, all)
  <2>1. SUFFICES ASSUME NEW busy \in BOOLEAN, NEW current \in BOOLEAN, NEW all \in BOOLEAN,
                        Drain(busy, current, all)
                 PROVE FALSE
    OBVIOUS
  <2>2. Fresh(current)
    BY <2>1, <1>1, <1>2, DrainLeaves
  <2>3. worker'.stage = "run"
    BY <2>2 DEF Fresh, Started
  <2>4. QED
    BY <2>3, <1>2
<1>4. ~Revised
  <2>1. [worker EXCEPT !.current = FALSE].stage = worker.stage
    BY <1>1 DEF WorkerType
  <2>2. QED
    BY <2>1, <1>2 DEF Revised
<1>5. CASE \/ DirectoryChanged \/ Poll \/ Flush \/ Look \/ WorkerFails \/ PlanIsStale
           \/ PlanIsRefused \/ ManualRefresh \/ Prune \/ CheckSources \/ EndWrites \/ Finish
           \/ Vanish \/ Return
           \/ \E n \in Name : WriteInPlace(n) \/ PutFile(n) \/ RemoveFile(n)
           \/ \E n, m \in Name : MoveFile(n, m)
           \/ \E S \in SUBSET Name : BeginApply(S)
           \/ UNCHANGED vars
  BY <1>5, Frames DEF vars, itemVars
<1>6. ~\E n \in Name : Edit(n) \/ Resolve(n)
  BY <1>4 DEF Edit, Resolve
<1>7. ~\E n \in Name : WriteFile(n)
  BY <1>2, Frames
<1>8. ~Recapture
  BY <1>2, <1>4 DEF Recapture
<1>9. ~(\E n \in Name : RecycleFile(n)) /\ ~(\E n, m \in Name : RenameFile(n, m))
  BY <1>1, <1>3, Drainers
<1>10. QED
  BY <1>5, <1>6, <1>7, <1>8, <1>9, Steps

(* _validate_plan, and the updater of what it lets through, leave every    *)
(* proposal of the user with the file it was made for.                     *)
THEOREM ProposalsKept == Spec => ProposalsStand
<1>1. ASSUME IInv, [Next]_vars
      PROVE [worker.stage = "planned" /\ worker' = NoWorker => Standing' = Standing]_vars
  <2>1. CASE UNCHANGED vars
    BY <2>1
  <2>2. ASSUME worker.stage = "planned", worker' = NoWorker PROVE Standing' = Standing
    <3>1. item' = item \/ AcceptPlan
      BY <1>1, <2>2, PlanEnds
    <3>2. CASE item' = item
      BY <3>2 DEF Standing, Proposed, Loaded
    <3>3. CASE AcceptPlan
      BY <3>3, <1>1, AcceptStands DEF IInv
    <3>4. QED
      BY <3>1, <3>2, <3>3
  <2>3. QED
    BY <2>1, <2>2
<1>2. QED
  BY <1>1, Invariance, PTL DEF Spec, ProposalsStand
=============================================================================
