---------------------------- MODULE ArperProofs ----------------------------
(***************************************************************************)
(* Proofs about the ARP resolver, for any number of requests.              *)
(***************************************************************************)
EXTENDS Arper, FiniteSetTheorems, TLAPS

-----------------------------------------------------------------------------
(* The inductive invariant. *)

\* A request whose goroutine was not started: no poller bears its name.
Unborn(r) == request[r].pc \in {"new", "adding", "refused"}

\* The pollers.  The fields are those of the only one that runs, and they stay
\* until it has ended.
PollerInv ==
  /\ \A p \in Requests : PollerRuns(p) => current = p
  /\ \A p \in Requests : p \in ended <=> PollerAt(p, "done")
  /\ \A p \in Requests : p \in cancelled \/ p = current => ~PollerAt(p, "none")
  /\ \A r \in Requests : Unborn(r) => PollerAt(r, "none")

\* The polling flag, and the request that waits for the last poller.
PollingInv ==
  /\ polling => current # None
  /\ polling /\ ~baseDone =>
       current \notin cancelled /\ poller[current] \in {"load", "notify", "wait"}
  /\ \A r \in Requests : At(r, "adding") => waiter = r
  /\ waiter # None => ~polling /\ current # None

\* Entries are there only until the poller that loaded them clears them.
EntriesInv ==
  \A e \in entries :
    /\ e.by = current
    /\ poller[e.by] \in {"load", "notify", "wait", "cancel", "clear"}

\* What a request found, sent or not, is not older than itself.
AnswersInv ==
  \A r \in Requests :
    /\ request[r].gone \subseteq ended
    /\ Unborn(r) => request[r].todo = {} /\ request[r].sent = {}
    /\ \A e \in request[r].todo \cup request[r].sent : e.by \notin request[r].gone

IInv ==
  TypeOK /\ PollerInv /\ PollingInv /\ EntriesInv /\ AnswersInv
    /\ ActiveRequestsAreCounted

-----------------------------------------------------------------------------
(* What the record updates do. *)

\* An update writes the record of one request.

LEMMA UpdateEffect ==
  ASSUME TypeOK, NEW r \in Requests, NEW new \in RequestRecords, Update(r, new)
  PROVE  /\ request' \in [Requests -> RequestRecords]
         /\ request'[r] = new
         /\ \A q \in Requests : q # r => request'[q] = request[q]
BY DEF TypeOK, Update

\* Every record that an action writes has the type of a request.
LEMMA RecordsOfRequests ==
  ASSUME TypeOK, NEW r \in Requests
  PROVE  /\ request[r] \in RequestRecords
         /\ \A label \in RequestLabels : [request[r] EXCEPT !.pc = label] \in RequestRecords
         /\ [request[r] EXCEPT !.pc = "spawned", !.gone = ended] \in RequestRecords
         /\ [request[r] EXCEPT !.pc = "offer", !.todo = Unsent(r)] \in RequestRecords
         /\ [request[r] EXCEPT !.pc = "offering", !.ctx = current] \in RequestRecords
         /\ \A e \in request[r].todo :
              [request[r] EXCEPT !.pc = "offer", !.ctx = None,
                 !.todo = request[r].todo \ {e}, !.sent = request[r].sent \cup {e}]
                   \in RequestRecords
         /\ [request[r] EXCEPT !.pc = "select", !.awake = FALSE] \in RequestRecords
         /\ [request[r] EXCEPT !.pc = "wait", !.ctx = current] \in RequestRecords
         /\ [request[r] EXCEPT !.pc = "find", !.ctx = None, !.awake = FALSE] \in RequestRecords
         /\ [request[r] EXCEPT !.pc = "complete", !.ctx = None, !.awake = FALSE, !.todo = {}]
               \in RequestRecords
         /\ [request[r] EXCEPT !.pc = "closed", !.sent = {}, !.gone = {}] \in RequestRecords
         /\ [request[r] EXCEPT !.done = TRUE] \in RequestRecords
         /\ [request[r] EXCEPT !.awake = TRUE] \in RequestRecords
<1>1. request[r] \in RequestRecords
  BY DEF TypeOK
<1>2. ended \subseteq Requests /\ current \in Requests \cup {None} /\ Unsent(r) \subseteq Entries
  BY DEF TypeOK, Unsent
<1>3. \A e \in request[r].todo :
         [request[r] EXCEPT !.pc = "offer", !.ctx = None,
                 !.todo = request[r].todo \ {e}, !.sent = request[r].sent \cup {e}]
                   \in RequestRecords
  <2> TAKE e \in request[r].todo
  <2>1. request[r].todo \ {e} \in SUBSET Entries /\ request[r].sent \cup {e} \in SUBSET Entries
    BY <1>1 DEF RequestRecords
  <2>2. QED
    BY <1>1, <2>1 DEF RequestRecords, RequestLabels
<1>4. QED
  BY <1>1, <1>2, <1>3 DEF RequestRecords, RequestLabels

\* A request that only moves on keeps everything else.
LEMMA GotoEffect ==
  ASSUME TypeOK, NEW r \in Requests, NEW label \in RequestLabels, Goto(r, label)
  PROVE  /\ request' \in [Requests -> RequestRecords]
         /\ request'[r].pc = label
         /\ request'[r].todo = request[r].todo
         /\ request'[r].sent = request[r].sent
         /\ request'[r].gone = request[r].gone
         /\ \A q \in Requests : q # r => request'[q] = request[q]
<1>1. /\ request' \in [Requests -> RequestRecords]
      /\ request'[r] = [request[r] EXCEPT !.pc = label]
      /\ \A q \in Requests : q # r => request'[q] = request[q]
  BY UpdateEffect, RecordsOfRequests DEF Goto
<1>2. request[r] \in RequestRecords
  BY DEF TypeOK
<1>3. QED
  BY <1>1, <1>2

\* A request that is spawned remembers which pollers had ended.
LEMMA SpawnedEffect ==
  ASSUME TypeOK, NEW r \in Requests, Spawned(r)
  PROVE  /\ request' \in [Requests -> RequestRecords]
         /\ request'[r].pc = "spawned"
         /\ request'[r].todo = request[r].todo
         /\ request'[r].sent = request[r].sent
         /\ request'[r].gone = ended
         /\ \A q \in Requests : q # r => request'[q] = request[q]
<1>1. /\ request' \in [Requests -> RequestRecords]
      /\ request'[r] = [request[r] EXCEPT !.pc = "spawned", !.gone = ended]
      /\ \A q \in Requests : q # r => request'[q] = request[q]
  BY UpdateEffect, RecordsOfRequests DEF Spawned
<1>2. request[r] \in RequestRecords
  BY DEF TypeOK
<1>3. QED
  BY <1>1, <1>2

\* What most steps do to the requests: none is spawned, counted or uncounted,
\* and an address comes from the entries.
QuietChange(q) ==
  /\ Unborn(q)' <=> Unborn(q)
  /\ Unborn(q) => request'[q].pc = request[q].pc
  /\ Counted(q)' <=> Counted(q)
  /\ request'[q].gone \subseteq request[q].gone
  /\ \A e \in request'[q].todo \cup request'[q].sent :
       \/ e \in request[q].todo \cup request[q].sent
       \/ e \in entries /\ ~Unborn(q)
Quiet ==
  /\ request' \in [Requests -> RequestRecords]
  /\ \A q \in Requests : QuietChange(q)

\* A record that stays is a quiet change.
LEMMA UnchangedIsQuiet ==
  ASSUME NEW q \in Requests, request'[q] = request[q]
  PROVE  QuietChange(q)
BY DEF QuietChange, Unborn, Counted

\* The steps of a request between being counted and not.
QuietStep(r) ==
  \/ Find(r) \/ Offer(r) \/ Deliver(r) \/ Listen(r) \/ Select(r)
  \/ Notified(r) \/ Leave(r) \/ CloseRequest(r) \/ CancelRequest(r)

\* They are quiet.
LEMMA QuietStepIsQuiet ==
  ASSUME TypeOK, NEW r \in Requests, QuietStep(r)
  PROVE  Quiet
<1>1. request[r] \in RequestRecords
  BY DEF TypeOK
<1>2. CASE Find(r)
  <2>1. Update(r, [request[r] EXCEPT !.pc = "offer", !.todo = Unsent(r)])
    BY <1>2 DEF Find
  <2>2. /\ request' \in [Requests -> RequestRecords]
        /\ request'[r] = [request[r] EXCEPT !.pc = "offer", !.todo = Unsent(r)]
        /\ \A q \in Requests : q # r => request'[q] = request[q]
    BY <2>1, UpdateEffect, RecordsOfRequests
  <2>3. QuietChange(r)
    BY <1>1, <1>2, <2>2 DEF Find, At, Unsent, QuietChange, Unborn, Counted
  <2>4. QED
    BY <2>2, <2>3, UnchangedIsQuiet DEF Quiet
<1>3. CASE Listen(r)
  <2>1. Update(r, [request[r] EXCEPT !.pc = "select", !.awake = FALSE])
    BY <1>3 DEF Listen
  <2>2. /\ request' \in [Requests -> RequestRecords]
        /\ request'[r] = [request[r] EXCEPT !.pc = "select", !.awake = FALSE]
        /\ \A q \in Requests : q # r => request'[q] = request[q]
    BY <2>1, UpdateEffect, RecordsOfRequests
  <2>3. QuietChange(r)
    BY <1>1, <1>3, <2>2 DEF Listen, At, QuietChange, Unborn, Counted
  <2>4. QED
    BY <2>2, <2>3, UnchangedIsQuiet DEF Quiet
<1>4. CASE Select(r)
  <2>1. Update(r, [request[r] EXCEPT !.pc = "wait", !.ctx = current])
    BY <1>4 DEF Select
  <2>2. /\ request' \in [Requests -> RequestRecords]
        /\ request'[r] = [request[r] EXCEPT !.pc = "wait", !.ctx = current]
        /\ \A q \in Requests : q # r => request'[q] = request[q]
    BY <2>1, UpdateEffect, RecordsOfRequests
  <2>3. QuietChange(r)
    BY <1>1, <1>4, <2>2 DEF Select, At, QuietChange, Unborn, Counted
  <2>4. QED
    BY <2>2, <2>3, UnchangedIsQuiet DEF Quiet
<1>5. CASE Notified(r)
  <2>1. Update(r, [request[r] EXCEPT !.pc = "find", !.ctx = None, !.awake = FALSE])
    BY <1>5 DEF Notified
  <2>2. /\ request' \in [Requests -> RequestRecords]
        /\ request'[r] = [request[r] EXCEPT !.pc = "find", !.ctx = None,
                           !.awake = FALSE]
        /\ \A q \in Requests : q # r => request'[q] = request[q]
    BY <2>1, UpdateEffect, RecordsOfRequests
  <2>3. QuietChange(r)
    BY <1>1, <1>5, <2>2 DEF Notified, At, QuietChange, Unborn, Counted
  <2>4. QED
    BY <2>2, <2>3, UnchangedIsQuiet DEF Quiet
<1>6. CASE Leave(r)
  <2>1. Update(r, [request[r] EXCEPT !.pc = "complete", !.ctx = None,
                    !.awake = FALSE, !.todo = {}])
    BY <1>6 DEF Leave
  <2>2. /\ request' \in [Requests -> RequestRecords]
        /\ request'[r] = [request[r] EXCEPT !.pc = "complete", !.ctx = None,
                           !.awake = FALSE, !.todo = {}]
        /\ \A q \in Requests : q # r => request'[q] = request[q]
    BY <2>1, UpdateEffect, RecordsOfRequests
  <2>3. QuietChange(r)
    BY <1>1, <1>6, <2>2 DEF Leave, At, QuietChange, Unborn, Counted
  <2>4. QED
    BY <2>2, <2>3, UnchangedIsQuiet DEF Quiet
<1>7. CASE CloseRequest(r)
  <2>1. Update(r, [request[r] EXCEPT !.pc = "closed", !.sent = {}, !.gone = {}])
    BY <1>7 DEF CloseRequest
  <2>2. /\ request' \in [Requests -> RequestRecords]
        /\ request'[r] = [request[r] EXCEPT !.pc = "closed", !.sent = {},
                           !.gone = {}]
        /\ \A q \in Requests : q # r => request'[q] = request[q]
    BY <2>1, UpdateEffect, RecordsOfRequests
  <2>3. QuietChange(r)
    BY <1>1, <1>7, <2>2 DEF CloseRequest, At, QuietChange, Unborn, Counted
  <2>4. QED
    BY <2>2, <2>3, UnchangedIsQuiet DEF Quiet
<1>8. CASE CancelRequest(r)
  <2>1. Update(r, [request[r] EXCEPT !.done = TRUE])
    BY <1>8 DEF CancelRequest
  <2>2. /\ request' \in [Requests -> RequestRecords]
        /\ request'[r] = [request[r] EXCEPT !.done = TRUE]
        /\ \A q \in Requests : q # r => request'[q] = request[q]
    BY <2>1, UpdateEffect, RecordsOfRequests
  <2>3. QuietChange(r)
    BY <1>1, <1>8, <2>2 DEF QuietChange, Unborn, Counted
  <2>4. QED
    BY <2>2, <2>3, UnchangedIsQuiet DEF Quiet
<1>9. CASE Offer(r)
  <2>1. CASE Goto(r, "listen") /\ At(r, "offer")
    <3>1. /\ request' \in [Requests -> RequestRecords]
          /\ request'[r] = [request[r] EXCEPT !.pc = "listen"]
          /\ \A q \in Requests : q # r => request'[q] = request[q]
      BY <2>1, UpdateEffect, RecordsOfRequests DEF Goto, RequestLabels
    <3>2. QuietChange(r)
      BY <1>1, <2>1, <3>1 DEF At, QuietChange, Unborn, Counted
    <3>3. QED
      BY <3>1, <3>2, UnchangedIsQuiet DEF Quiet
  <2>2. CASE /\ Update(r, [request[r] EXCEPT !.pc = "offering", !.ctx = current])
             /\ At(r, "offer")
    <3>1. /\ request' \in [Requests -> RequestRecords]
          /\ request'[r] = [request[r] EXCEPT !.pc = "offering", !.ctx = current]
          /\ \A q \in Requests : q # r => request'[q] = request[q]
      BY <2>2, UpdateEffect, RecordsOfRequests
    <3>2. QuietChange(r)
      BY <1>1, <2>2, <3>1 DEF At, QuietChange, Unborn, Counted
    <3>3. QED
      BY <3>1, <3>2, UnchangedIsQuiet DEF Quiet
  <2>3. QED
    BY <1>9, <2>1, <2>2 DEF Offer
<1>10. CASE Deliver(r)
  <2> DEFINE rec(e) == [request[r] EXCEPT !.pc = "offer", !.ctx = None,
                 !.todo = request[r].todo \ {e}, !.sent = request[r].sent \cup {e}]
  <2>1. PICK e \in request[r].todo : Update(r, rec(e))
    BY <1>10 DEF Deliver
  <2>2. /\ request' \in [Requests -> RequestRecords]
        /\ request'[r] = rec(e)
        /\ \A q \in Requests : q # r => request'[q] = request[q]
    BY <2>1, UpdateEffect, RecordsOfRequests
  <2>3. QuietChange(r)
    BY <1>1, <1>10, <2>2 DEF Deliver, At, QuietChange, Unborn, Counted
  <2>4. QED
    BY <2>2, <2>3, UnchangedIsQuiet DEF Quiet
<1>11. QED
  BY <1>2, <1>3, <1>4, <1>5, <1>6, <1>7, <1>8, <1>9, <1>10 DEF QuietStep

\* A notification changes no more than the channels that requests wait on.
LEMMA NotifyIsQuiet ==
  ASSUME TypeOK, NEW p \in Requests, NotifyRequests(p)
  PROVE  Quiet
<1>1. ASSUME NEW q \in Requests
      PROVE  request'[q] \in RequestRecords /\ QuietChange(q)
  <2>1. request[q] \in RequestRecords
    BY DEF TypeOK
  <2>2. \/ request'[q] = request[q]
        \/ request'[q] = [request[q] EXCEPT !.awake = TRUE]
    BY DEF NotifyRequests
  <2>3. CASE request'[q] = request[q]
    BY <2>1, <2>3, UnchangedIsQuiet
  <2>4. CASE request'[q] = [request[q] EXCEPT !.awake = TRUE]
    <3>1. request'[q] \in RequestRecords
      BY <2>4, RecordsOfRequests
    <3>2. QED
      BY <2>1, <2>4, <3>1 DEF QuietChange, Unborn, Counted
  <2>5. QED
    BY <2>2, <2>3, <2>4
<1>2. request' = [q \in Requests |-> request'[q]]
  BY DEF NotifyRequests
<1>3. QED
  BY <1>1, <1>2 DEF Quiet

-----------------------------------------------------------------------------
(* Quiet steps keep what the invariant says of the requests. *)

\* The count is that of the same requests.
LEMMA SameCount ==
  ASSUME ActiveRequestsAreCounted, UNCHANGED activeReqs,
         \A r \in Requests : Counted(r)' <=> Counted(r)
  PROVE  ActiveRequestsAreCounted'
<1>1. {r \in Requests : Counted(r)}' = {r \in Requests : Counted(r)}
  OBVIOUS
<1>2. QED
  BY <1>1 DEF ActiveRequestsAreCounted

\* A quiet step counts no request in or out.
LEMMA QuietKeepsCount ==
  ASSUME ActiveRequestsAreCounted, Quiet, UNCHANGED activeReqs
  PROVE  ActiveRequestsAreCounted'
BY SameCount DEF Quiet, QuietChange

\* What a request finds was loaded by a poller that had not ended.
LEMMA QuietKeepsAnswers ==
  ASSUME IInv, Quiet, ended \subseteq ended'
  PROVE  AnswersInv'
<1> SUFFICES ASSUME NEW r \in Requests
             PROVE  /\ request'[r].gone \subseteq ended'
                    /\ Unborn(r)' => request'[r].todo = {} /\ request'[r].sent = {}
                    /\ \A e \in request'[r].todo \cup request'[r].sent :
                         e.by \notin request'[r].gone
  BY DEF AnswersInv
<1>1. /\ request[r].gone \subseteq ended
      /\ Unborn(r) => request[r].todo = {} /\ request[r].sent = {}
      /\ \A e \in request[r].todo \cup request[r].sent : e.by \notin request[r].gone
  BY DEF IInv, AnswersInv
<1>2. QuietChange(r)
  BY DEF Quiet
<1>3. \A e \in entries : e.by \notin ended
  BY DEF IInv, TypeOK, EntriesInv, PollerInv, PollerAt
<1>4. request'[r].gone \subseteq ended'
  BY <1>1, <1>2 DEF QuietChange
<1>5. Unborn(r)' => request'[r].todo = {} /\ request'[r].sent = {}
  BY <1>1, <1>2 DEF QuietChange
<1>6. ASSUME NEW e \in request'[r].todo \cup request'[r].sent
      PROVE  e.by \notin request'[r].gone
  BY <1>1, <1>2, <1>3 DEF QuietChange
<1>7. QED
  BY <1>4, <1>5, <1>6

\* Who waits for a poller, and who has none, stays as it is.
LEMMA QuietKeepsUnborn ==
  ASSUME Quiet, NEW r \in Requests
  PROVE  (Unborn(r)' <=> Unborn(r)) /\ (At(r, "adding")' <=> At(r, "adding"))
BY DEF Quiet, QuietChange, Unborn, At

\* A quiet step that leaves all else.
LEMMA QuietKeepsIInv ==
  ASSUME IInv, Quiet, UNCHANGED shared
  PROVE  IInv'
<1>1. UNCHANGED <<baseDone, neighbours, activeReqs, polling, current, waiter,
                  cancelled, ended, poller, entries, events>>
  BY DEF shared, fields, environment
<1>2. TypeOK'
  BY <1>1 DEF IInv, Quiet, TypeOK
<1>3. PollerInv'
  BY <1>1, QuietKeepsUnborn DEF IInv, PollerInv, PollerRuns, PollerAt
<1>4. PollingInv'
  BY <1>1, QuietKeepsUnborn DEF IInv, PollingInv
<1>5. EntriesInv'
  BY <1>1 DEF IInv, EntriesInv
<1>6. AnswersInv'
  BY <1>1, QuietKeepsAnswers
<1>7. ActiveRequestsAreCounted'
  BY <1>1, QuietKeepsCount DEF IInv
<1>8. QED
  BY <1>2, <1>3, <1>4, <1>5, <1>6, <1>7 DEF IInv

-----------------------------------------------------------------------------
(* The steps of a poller. *)

\* While a poller runs the fields are its own, and no other runs.
LEMMA RunningPoller ==
  ASSUME IInv, NEW p \in Requests, PollerRuns(p)
  PROVE  /\ current = p /\ p \notin ended /\ current # None
         /\ \A q \in Requests : q # p => ~PollerRuns(q)
BY ArperAssumption DEF IInv, PollerInv, PollerRuns

\* New entries are those of the poller that loads them.
LEMMA LoadARPsKeeps ==
  ASSUME IInv, NEW p \in Requests, LoadARPs(p)
  PROVE  IInv'
<1>1. /\ PollerAt(p, "load") /\ poller' = [poller EXCEPT ![p] = "notify"]
      /\ UNCHANGED <<baseDone, neighbours, activeReqs, polling, current, waiter,
                     cancelled, ended, request>>
  BY DEF LoadARPs, PollerGoto, fields, environment
<1>2. /\ current = p /\ p \notin ended /\ current # None
      /\ \A q \in Requests : q # p => ~PollerRuns(q)
  BY <1>1, RunningPoller DEF PollerRuns, PollerAt
<1>3. TypeOK /\ TypeOK'
  <2>1. neighbours \subseteq Addrs
    BY DEF IInv, TypeOK
  <2>2. [addr : neighbours, by : {p}] \subseteq Entries
    BY <2>1 DEF Entries
  <2>3. entries' \subseteq Entries
    BY <2>2 DEF IInv, TypeOK, LoadARPs
  <2>4. events' \in Nat
    BY DEF IInv, TypeOK, LoadARPs
  <2>5. QED
    BY <1>1, <2>3, <2>4 DEF IInv, TypeOK, PollerLabels
<1>4. Quiet
  BY <1>1, <1>3, UnchangedIsQuiet DEF Quiet, TypeOK
<1>5. PollerInv'
  BY <1>1, <1>2, <1>3, <1>4, QuietKeepsUnborn DEF IInv, PollerInv, PollerRuns,
     PollerAt
<1>6. PollingInv'
  BY <1>1, <1>2, <1>3, <1>4, QuietKeepsUnborn DEF IInv, PollingInv
<1>7. EntriesInv'
  <2>1. \A e \in [addr : neighbours, by : {p}] : e.by = p
    OBVIOUS
  <2>2. \A e \in entries' : e.by = p
    BY <1>2, <2>1 DEF LoadARPs, IInv, EntriesInv
  <2>3. poller'[p] = "notify" /\ current' = p
    BY <1>1, <1>2, <1>3 DEF TypeOK
  <2>4. QED
    BY <2>2, <2>3 DEF EntriesInv
<1>8. AnswersInv'
  BY <1>1, <1>4, QuietKeepsAnswers
<1>9. ActiveRequestsAreCounted'
  BY <1>1, <1>4, QuietKeepsCount DEF IInv
<1>10. QED
  BY <1>3, <1>5, <1>6, <1>7, <1>8, <1>9 DEF IInv

\* The requests are told.
LEMMA NotifyRequestsKeeps ==
  ASSUME IInv, NEW p \in Requests, NotifyRequests(p)
  PROVE  IInv'
<1>1. /\ PollerAt(p, "notify") /\ poller' = [poller EXCEPT ![p] = "wait"]
      /\ UNCHANGED <<baseDone, neighbours, activeReqs, polling, current, waiter,
                     cancelled, ended, entries, events>>
  BY DEF NotifyRequests, PollerGoto, fields, environment
<1>2. /\ current = p /\ p \notin ended /\ current # None
      /\ \A q \in Requests : q # p => ~PollerRuns(q)
  BY <1>1, RunningPoller DEF PollerRuns, PollerAt
<1>3. TypeOK /\ TypeOK'
  BY <1>1, NotifyIsQuiet DEF IInv, TypeOK, PollerLabels, Quiet
<1>4. Quiet
  BY <1>3, NotifyIsQuiet
<1>5. PollerInv'
  BY <1>1, <1>2, <1>3, <1>4, QuietKeepsUnborn DEF IInv, PollerInv, PollerRuns,
     PollerAt
<1>6. PollingInv'
  BY <1>1, <1>2, <1>3, <1>4, QuietKeepsUnborn DEF IInv, PollingInv
<1>7. EntriesInv'
  BY <1>1, <1>2, <1>3 DEF IInv, EntriesInv
<1>8. AnswersInv'
  BY <1>1, <1>4, QuietKeepsAnswers
<1>9. ActiveRequestsAreCounted'
  BY <1>1, <1>4, QuietKeepsCount DEF IInv
<1>10. QED
  BY <1>3, <1>5, <1>6, <1>7, <1>8, <1>9 DEF IInv

\* The poller goes round.
LEMMA IntervalElapsedKeeps ==
  ASSUME IInv, NEW p \in Requests, IntervalElapsed(p)
  PROVE  IInv'
<1>1. /\ PollerAt(p, "wait") /\ poller' = [poller EXCEPT ![p] = "load"]
      /\ UNCHANGED <<baseDone, neighbours, activeReqs, polling, current, waiter,
                     cancelled, ended, entries, events, request>>
  BY DEF IntervalElapsed, PollerGoto, fields, environment
<1>2. /\ current = p /\ p \notin ended /\ current # None
      /\ \A q \in Requests : q # p => ~PollerRuns(q)
  BY <1>1, RunningPoller DEF PollerRuns, PollerAt
<1>3. TypeOK /\ TypeOK'
  BY <1>1 DEF IInv, TypeOK, PollerLabels
<1>4. Quiet
  BY <1>1, <1>3, UnchangedIsQuiet DEF Quiet, TypeOK
<1>5. PollerInv'
  BY <1>1, <1>2, <1>3, <1>4, QuietKeepsUnborn DEF IInv, PollerInv, PollerRuns,
     PollerAt
<1>6. PollingInv'
  BY <1>1, <1>2, <1>3, <1>4, QuietKeepsUnborn DEF IInv, PollingInv
<1>7. EntriesInv'
  BY <1>1, <1>2, <1>3 DEF IInv, EntriesInv
<1>8. AnswersInv'
  BY <1>1, <1>4, QuietKeepsAnswers
<1>9. ActiveRequestsAreCounted'
  BY <1>1, <1>4, QuietKeepsCount DEF IInv
<1>10. QED
  BY <1>3, <1>5, <1>6, <1>7, <1>8, <1>9 DEF IInv

\* The poller stops only when polling is over, or a.ctx is done.
LEMMA StopPollingKeeps ==
  ASSUME IInv, NEW p \in Requests, StopPolling(p)
  PROVE  IInv'
<1>1. /\ PollerAt(p, "wait") /\ poller' = [poller EXCEPT ![p] = "cancel"]
      /\ UNCHANGED <<baseDone, neighbours, activeReqs, polling, current, waiter,
                     cancelled, ended, entries, events, request>>
  BY DEF StopPolling, PollerGoto, fields, environment
<1>2. /\ current = p /\ p \notin ended /\ current # None
      /\ \A q \in Requests : q # p => ~PollerRuns(q)
  BY <1>1, RunningPoller DEF PollerRuns, PollerAt
<1>3. TypeOK /\ TypeOK'
  BY <1>1 DEF IInv, TypeOK, PollerLabels
<1>4. Quiet
  BY <1>1, <1>3, UnchangedIsQuiet DEF Quiet, TypeOK
<1>5. PollerInv'
  BY <1>1, <1>2, <1>3, <1>4, QuietKeepsUnborn DEF IInv, PollerInv, PollerRuns,
     PollerAt
<1>6. PollingInv'
  <2>1. ~(polling /\ ~baseDone)
    BY DEF IInv, PollingInv, StopPolling, PollingCtxDone
  <2>2. QED
    BY <1>1, <1>4, <2>1, QuietKeepsUnborn DEF IInv, PollingInv
<1>7. EntriesInv'
  BY <1>1, <1>2, <1>3 DEF IInv, EntriesInv
<1>8. AnswersInv'
  BY <1>1, <1>4, QuietKeepsAnswers
<1>9. ActiveRequestsAreCounted'
  BY <1>1, <1>4, QuietKeepsCount DEF IInv
<1>10. QED
  BY <1>3, <1>5, <1>6, <1>7, <1>8, <1>9 DEF IInv

\* It cancels its own context.
LEMMA CancelPollingKeeps ==
  ASSUME IInv, NEW p \in Requests, CancelPolling(p)
  PROVE  IInv'
<1>1. /\ PollerAt(p, "cancel") /\ poller' = [poller EXCEPT ![p] = "clear"]
      /\ UNCHANGED <<baseDone, neighbours, activeReqs, polling, current, waiter,
                     ended, entries, events, request>>
  BY DEF CancelPolling, PollerGoto, fields, environment
<1>2. /\ current = p /\ p \notin ended /\ current # None
      /\ \A q \in Requests : q # p => ~PollerRuns(q)
  BY <1>1, RunningPoller DEF PollerRuns, PollerAt
<1>3. TypeOK /\ TypeOK'
  BY <1>1, <1>2 DEF IInv, TypeOK, PollerLabels, CancelPolling
<1>4. Quiet
  BY <1>1, <1>3, UnchangedIsQuiet DEF Quiet, TypeOK
<1>5. PollerInv'
  BY <1>1, <1>2, <1>3, <1>4, QuietKeepsUnborn DEF IInv, PollerInv, PollerRuns,
     PollerAt, CancelPolling
<1>6. PollingInv'
  <2>1. ~(polling /\ ~baseDone)
    BY <1>1, <1>2 DEF IInv, PollingInv, PollerAt
  <2>2. QED
    BY <1>1, <1>4, <2>1, QuietKeepsUnborn DEF IInv, PollingInv
<1>7. EntriesInv'
  BY <1>1, <1>2, <1>3 DEF IInv, EntriesInv
<1>8. AnswersInv'
  BY <1>1, <1>4, QuietKeepsAnswers
<1>9. ActiveRequestsAreCounted'
  BY <1>1, <1>4, QuietKeepsCount DEF IInv
<1>10. QED
  BY <1>3, <1>5, <1>6, <1>7, <1>8, <1>9 DEF IInv

\* It clears its own entries.
LEMMA ClearEntriesKeeps ==
  ASSUME IInv, NEW p \in Requests, ClearEntries(p)
  PROVE  IInv'
<1>1. /\ PollerAt(p, "clear") /\ poller' = [poller EXCEPT ![p] = "close"]
      /\ UNCHANGED <<baseDone, neighbours, activeReqs, polling, current, waiter,
                     cancelled, ended, events, request>>
  BY DEF ClearEntries, PollerGoto, fields, environment
<1>2. /\ current = p /\ p \notin ended /\ current # None
      /\ \A q \in Requests : q # p => ~PollerRuns(q)
  BY <1>1, RunningPoller DEF PollerRuns, PollerAt
<1>3. TypeOK /\ TypeOK'
  BY <1>1 DEF IInv, TypeOK, PollerLabels, ClearEntries
<1>4. Quiet
  BY <1>1, <1>3, UnchangedIsQuiet DEF Quiet, TypeOK
<1>5. PollerInv'
  BY <1>1, <1>2, <1>3, <1>4, QuietKeepsUnborn DEF IInv, PollerInv, PollerRuns,
     PollerAt
<1>6. PollingInv'
  <2>1. ~(polling /\ ~baseDone)
    BY <1>1, <1>2 DEF IInv, PollingInv, PollerAt
  <2>2. QED
    BY <1>1, <1>4, <2>1, QuietKeepsUnborn DEF IInv, PollingInv
<1>7. EntriesInv'
  BY <1>1, <1>2, <1>3 DEF EntriesInv, ClearEntries
<1>8. AnswersInv'
  BY <1>1, <1>4, QuietKeepsAnswers
<1>9. ActiveRequestsAreCounted'
  BY <1>1, <1>4, QuietKeepsCount DEF IInv
<1>10. QED
  BY <1>3, <1>5, <1>6, <1>7, <1>8, <1>9 DEF IInv

\* It closes its own channel, with no entry left.
LEMMA ClosePollingDoneKeeps ==
  ASSUME IInv, NEW p \in Requests, ClosePollingDone(p)
  PROVE  IInv'
<1>1. /\ PollerAt(p, "close") /\ poller' = [poller EXCEPT ![p] = "done"]
      /\ UNCHANGED <<baseDone, neighbours, activeReqs, polling, current, waiter,
                     cancelled, entries, events, request>>
  BY DEF ClosePollingDone, PollerGoto, fields, environment
<1>2. /\ current = p /\ p \notin ended /\ current # None
      /\ \A q \in Requests : q # p => ~PollerRuns(q)
  BY <1>1, RunningPoller DEF PollerRuns, PollerAt
<1>3. TypeOK /\ TypeOK'
  BY <1>1, <1>2 DEF IInv, TypeOK, PollerLabels, ClosePollingDone
<1>4. Quiet
  BY <1>1, <1>3, UnchangedIsQuiet DEF Quiet, TypeOK
<1>5. PollerInv'
  BY <1>1, <1>2, <1>3, <1>4, QuietKeepsUnborn DEF IInv, TypeOK, PollerInv,
     PollerRuns, PollerAt, ClosePollingDone
<1>6. PollingInv'
  <2>1. ~(polling /\ ~baseDone)
    BY <1>1, <1>2 DEF IInv, PollingInv, PollerAt
  <2>2. QED
    BY <1>1, <1>4, <2>1, QuietKeepsUnborn DEF IInv, PollingInv
<1>7. EntriesInv'
  <2>1. entries = {}
    BY <1>1, <1>2 DEF IInv, EntriesInv, PollerAt
  <2>2. QED
    BY <1>1, <2>1 DEF EntriesInv
<1>8. AnswersInv'
  <2>1. ended \subseteq ended'
    BY DEF ClosePollingDone
  <2>2. QED
    BY <1>4, <2>1, QuietKeepsAnswers
<1>9. ActiveRequestsAreCounted'
  BY <1>1, <1>4, QuietKeepsCount DEF IInv
<1>10. QED
  BY <1>3, <1>5, <1>6, <1>7, <1>8, <1>9 DEF IInv

-----------------------------------------------------------------------------
(* The environment. *)

\* The end of a.ctx.
LEMMA CancelBaseKeeps ==
  ASSUME IInv, CancelBase
  PROVE  IInv'
<1>1. /\ baseDone'
      /\ UNCHANGED <<neighbours, activeReqs, polling, current, waiter, cancelled,
                     ended, poller, entries, events, request>>
  BY DEF CancelBase, fields
<1>2. TypeOK'
  BY <1>1 DEF IInv, TypeOK
<1>3. PollerInv'
  BY <1>1 DEF IInv, PollerInv, PollerRuns, PollerAt, Unborn
<1>4. PollingInv'
  BY <1>1 DEF IInv, PollingInv, At
<1>5. EntriesInv'
  BY <1>1 DEF IInv, EntriesInv
<1>6. AnswersInv'
  BY <1>1 DEF IInv, AnswersInv, Unborn
<1>7. ActiveRequestsAreCounted'
  BY <1>1 DEF IInv, ActiveRequestsAreCounted, Counted
<1>8. QED
  BY <1>2, <1>3, <1>4, <1>5, <1>6, <1>7 DEF IInv

\* The neighbour table.
LEMMA NeighbourChangesKeeps ==
  ASSUME IInv, NEW a \in Addrs, NeighbourChanges(a)
  PROVE  IInv'
<1>1. UNCHANGED <<baseDone, activeReqs, polling, current, waiter, cancelled,
                  ended, poller, entries, request>>
  BY DEF NeighbourChanges, fields
<1>2. TypeOK'
  BY <1>1 DEF IInv, TypeOK, NeighbourChanges
<1>3. PollerInv'
  BY <1>1 DEF IInv, PollerInv, PollerRuns, PollerAt, Unborn
<1>4. PollingInv'
  BY <1>1 DEF IInv, PollingInv, At
<1>5. EntriesInv'
  BY <1>1 DEF IInv, EntriesInv
<1>6. AnswersInv'
  BY <1>1 DEF IInv, AnswersInv, Unborn
<1>7. ActiveRequestsAreCounted'
  BY <1>1 DEF IInv, ActiveRequestsAreCounted, Counted
<1>8. QED
  BY <1>2, <1>3, <1>4, <1>5, <1>6, <1>7 DEF IInv

-----------------------------------------------------------------------------
(* The steps of a request that are not quiet. *)

\* The set of counted requests is finite.
LEMMA CountedIsFinite == IsFiniteSet({r \in Requests : Counted(r)})
<1>1. {r \in Requests : Counted(r)} \subseteq Requests
  OBVIOUS
<1>2. QED
  BY <1>1, FS_Subset, ArperAssumption

\* A poller is only started when the last one has ended and left no entry.
LEMMA StartPollerKeeps ==
  ASSUME IInv, NEW r \in Requests, At(r, "new") \/ At(r, "adding"),
         current = None \/ current \in ended,
         \A q \in Requests : At(q, "adding") => q = r,
         StartPoller(r), waiter' = None,
         UNCHANGED <<environment, activeReqs, cancelled, ended, entries, events>>
  PROVE  IInv'
<1>1. /\ current' = r /\ polling' = TRUE /\ poller' = [poller EXCEPT ![r] = "load"]
      /\ UNCHANGED <<baseDone, neighbours, activeReqs, cancelled, ended, entries,
                     events>>
  BY DEF StartPoller, PollerGoto, environment
<1>2. TypeOK /\ Unborn(r) /\ ~Counted(r)
  BY DEF IInv, Unborn, Counted, At
<1>3. /\ request' \in [Requests -> RequestRecords]
      /\ request'[r].pc = "spawned"
      /\ request'[r].todo = {} /\ request'[r].sent = {}
      /\ request'[r].gone = ended
      /\ \A q \in Requests : q # r => request'[q] = request[q]
  BY <1>2, SpawnedEffect DEF StartPoller, IInv, AnswersInv
<1>4. \A q \in Requests : ~PollerRuns(q)
  BY ArperAssumption DEF IInv, PollerInv, PollerRuns
<1>5. entries = {}
  <2>1. \A e \in entries : e.by \in Requests
    BY <1>2 DEF TypeOK, Entries
  <2>2. QED
    BY <1>4, <2>1 DEF IInv, EntriesInv, PollerRuns, PollerAt
<1>6. PollerAt(r, "none") /\ r \notin cancelled /\ r \notin ended
  BY <1>2 DEF IInv, PollerInv, PollerAt
<1>7. TypeOK'
  BY <1>1, <1>2, <1>3 DEF TypeOK, PollerLabels
<1>8. PollerInv'
  <2>1. \A q \in Requests : PollerRuns(q)' => q = r
    BY <1>1, <1>2, <1>4 DEF PollerRuns, PollerAt
  <2>2. \A q \in Requests : q \in ended' <=> PollerAt(q, "done")'
    BY <1>1, <1>2, <1>6 DEF IInv, PollerInv, PollerAt
  <2>3. \A q \in Requests : q \in cancelled' \/ q = current' => ~PollerAt(q, "none")'
    BY <1>1, <1>2 DEF IInv, TypeOK, PollerInv, PollerAt
  <2>4. \A q \in Requests : Unborn(q)' => PollerAt(q, "none")'
    BY <1>1, <1>2, <1>3 DEF IInv, PollerInv, PollerAt, Unborn
  <2>5. QED
    BY <1>1, <2>1, <2>2, <2>3, <2>4 DEF PollerInv
<1>9. PollingInv'
  BY <1>1, <1>2, <1>3, <1>6, ArperAssumption DEF TypeOK, PollingInv, At
<1>10. EntriesInv'
  BY <1>1, <1>5 DEF EntriesInv
<1>11. AnswersInv'
  BY <1>1, <1>3 DEF IInv, AnswersInv, Unborn
<1>12. ActiveRequestsAreCounted'
  BY <1>1, <1>2, <1>3, SameCount DEF IInv, Counted
<1>13. QED
  BY <1>7, <1>8, <1>9, <1>10, <1>11, <1>12 DEF IInv

\* A request joins the poller that runs, starts one, or waits for the last one.
LEMMA AddRequestKeeps ==
  ASSUME IInv, NEW r \in Requests, AddRequest(r)
  PROVE  IInv'
<1>1. /\ At(r, "new") /\ waiter = None /\ TypeOK
      /\ UNCHANGED <<baseDone, neighbours, activeReqs, cancelled, ended, entries,
                     events>>
  BY DEF AddRequest, RequestsMuIsFree, IInv, environment
<1>2. \A q \in Requests : ~At(q, "adding")
  BY <1>1, ArperAssumption DEF IInv, PollingInv
<1>3. request[r].todo = {} /\ request[r].sent = {} /\ ~Counted(r)
  BY <1>1 DEF IInv, AnswersInv, Unborn, Counted, At
<1>4. CASE polling /\ Spawned(r) /\ UNCHANGED <<fields, poller>>
  <2>1. UNCHANGED <<polling, current, waiter, poller>>
    BY <1>4 DEF fields
  <2>2. /\ request' \in [Requests -> RequestRecords]
        /\ request'[r].pc = "spawned"
        /\ request'[r].todo = {} /\ request'[r].sent = {}
        /\ request'[r].gone = ended
        /\ \A q \in Requests : q # r => request'[q] = request[q]
    BY <1>1, <1>3, <1>4, SpawnedEffect
  <2>3. TypeOK'
    BY <1>1, <2>1, <2>2 DEF TypeOK
  <2>4. PollerInv'
    BY <1>1, <2>1, <2>2 DEF IInv, PollerInv, PollerRuns, PollerAt, Unborn
  <2>5. PollingInv'
    BY <1>1, <2>1, <2>2 DEF IInv, PollingInv, At
  <2>6. EntriesInv'
    BY <1>1, <2>1 DEF IInv, EntriesInv
  <2>7. AnswersInv'
    BY <1>1, <2>2 DEF IInv, AnswersInv, Unborn
  <2>8. ActiveRequestsAreCounted'
    BY <1>1, <1>3, <2>2, SameCount DEF IInv, Counted
  <2>9. QED
    BY <2>3, <2>4, <2>5, <2>6, <2>7, <2>8 DEF IInv
<1>5. CASE current = None /\ StartPoller(r) /\ UNCHANGED waiter
  BY <1>1, <1>2, <1>5, StartPollerKeeps DEF AddRequest
<1>6. CASE /\ ~polling /\ current # None /\ waiter' = r /\ Goto(r, "adding")
           /\ UNCHANGED <<polling, current, poller>>
  <2>1. /\ request' \in [Requests -> RequestRecords]
        /\ request'[r].pc = "adding"
        /\ request'[r].todo = {} /\ request'[r].sent = {}
        /\ request'[r].gone = request[r].gone
        /\ \A q \in Requests : q # r => request'[q] = request[q]
    BY <1>1, <1>3, <1>6, GotoEffect DEF RequestLabels
  <2>2. TypeOK'
    BY <1>1, <1>6, <2>1 DEF TypeOK
  <2>3. PollerInv'
    BY <1>1, <1>6, <2>1 DEF IInv, PollerInv, PollerRuns, PollerAt, Unborn, At
  <2>4. PollingInv'
    BY <1>1, <1>2, <1>6, <2>1 DEF PollingInv, At
  <2>5. EntriesInv'
    BY <1>1, <1>6 DEF IInv, EntriesInv
  <2>6. AnswersInv'
    BY <1>1, <2>1 DEF IInv, AnswersInv, Unborn
  <2>7. ActiveRequestsAreCounted'
    BY <1>1, <1>3, <2>1, SameCount DEF IInv, Counted
  <2>8. QED
    BY <2>2, <2>3, <2>4, <2>5, <2>6, <2>7 DEF IInv
<1>7. QED
  BY <1>4, <1>5, <1>6 DEF AddRequest

\* The request that waited starts its poller.
LEMMA PollerDoneKeeps ==
  ASSUME IInv, NEW r \in Requests, PollerDone(r)
  PROVE  IInv'
<1>1. At(r, "adding") /\ waiter = r
  BY DEF PollerDone, IInv, PollingInv
<1>2. \A q \in Requests : At(q, "adding") => q = r
  BY <1>1 DEF IInv, PollingInv
<1>3. QED
  BY <1>1, <1>2, StartPollerKeeps DEF PollerDone

\* It gives up, and no longer waits.
LEMMA AddRefusedKeeps ==
  ASSUME IInv, NEW r \in Requests, AddRefused(r)
  PROVE  IInv'
<1>1. /\ At(r, "adding") /\ waiter = r /\ waiter' = None /\ TypeOK
      /\ UNCHANGED <<baseDone, neighbours, polling, current, activeReqs, cancelled,
                     ended, poller, entries, events>>
  BY DEF AddRefused, IInv, PollingInv, environment
<1>2. /\ request' \in [Requests -> RequestRecords]
      /\ request'[r].pc = "refused"
      /\ request'[r].todo = request[r].todo /\ request'[r].sent = request[r].sent
      /\ request'[r].gone = request[r].gone
      /\ \A q \in Requests : q # r => request'[q] = request[q]
  BY <1>1, GotoEffect DEF AddRefused, RequestLabels
<1>3. TypeOK'
  BY <1>1, <1>2 DEF TypeOK
<1>4. PollerInv'
  BY <1>1, <1>2 DEF IInv, PollerInv, PollerRuns, PollerAt, Unborn, At
<1>5. PollingInv'
  BY <1>1, <1>2 DEF IInv, PollingInv, At
<1>6. EntriesInv'
  BY <1>1 DEF IInv, EntriesInv
<1>7. AnswersInv'
  BY <1>1, <1>2 DEF IInv, AnswersInv, Unborn, At
<1>8. ActiveRequestsAreCounted'
  BY <1>1, <1>2, SameCount DEF IInv, Counted, At
<1>9. QED
  BY <1>3, <1>4, <1>5, <1>6, <1>7, <1>8 DEF IInv

\* A request is counted.
LEMMA RequestStartedKeeps ==
  ASSUME IInv, NEW r \in Requests, RequestStarted(r)
  PROVE  IInv'
<1>1. /\ At(r, "spawned") /\ activeReqs' = activeReqs + 1 /\ TypeOK
      /\ UNCHANGED <<baseDone, neighbours, polling, current, waiter, cancelled,
                     ended, poller, entries, events>>
  BY DEF RequestStarted, IInv, environment, fields
<1>2. /\ request' \in [Requests -> RequestRecords]
      /\ request'[r].pc = "find"
      /\ request'[r].todo = request[r].todo /\ request'[r].sent = request[r].sent
      /\ request'[r].gone = request[r].gone
      /\ \A q \in Requests : q # r => request'[q] = request[q]
  BY <1>1, GotoEffect DEF RequestStarted, RequestLabels
<1>3. TypeOK'
  BY <1>1, <1>2 DEF TypeOK
<1>4. PollerInv'
  BY <1>1, <1>2 DEF IInv, PollerInv, PollerRuns, PollerAt, Unborn
<1>5. PollingInv'
  BY <1>1, <1>2 DEF IInv, PollingInv, At
<1>6. EntriesInv'
  BY <1>1 DEF IInv, EntriesInv
<1>7. AnswersInv'
  BY <1>1, <1>2 DEF IInv, AnswersInv, Unborn
<1>8. ActiveRequestsAreCounted'
  <2> DEFINE S == {q \in Requests : Counted(q)}
  <2>1. r \notin S
    BY <1>1 DEF Counted, At
  <2>2. S' = S \cup {r}
    BY <1>2 DEF Counted
  <2>3. Cardinality(S \cup {r}) = Cardinality(S) + 1
    BY <2>1, CountedIsFinite, FS_AddElement
  <2>4. activeReqs = Cardinality(S)
    BY DEF IInv, ActiveRequestsAreCounted
  <2>5. QED
    BY <1>1, <2>2, <2>3, <2>4 DEF ActiveRequestsAreCounted
<1>9. QED
  BY <1>3, <1>4, <1>5, <1>6, <1>7, <1>8 DEF IInv

\* A request is no longer counted; the last one stops its poller.
LEMMA RequestCompleteKeeps ==
  ASSUME IInv, NEW r \in Requests, RequestComplete(r)
  PROVE  IInv'
<1>1. /\ At(r, "complete") /\ waiter = None /\ activeReqs' = activeReqs - 1 /\ TypeOK
      /\ UNCHANGED <<baseDone, neighbours, current, waiter, ended, poller, entries,
                     events>>
  BY DEF RequestComplete, RequestsMuIsFree, IInv, environment
<1>2. /\ request' \in [Requests -> RequestRecords]
      /\ request'[r].pc = "close"
      /\ request'[r].todo = request[r].todo /\ request'[r].sent = request[r].sent
      /\ request'[r].gone = request[r].gone
      /\ \A q \in Requests : q # r => request'[q] = request[q]
  BY <1>1, GotoEffect DEF RequestComplete, RequestLabels
<1>3. \/ polling' = FALSE /\ current # None /\ cancelled' = cancelled \cup {current}
      \/ UNCHANGED <<polling, cancelled>>
  BY DEF RequestComplete
<1>4. activeReqs' \in Nat /\ ActiveRequestsAreCounted'
  <2> DEFINE S == {q \in Requests : Counted(q)}
  <2>1. r \in S
    BY <1>1 DEF Counted, At
  <2>2. S' = S \ {r}
    BY <1>2 DEF Counted
  <2>3. Cardinality(S \ {r}) = Cardinality(S) - 1
    BY <2>1, CountedIsFinite, FS_RemoveElement
  <2>4. IsFiniteSet(S \ {r})
    BY CountedIsFinite, FS_RemoveElement
  <2>5. Cardinality(S \ {r}) \in Nat
    BY <2>4, FS_CardinalityType
  <2>6. activeReqs = Cardinality(S)
    BY DEF IInv, ActiveRequestsAreCounted
  <2>7. activeReqs' = Cardinality(S')
    BY <1>1, <2>2, <2>3, <2>6
  <2>8. QED
    BY <2>2, <2>5, <2>7 DEF ActiveRequestsAreCounted
<1>5. TypeOK'
  <2>1. polling' \in BOOLEAN /\ cancelled' \subseteq Requests
    BY <1>1, <1>3 DEF TypeOK
  <2>2. QED
    BY <1>1, <1>2, <1>4, <2>1 DEF TypeOK
<1>6. PollerInv'
  BY <1>1, <1>2, <1>3 DEF IInv, PollerInv, PollerRuns, PollerAt, Unborn
<1>7. PollingInv'
  BY <1>1, <1>2, <1>3 DEF IInv, PollingInv, At
<1>8. EntriesInv'
  BY <1>1 DEF IInv, EntriesInv
<1>9. AnswersInv'
  BY <1>1, <1>2 DEF IInv, AnswersInv, Unborn
<1>10. QED
  BY <1>4, <1>5, <1>6, <1>7, <1>8, <1>9 DEF IInv

-----------------------------------------------------------------------------
(* The theorems. *)

\* No request was made yet.
LEMMA InitIInv == Init => IInv
<1> SUFFICES ASSUME Init PROVE IInv
  OBVIOUS
<1>1. TypeOK
  BY ArperAssumption DEF Init, TypeOK, RequestRecords, RequestLabels,
     PollerLabels
<1>2. PollerInv
  BY ArperAssumption DEF Init, PollerInv, PollerRuns, PollerAt
<1>3. PollingInv
  BY DEF Init, PollingInv, At
<1>4. EntriesInv
  BY DEF Init, EntriesInv
<1>5. AnswersInv
  BY DEF Init, AnswersInv
<1>6. ActiveRequestsAreCounted
  <2>1. {r \in Requests : Counted(r)} = {}
    BY DEF Init, Counted
  <2>2. QED
    BY <2>1, FS_EmptySet DEF Init, ActiveRequestsAreCounted
<1>7. QED
  BY <1>1, <1>2, <1>3, <1>4, <1>5, <1>6 DEF IInv

\* Every step keeps the invariant.
LEMMA NextIInv == IInv /\ [Next]_vars => IInv'
<1> SUFFICES ASSUME IInv, [Next]_vars PROVE IInv'
  OBVIOUS
<1>1. ASSUME NEW r \in Requests, AddRequest(r) PROVE IInv'
  BY <1>1, AddRequestKeeps
<1>2. ASSUME NEW r \in Requests, QuietStep(r) PROVE IInv'
  <2>1. UNCHANGED shared
    BY <1>2 DEF QuietStep, Find, Offer, Deliver, Listen, Select, Notified,
       Leave, CloseRequest, CancelRequest
  <2>2. QED
    BY <1>2, <2>1, QuietStepIsQuiet, QuietKeepsIInv DEF IInv
<1>3. ASSUME NEW r \in Requests,
             PollerDone(r) \/ AddRefused(r) \/ RequestStarted(r) \/ RequestComplete(r)
      PROVE  IInv'
  BY <1>3, PollerDoneKeeps, AddRefusedKeeps, RequestStartedKeeps,
     RequestCompleteKeeps
<1>4. ASSUME NEW p \in Requests, PollerStep(p) \/ StopPolling(p) PROVE IInv'
  BY <1>4, LoadARPsKeeps, NotifyRequestsKeeps, IntervalElapsedKeeps,
     StopPollingKeeps, CancelPollingKeeps, ClearEntriesKeeps,
     ClosePollingDoneKeeps DEF PollerStep
<1>5. CASE CancelBase
  BY <1>5, CancelBaseKeeps
<1>6. ASSUME NEW a \in Addrs, NeighbourChanges(a) PROVE IInv'
  BY <1>6, NeighbourChangesKeeps
<1>7. CASE UNCHANGED vars
  <2>1. Quiet
    BY <1>7, UnchangedIsQuiet DEF IInv, TypeOK, Quiet, vars
  <2>2. QED
    BY <1>7, <2>1, QuietKeepsIInv DEF vars
<1>8. QED
  BY <1>1, <1>2, <1>3, <1>4, <1>5, <1>6, <1>7 DEF Next, RequestStep, QuietStep,
     Terminated

\* The inductive invariant holds throughout.
THEOREM IInvInvariant == Spec => []IInv
BY InitIInv, NextIInv, PTL DEF Spec

\* The state of the resolver keeps its type; in particular the unsigned count of
\* active requests never goes below zero.
THEOREM TypeCorrect == Spec => []TypeOK
<1>1. IInv => TypeOK
  BY DEF IInv
<1>2. QED
  BY <1>1, IInvInvariant, PTL

\* The unlocked reads of poll are of the fields of the poller that reads.
THEOREM OnePoller == Spec => []PollerOwnsFields
<1>1. IInv => PollerOwnsFields
  BY DEF IInv, PollerInv, PollerOwnsFields, PollerRuns
<1>2. QED
  BY <1>1, IInvInvariant, PTL

\* addRequest may rely on the polling flag.
THEOREM PollingIsTrue == Spec => []PollingMeansPoller
<1>1. IInv => PollingMeansPoller
  BY DEF IInv, PollingInv, PollingMeansPoller, PollerRuns, PollerAt
<1>2. QED
  BY <1>1, IInvInvariant, PTL

\* requestStarted and requestComplete count the requests, in any order.
THEOREM CountIsExact == Spec => []ActiveRequestsAreCounted
<1>1. IInv => ActiveRequestsAreCounted
  BY DEF IInv
<1>2. QED
  BY <1>1, IInvInvariant, PTL

\* No request is answered from the entries of a poller that ended before.
THEOREM NoStaleAnswers == Spec => []AnswersAreFresh
<1>1. IInv => AnswersAreFresh
  BY DEF IInv, AnswersInv, AnswersAreFresh
<1>2. QED
  BY <1>1, IInvInvariant, PTL
=============================================================================
