------------------------------- MODULE Arper -------------------------------
(***************************************************************************)
(* The ARP resolver (net/arp/arper_linux.go): requests that look for the   *)
(* addresses of a MAC address, and the polling goroutine that loads the    *)
(* neighbour table for them while there are any.                           *)
(*                                                                         *)
(* Every Discover starts at most one poller, so a poller is named by the   *)
(* request whose addRequest started it.  The fields pollingCtx,            *)
(* pollingCancel and pollingDone are those of the poller named by current. *)
(* They are written under requestsMu and read without it.                  *)
(***************************************************************************)
EXTENDS Naturals, FiniteSets

CONSTANTS
  Requests,     \* the calls of Discover
  None,         \* no request
  Addrs,        \* IP addresses
  Matches,      \* the addresses of the MAC and interface of each request
  MaxEvents     \* bound on the changes of the neighbour table and the failures to read it

ASSUME ArperAssumption ==
  /\ None \notin Requests
  /\ IsFiniteSet(Requests)
  /\ Matches \in [Requests -> SUBSET Addrs]
  /\ MaxEvents \in Nat

VARIABLES
  baseDone,     \* a.ctx is done
  polling,      \* a.polling
  activeReqs,   \* a.activeReqs
  current,      \* the poller whose context and channel the fields hold
  cancelled,    \* the pollers whose pollingCtx was cancelled
  ended,        \* the pollers whose pollingDone is closed
  poller,       \* where each polling goroutine is
  entries,      \* a.entries, each with the poller that loaded it
  request,      \* the requests and their goroutines
  waiter,       \* the addRequest that waits for pollingDone under requestsMu
  neighbours,   \* the addresses that are reachable and not stale
  events        \* what is left of the bound

fields == <<polling, current, waiter>>
environment == <<baseDone, neighbours>>
shared == <<fields, environment, activeReqs, cancelled, ended, poller, entries,
            events>>
vars == <<shared, request>>

-----------------------------------------------------------------------------
PollerLabels == {"none", "load", "notify", "wait", "cancel", "clear", "close",
                 "done"}
RequestLabels == {"new", "adding", "spawned", "find", "offer", "offering",
                  "listen", "select", "wait", "complete", "close", "closed",
                  "refused"}
Entries == [addr : Addrs, by : Requests]
RequestRecords ==
  [pc    : RequestLabels,
   done  : BOOLEAN,               \* the context of the request is done
   todo  : SUBSET Entries,        \* the matches found and not yet sent
   sent  : SUBSET Entries,        \* the addresses the client received
   ctx   : Requests \cup {None},  \* whose Done channel the select waits on
   awake : BOOLEAN,               \* the notification channel it holds is closed
   gone  : SUBSET Requests]       \* the pollers that had ended when it was added

TypeOK ==
  /\ baseDone \in BOOLEAN /\ polling \in BOOLEAN
  /\ activeReqs \in Nat
  /\ current \in Requests \cup {None}
  /\ waiter \in Requests \cup {None}
  /\ cancelled \subseteq Requests /\ ended \subseteq Requests
  /\ poller \in [Requests -> PollerLabels]
  /\ entries \subseteq Entries
  /\ request \in [Requests -> RequestRecords]
  /\ neighbours \subseteq Addrs
  /\ events \in Nat

Init ==
  /\ baseDone = FALSE /\ polling = FALSE
  /\ activeReqs = 0
  /\ current = None /\ waiter = None
  /\ cancelled = {} /\ ended = {}
  /\ poller = [p \in Requests |-> "none"]
  /\ entries = {}
  /\ request = [r \in Requests |->
       [pc |-> "new", done |-> FALSE, todo |-> {}, sent |-> {}, ctx |-> None,
        awake |-> FALSE, gone |-> {}]]
  /\ neighbours \in SUBSET Addrs
  /\ events = MaxEvents

At(r, label) == request[r].pc = label
Update(r, new) == request' = [request EXCEPT ![r] = new]
Goto(r, label) == Update(r, [request[r] EXCEPT !.pc = label])
PollerAt(p, label) == poller[p] = label
PollerGoto(p, label) == poller' = [poller EXCEPT ![p] = label]

\* requestsMu is held over a step only by an addRequest that waits.
RequestsMuIsFree == waiter = None

\* The context of a poller is done when it or its parent a.ctx is.
PollingCtxDone(p) == baseDone \/ p \in cancelled

-----------------------------------------------------------------------------
(* addRequest. *)

\* The goroutine of the request is started; it counts itself later.
Spawned(r) ==
  Update(r, [request[r] EXCEPT !.pc = "spawned", !.gone = ended])

\* A new poller: its context and channel replace those of the last one.
StartPoller(r) ==
  /\ current' = r /\ polling' = TRUE
  /\ PollerGoto(r, "load")
  /\ Spawned(r)

AddRequest(r) ==
  /\ At(r, "new") /\ RequestsMuIsFree
  /\ \/ /\ polling
        /\ Spawned(r)
        /\ UNCHANGED <<fields, poller>>
     \/ /\ ~polling /\ current = None
        /\ StartPoller(r) /\ UNCHANGED waiter
     \/ /\ ~polling /\ current # None
        /\ waiter' = r
        /\ Goto(r, "adding")
        /\ UNCHANGED <<polling, current, poller>>
  /\ UNCHANGED <<environment, activeReqs, cancelled, ended, entries, events>>

\* Mutant: the last poller is not waited for.
PollerDoneUnchecked(r) ==
  /\ At(r, "adding")
  /\ waiter' = None
  /\ StartPoller(r)
  /\ UNCHANGED <<environment, activeReqs, cancelled, ended, entries, events>>

\* The last poller has cleaned up, and a new one is started.
PollerDone(r) ==
  /\ At(r, "adding") /\ current \in ended
  /\ waiter' = None
  /\ StartPoller(r)
  /\ UNCHANGED <<environment, activeReqs, cancelled, ended, entries, events>>

\* a.ctx is done: Discover returns its error.
AddRefused(r) ==
  /\ At(r, "adding") /\ baseDone
  /\ waiter' = None
  /\ Goto(r, "refused")
  /\ UNCHANGED <<environment, polling, current, activeReqs, cancelled, ended,
                 poller, entries, events>>

-----------------------------------------------------------------------------
(* handleRequest. *)

\* Mutant: the request is not counted.
RequestStartedUncounted(r) ==
  /\ At(r, "spawned") /\ RequestsMuIsFree
  /\ Goto(r, "find")
  /\ UNCHANGED shared

RequestStarted(r) ==
  /\ At(r, "spawned") /\ RequestsMuIsFree
  /\ activeReqs' = activeReqs + 1
  /\ Goto(r, "find")
  /\ UNCHANGED <<fields, environment, cancelled, ended, poller, entries, events>>

\* The matching entries whose address was not sent yet.
Unsent(r) ==
  {e \in entries : /\ e.addr \in Matches[r]
                   /\ \A s \in request[r].sent : s.addr # e.addr}
Find(r) ==
  /\ At(r, "find")
  /\ Update(r, [request[r] EXCEPT !.pc = "offer", !.todo = Unsent(r)])
  /\ UNCHANGED shared

\* The next address is offered in a select on the context the field holds now.
Offer(r) ==
  /\ At(r, "offer")
  /\ \/ request[r].todo = {} /\ Goto(r, "listen")
     \/ /\ request[r].todo # {}
        /\ Update(r, [request[r] EXCEPT !.pc = "offering", !.ctx = current])
  /\ UNCHANGED shared

\* The client receives an address.
Deliver(r) ==
  /\ At(r, "offering")
  /\ \E e \in request[r].todo :
       Update(r, [request[r] EXCEPT
         !.pc = "offer", !.ctx = None, !.todo = @ \ {e}, !.sent = @ \cup {e}])
  /\ UNCHANGED shared

\* The notification channel is read, and then the context, for the select.
Listen(r) ==
  /\ At(r, "listen")
  /\ Update(r, [request[r] EXCEPT !.pc = "select", !.awake = FALSE])
  /\ UNCHANGED shared

Select(r) ==
  /\ At(r, "select")
  /\ Update(r, [request[r] EXCEPT !.pc = "wait", !.ctx = current])
  /\ UNCHANGED shared

\* Mutant: the request does not search again when it is notified.
NotifiedDoesNotSearch(r) ==
  /\ At(r, "wait") /\ request[r].awake
  /\ Update(r, [request[r] EXCEPT
       !.pc = "listen", !.ctx = None, !.awake = FALSE])
  /\ UNCHANGED shared

\* New entries are available.
Notified(r) ==
  /\ At(r, "wait") /\ request[r].awake
  /\ Update(r, [request[r] EXCEPT
       !.pc = "find", !.ctx = None, !.awake = FALSE])
  /\ UNCHANGED shared

\* Mutants: the request ends uncounted, or does not watch the poller.
LeaveUncounted(r) ==
  /\ At(r, "offering") \/ At(r, "wait")
  /\ request[r].done \/ PollingCtxDone(request[r].ctx)
  /\ Update(r, [request[r] EXCEPT
       !.pc = "close", !.ctx = None, !.awake = FALSE, !.todo = {}])
  /\ UNCHANGED shared
LeaveWhenCancelled(r) ==
  /\ At(r, "offering") \/ At(r, "wait")
  /\ request[r].done
  /\ Update(r, [request[r] EXCEPT
       !.pc = "complete", !.ctx = None, !.awake = FALSE, !.todo = {}])
  /\ UNCHANGED shared

\* The context of the request or of the poller is done.
Leave(r) ==
  /\ At(r, "offering") \/ At(r, "wait")
  /\ request[r].done \/ PollingCtxDone(request[r].ctx)
  /\ Update(r, [request[r] EXCEPT
       !.pc = "complete", !.ctx = None, !.awake = FALSE, !.todo = {}])
  /\ UNCHANGED shared

\* Mutant: the last request leaves the poller running.
RequestCompleteKeepsPoller(r) ==
  /\ At(r, "complete") /\ RequestsMuIsFree
  /\ activeReqs' = activeReqs - 1
  /\ Goto(r, "close")
  /\ UNCHANGED <<fields, cancelled, environment, ended, poller, entries, events>>

\* Mutant: the poller is stopped and polling stays set.
RequestCompleteKeepsFlag(r) ==
  /\ At(r, "complete") /\ RequestsMuIsFree
  /\ activeReqs' = activeReqs - 1
  /\ \/ activeReqs' = 0 /\ cancelled' = cancelled \cup {current}
     \/ activeReqs' # 0 /\ UNCHANGED cancelled
  /\ Goto(r, "close")
  /\ UNCHANGED <<fields, environment, ended, poller, entries, events>>

\* The request is no longer counted; the last one stops the poller.
RequestComplete(r) ==
  /\ At(r, "complete") /\ RequestsMuIsFree
  /\ activeReqs' = activeReqs - 1
  /\ \/ /\ activeReqs' = 0 /\ current # None
        /\ polling' = FALSE
        /\ cancelled' = cancelled \cup {current}
     \/ /\ ~(activeReqs' = 0 /\ current # None)
        /\ UNCHANGED <<polling, cancelled>>
  /\ Goto(r, "close")
  /\ UNCHANGED <<current, waiter, environment, ended, poller, entries, events>>

\* The channel of the request is closed, and what it knew is forgotten.
CloseRequest(r) ==
  /\ At(r, "close")
  /\ Update(r, [request[r] EXCEPT !.pc = "closed", !.sent = {}, !.gone = {}])
  /\ UNCHANGED shared

-----------------------------------------------------------------------------
(* poll: the goroutine reads the fields, so it acts on the poller they hold. *)

LoadARPs(p) ==
  /\ PollerAt(p, "load")
  /\ PollerGoto(p, "notify")
  /\ \/ /\ entries' = [addr : neighbours, by : {p}]
        /\ UNCHANGED events
     \/ /\ events > 0 /\ events' = events - 1    \* the old entries are kept
        /\ UNCHANGED entries
  /\ UNCHANGED <<fields, environment, activeReqs, cancelled, ended, request>>

\* The notification channel is closed for all who hold it, and replaced.
NotifyRequests(p) ==
  /\ PollerAt(p, "notify")
  /\ PollerGoto(p, "wait")
  /\ request' = [r \in Requests |->
       IF At(r, "select") \/ At(r, "wait")
       THEN [request[r] EXCEPT !.awake = TRUE]
       ELSE request[r]]
  /\ UNCHANGED <<fields, environment, activeReqs, cancelled, ended, entries,
                 events>>

IntervalElapsed(p) ==
  /\ PollerAt(p, "wait")
  /\ PollerGoto(p, "load")
  /\ UNCHANGED <<fields, environment, activeReqs, cancelled, ended, entries,
                 request, events>>

StopPolling(p) ==
  /\ PollerAt(p, "wait") /\ PollingCtxDone(current)
  /\ PollerGoto(p, "cancel")
  /\ UNCHANGED <<fields, environment, activeReqs, cancelled, ended, entries,
                 request, events>>

CancelPolling(p) ==
  /\ PollerAt(p, "cancel")
  /\ PollerGoto(p, "clear")
  /\ cancelled' = cancelled \cup {current}
  /\ UNCHANGED <<fields, environment, activeReqs, ended, entries, request, events>>

\* Mutant: the entries of the poller are left for the next one.
ClearEntriesNot(p) ==
  /\ PollerAt(p, "clear")
  /\ PollerGoto(p, "close")
  /\ UNCHANGED <<fields, environment, activeReqs, cancelled, ended, entries,
                 request, events>>

ClearEntries(p) ==
  /\ PollerAt(p, "clear")
  /\ PollerGoto(p, "close")
  /\ entries' = {}
  /\ UNCHANGED <<fields, environment, activeReqs, cancelled, ended, request,
                 events>>

ClosePollingDone(p) ==
  /\ PollerAt(p, "close")
  /\ PollerGoto(p, "done")
  /\ ended' = ended \cup {current}
  /\ UNCHANGED <<fields, environment, activeReqs, cancelled, entries, request,
                 events>>

-----------------------------------------------------------------------------
(* The clients and the network. *)

CancelRequest(r) ==
  /\ request[r].pc \notin {"new", "close", "closed", "refused"}
  /\ ~request[r].done
  /\ Update(r, [request[r] EXCEPT !.done = TRUE])
  /\ UNCHANGED shared

CancelBase ==
  /\ ~baseDone /\ baseDone' = TRUE
  /\ UNCHANGED <<fields, neighbours, activeReqs, cancelled, ended,
                 poller, entries, request, events>>

NeighbourChanges(a) ==
  /\ events > 0 /\ events' = events - 1
  /\ neighbours' = IF a \in neighbours THEN neighbours \ {a} ELSE neighbours \cup {a}
  /\ UNCHANGED <<fields, baseDone, activeReqs, cancelled, ended, poller,
                 entries, request>>

-----------------------------------------------------------------------------
\* What a request does on its own; whether its client reads is up to the client.
RequestStep(r) ==
  \/ PollerDone(r) \/ AddRefused(r)
  \/ RequestStarted(r) \/ Find(r) \/ Offer(r) \/ Listen(r) \/ Select(r)
  \/ Notified(r) \/ RequestComplete(r) \/ CloseRequest(r)

PollerStep(p) ==
  \/ LoadARPs(p) \/ NotifyRequests(p) \/ IntervalElapsed(p)
  \/ CancelPolling(p) \/ ClearEntries(p) \/ ClosePollingDone(p)

\* Every request was answered and no poller is left.
Terminated ==
  /\ \A r \in Requests : At(r, "closed") \/ At(r, "refused")
  /\ \A p \in Requests : PollerAt(p, "none") \/ PollerAt(p, "done")
  /\ UNCHANGED vars

Next ==
  \/ \E r \in Requests :
       \/ AddRequest(r) \/ RequestStep(r) \/ Deliver(r) \/ Leave(r)
       \/ PollerStep(r) \/ StopPolling(r) \/ CancelRequest(r)
  \/ CancelBase
  \/ \E a \in Addrs : NeighbourChanges(a)
  \/ Terminated

Spec == Init /\ [][Next]_vars

(***************************************************************************)
(* Fairness.  Goroutines run and mutexes are granted; a select that finds  *)
(* a done context again and again takes it some day, as it draws among its *)
(* ready cases at random.  No client has to read or to cancel.             *)
(***************************************************************************)
FairSpec ==
  /\ Spec
  /\ \A r \in Requests : /\ WF_vars(RequestStep(r)) /\ SF_vars(Leave(r))
                         /\ WF_vars(PollerStep(r)) /\ SF_vars(StopPolling(r))

-----------------------------------------------------------------------------
(* Properties. *)

PollerRuns(p) == ~PollerAt(p, "none") /\ ~PollerAt(p, "done")

\* One poller runs at a time, and while it runs or cleans up the fields hold
\* its own context and channel: it never cancels the context of another, nor
\* closes a channel a second time.
PollerOwnsFields ==
  \A p \in Requests : PollerRuns(p) => current = p /\ p \notin ended

\* As long as polling says so there is a poller to rely on: a request added
\* then is not left without one unless a.ctx is done.
PollingMeansPoller ==
  polling => \/ PollerRuns(current) /\ ~PollerAt(current, "clear")
                /\ ~PollerAt(current, "close") /\ current \notin cancelled
             \/ baseDone

\* The requests counted are those between requestStarted and requestComplete,
\* whatever order they start and finish in.
Counted(r) == request[r].pc \in {"find", "offer", "offering", "listen", "select",
                                 "wait", "complete"}
ActiveRequestsAreCounted ==
  activeReqs = Cardinality({r \in Requests : Counted(r)})

\* No request receives an address that only a poller that had ended before
\* the request was made knew of.
AnswersAreFresh ==
  \A r \in Requests : \A e \in request[r].sent : e.by \notin request[r].gone

\* A request ends once its context, or that of the resolver, is done, although
\* its client may not read and others hold the mutex.
RequestsEnd ==
  \A r \in Requests :
    ~At(r, "new") /\ (request[r].done \/ baseDone)
      ~> At(r, "closed") \/ At(r, "refused")

\* When the last request ended its poller ends too.
PollerStops ==
  (\A r \in Requests : At(r, "new") \/ At(r, "closed") \/ At(r, "refused"))
    ~> \/ \A p \in Requests : ~PollerRuns(p)
       \/ \E r \in Requests : ~(At(r, "new") \/ At(r, "closed") \/ At(r, "refused"))

\* A reachable address is offered to a request that waits for it, although
\* notifications between its search and its wait are lost.
AddressesArrive ==
  \A r \in Requests, a \in Addrs :
    At(r, "wait") /\ a \in Matches[r] /\ a \in neighbours
      ~> \/ \E e \in request[r].todo \cup request[r].sent : e.addr = a
         \/ a \notin neighbours
         \/ ~Counted(r)

\* "send found IP addresses to the channel until the provided context has been
\* canceled" (Discover): the channel is not closed before.
RequestsAreNotDropped ==
  \A r \in Requests : At(r, "closed") => request[r].done \/ baseDone
=============================================================================
