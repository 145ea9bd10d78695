------------------------- MODULE WebhookDeliveries --------------------------
(***************************************************************************)
(* Webhook endpoints, the fan-out of events into a queue of deliveries,    *)
(* and the processors of a host that empty it: list what is due, and for   *)
(* each row claim it, read its endpoint, send, and write the result back.  *)
(* Each of these is a transaction or a request of its own; a processor may *)
(* stop between any two, and a row it leaves in "processing" is put back   *)
(* to "pending" by the host's recovery of stale rows.                      *)
(*                                                                         *)
(* The stale limit (5 minutes) is shorter than an action may run, so a row *)
(* may be put back while the processor that claimed it still works on it.  *)
(* Which endpoints subscribe to an event is a choice of the fan-out; times *)
(* of retry are the flag "due", which the passing of time raises.          *)
(***************************************************************************)
EXTENDS Naturals, FiniteSets, SequencesExt

CONSTANTS
    Orgs,           \* organizations; an endpoint may also belong to none
    NoOrg,
    Endpoints,
    MaxDeliveries,  \* bound: deliveries ever created
    Workers,        \* processors that may run at once
    MaxActive,      \* MAX_ACTIVE_WEBHOOK_ENDPOINTS_PER_SCOPE
    MaxAttempts,    \* maxAttempts
    MaxCrashes,     \* bound: processors that stop half way
    MaxRetries      \* bound: deliveries that a user sends again by hand

ASSUME WebhooksAssumption ==
    /\ NoOrg \notin Orgs
    /\ IsFiniteSet(Endpoints)
    /\ MaxDeliveries \in Nat
    /\ MaxActive \in Nat \ {0}
    /\ MaxAttempts \in Nat \ {0}
    /\ MaxCrashes \in Nat
    /\ MaxRetries \in Nat

Ids == 1 .. MaxDeliveries

Scopes == Orgs \cup {NoOrg}

VARIABLES
    endpoints,     \* webhook_endpoints
    rows,          \* webhook_deliveries
    nextDelivery,
    workers,       \* processors
    crashes,
    retries,
    sends,         \* history: how often a delivery was sent, up to MaxAttempts
    shared         \* history: deliveries put back while a processor held them

vars == <<endpoints, rows, nextDelivery, workers, crashes, retries, sends, shared>>

EndpointStates == {"none", "active", "disabled", "archived"}

Endpoint == [status : EndpointStates, org : Scopes]

\* failureKind, as far as it says why a delivery failed: the endpoint was not
\* active, the answer was a client error, or the last attempt failed as well.
Kinds == {"none", "inactive", "client", "retryable"}

Delivery == [status : {"none", "pending", "processing", "delivered", "failed", "deleted"},
             endpoint : Endpoints \cup {NoOrg}, attempts : 0 .. MaxAttempts,
             due : BOOLEAN, kind : Kinds]

NotListed == MaxAttempts + 1

\* todo: attemptCount of the rows still to do, as they were listed.
Worker == [op : {"idle", "loop", "read", "send", "update"},
           todo : [Ids -> 0 .. MaxAttempts + 1], current : Ids \cup {0},
           result : {"none", "pending", "delivered", "failed"}, kind : Kinds]

NoDelivery == [status |-> "none", endpoint |-> NoOrg, attempts |-> 0, due |-> FALSE,
               kind |-> "none"]

IdleWorker == [op |-> "idle", todo |-> [d \in Ids |-> NotListed], current |-> 0,
               result |-> "none", kind |-> "none"]

TypeOK ==
    /\ endpoints \in [Endpoints -> Endpoint]
    /\ rows \in [Ids -> Delivery]
    /\ nextDelivery \in 1 .. MaxDeliveries + 1
    /\ workers \in [Workers -> Worker]
    /\ crashes \in 0 .. MaxCrashes
    /\ retries \in 0 .. MaxRetries
    /\ sends \in [Ids -> 0 .. MaxAttempts]
    /\ shared \in SUBSET Ids

Init ==
    /\ endpoints = [e \in Endpoints |-> [status |-> "none", org |-> NoOrg]]
    /\ rows = [d \in Ids |-> NoDelivery]
    /\ nextDelivery = 1
    /\ workers = [w \in Workers |-> IdleWorker]
    /\ crashes = 0
    /\ retries = 0
    /\ sends = [d \in Ids |-> 0]
    /\ shared = {}

-----------------------------------------------------------------------------
(* Endpoints                                                               *)

ActiveIn(o) == {e \in Endpoints : endpoints[e].status = "active" /\ endpoints[e].org = o}

\* assertCanActivateWebhookEndpoint
CanActivate(o) == Cardinality(ActiveIn(o)) < MaxActive

CreateWebhookEndpoint(e, o) ==
    /\ endpoints[e].status = "none"
    /\ CanActivate(o)
    /\ endpoints' = [endpoints EXCEPT ![e] = [status |-> "active", org |-> o]]
    /\ UNCHANGED <<rows, nextDelivery, workers, crashes, retries, sends, shared>>

\* The operations on an endpoint name its organization: those of no
\* organization are out of their reach.
OfOrganization(e) == endpoints[e].status # "none" /\ endpoints[e].org \in Orgs

SetWebhookEndpointStatus(e, status) ==
    /\ OfOrganization(e)
    /\ endpoints[e].status # status
    /\ status = "active" => CanActivate(endpoints[e].org)
    /\ endpoints' = [endpoints EXCEPT ![e].status = status]
    /\ UNCHANGED <<rows, nextDelivery, workers, crashes, retries, sends, shared>>

\* The deliveries of the endpoint stay, and fail when they are due.
DeleteWebhookEndpoint(e) ==
    /\ OfOrganization(e)
    /\ endpoints[e].status = "archived"
    /\ endpoints' = [endpoints EXCEPT ![e] = [status |-> "none", org |-> NoOrg]]
    /\ UNCHANGED <<rows, nextDelivery, workers, crashes, retries, sends, shared>>

\* deleteUser deletes the endpoints that the user created, those of the
\* organizations that go with the user, and their deliveries.
DeleteOwner(gone) ==
    /\ endpoints' = [e \in Endpoints |->
                       IF e \in gone THEN [status |-> "none", org |-> NoOrg] ELSE endpoints[e]]
    /\ rows' = [d \in Ids |-> IF rows[d].endpoint \in gone /\ rows[d].status # "none"
                              THEN [rows[d] EXCEPT !.status = "deleted"]
                              ELSE rows[d]]
    /\ UNCHANGED <<nextDelivery, workers, crashes, retries, sends, shared>>

-----------------------------------------------------------------------------
(* The queue                                                               *)

Pending(e) == [status |-> "pending", endpoint |-> e, attempts |-> 0, due |-> TRUE,
               kind |-> "none"]

\* An event of an organization reaches its endpoints and those of none.
Reached(o) == ActiveIn(o) \cup ActiveIn(NoOrg)

\* fanOutConvexWebhookEvent, for the endpoints E that subscribe to the event.
\* It throws, and with it the mutation that emits the event, when a scope has
\* too many active endpoints.
FanOut(o, E) ==
    LET n == Cardinality(E)
        order == SetToSeq(E)
    IN /\ \A s \in {o, NoOrg} : Cardinality(ActiveIn(s)) <= MaxActive
       /\ nextDelivery + n <= MaxDeliveries + 1
       /\ rows' = [d \in Ids |-> IF d \in nextDelivery .. nextDelivery + n - 1
                                 THEN Pending(order[d - nextDelivery + 1])
                                 ELSE rows[d]]
       /\ nextDelivery' = nextDelivery + n
       /\ UNCHANGED <<endpoints, workers, crashes, retries, sends, shared>>

CreateWebhookDelivery(e) ==
    /\ endpoints[e].status = "active"
    /\ nextDelivery \in Ids
    /\ rows' = [rows EXCEPT ![nextDelivery] = Pending(e)]
    /\ nextDelivery' = nextDelivery + 1
    /\ UNCHANGED <<endpoints, workers, crashes, retries, sends, shared>>

\* nextAttemptAt is reached.
BackoffPasses(d) ==
    /\ rows[d].status = "pending"
    /\ ~rows[d].due
    /\ rows' = [rows EXCEPT ![d].due = TRUE]
    /\ UNCHANGED <<endpoints, nextDelivery, workers, crashes, retries, sends, shared>>

Holds(w, d) == workers[w].op \in {"read", "send", "update"} /\ workers[w].current = d

Held(d) == \E w \in Workers : Holds(w, d)

PutBack(d, row) ==
    /\ rows' = [rows EXCEPT ![d] = row]
    /\ shared' = IF Held(d) THEN shared \cup {d} ELSE shared

\* retryDelivery of the host, whatever has become of the delivery.
RetryDelivery(d) ==
    /\ rows[d].status \notin {"none", "deleted"}
    /\ OfOrganization(rows[d].endpoint)
    /\ retries < MaxRetries
    /\ retries' = retries + 1
    /\ PutBack(d, Pending(rows[d].endpoint))
    /\ UNCHANGED <<endpoints, nextDelivery, workers, crashes, sends>>

\* Mutant: a processor that stopped keeps its row.
StaleNever(d) == FALSE

Stale(d) == rows[d].status = "processing"

\* buildConvexWebhookStaleDeliveryUpdate; the attempt is not counted.
RecoverStale(d) ==
    /\ Stale(d)
    /\ PutBack(d, [rows[d] EXCEPT !.status = "pending", !.due = TRUE, !.kind = "none"])
    /\ UNCHANGED <<endpoints, nextDelivery, workers, crashes, retries, sends>>

-----------------------------------------------------------------------------
(* Processors                                                              *)

\* The loop ends with the last row.
Continue(w, todo) ==
    workers' = [workers EXCEPT ![w] =
                  IF \A d \in Ids : todo[d] = NotListed
                  THEN IdleWorker
                  ELSE [IdleWorker EXCEPT !.op = "loop", !.todo = todo]]

Stop(w) == workers' = [workers EXCEPT ![w] = IdleWorker]

Due(d) == rows[d].status = "pending" /\ rows[d].due

\* listPendingWebhookDeliveries
ListPending(w) ==
    /\ workers[w].op = "idle"
    /\ \E d \in Ids : Due(d)
    /\ Continue(w, [d \in Ids |-> IF Due(d) THEN rows[d].attempts ELSE NotListed])
    /\ UNCHANGED <<endpoints, rows, nextDelivery, crashes, retries, sends, shared>>

\* Mutants: the row is claimed as it was listed; a row that was delivered too.
ClaimableAsListed(d) == rows[d].status \in {"pending", "processing"}

ClaimableAgain(d) == rows[d].status \in {"pending", "delivered"}

Claimable(d) == rows[d].status = "pending"

\* claimWebhookDelivery: it asks whether the row is pending, not whether it is
\* due, and throws for a row that is gone.
ClaimWebhookDelivery(w, d) ==
    /\ workers[w].op = "loop"
    /\ workers[w].todo[d] # NotListed
    /\ \/ /\ Claimable(d)
          /\ rows' = [rows EXCEPT ![d].status = "processing"]
          /\ workers' = [workers EXCEPT ![w] = [@ EXCEPT !.op = "read", !.current = d]]
       \/ /\ ~Claimable(d)
          /\ rows[d].status # "deleted"
          /\ Continue(w, [workers[w].todo EXCEPT ![d] = NotListed])
          /\ UNCHANGED rows
       \/ /\ rows[d].status = "deleted"
          /\ Stop(w)
          /\ UNCHANGED rows
    /\ UNCHANGED <<endpoints, nextDelivery, crashes, retries, sends, shared>>

ActiveEndpoint(e) == e \in Endpoints /\ endpoints[e].status = "active"

\* getWebhookEndpointWithSecret: without an active endpoint nothing is sent.
ReadEndpoint(w) ==
    /\ workers[w].op = "read"
    /\ \/ /\ ActiveEndpoint(rows[workers[w].current].endpoint)
          /\ workers' = [workers EXCEPT ![w].op = "send"]
       \/ /\ ~ActiveEndpoint(rows[workers[w].current].endpoint)
          /\ workers' = [workers EXCEPT ![w] = [@ EXCEPT !.op = "update", !.result = "failed",
                                                         !.kind = "inactive"]]
    /\ UNCHANGED <<endpoints, rows, nextDelivery, crashes, retries, sends, shared>>

\* Mutant: the last attempt is one earlier.
ExhaustedEarly(attempts) == attempts + 1 >= MaxAttempts

Exhausted(attempts) == attempts >= MaxAttempts

\* processConvexWebhookDelivery: the receiver accepts, answers that the request
\* is wrong, or fails, asks to wait or is not reached. It may have got the
\* request all the same.
Send(w) ==
    LET d == workers[w].current
        attempts == workers[w].todo[d] + 1
        Answer(result, kind) ==
            workers' = [workers EXCEPT ![w] = [@ EXCEPT !.op = "update", !.result = result,
                                                     !.kind = kind]]
    IN /\ workers[w].op = "send"
       /\ sends' = [sends EXCEPT ![d] = IF @ < MaxAttempts THEN @ + 1 ELSE @]
       /\ \/ Answer("delivered", "none")
          \/ Answer("failed", "client")
          \/ Answer(IF Exhausted(attempts) THEN "failed" ELSE "pending", "retryable")
       /\ UNCHANGED <<endpoints, rows, nextDelivery, crashes, retries, shared>>

\* updateWebhookDelivery: it writes the result over whatever the row holds, and
\* the attempt is counted from the row as it was listed.
UpdateWebhookDelivery(w) ==
    LET d == workers[w].current
    IN /\ workers[w].op = "update"
       /\ \/ /\ rows[d].status # "deleted"
             /\ rows' = [rows EXCEPT ![d] = [@ EXCEPT !.status = workers[w].result,
                                                      !.attempts = workers[w].todo[d] + 1,
                                                      !.due = FALSE,
                                                      !.kind = workers[w].kind]]
             /\ Continue(w, [workers[w].todo EXCEPT ![d] = NotListed])
          \/ /\ rows[d].status = "deleted"
             /\ Stop(w)
             /\ UNCHANGED rows
       /\ UNCHANGED <<endpoints, nextDelivery, crashes, retries, sends, shared>>

Crash(w) ==
    /\ workers[w].op # "idle"
    /\ crashes < MaxCrashes
    /\ crashes' = crashes + 1
    /\ Stop(w)
    /\ UNCHANGED <<endpoints, rows, nextDelivery, retries, sends, shared>>

-----------------------------------------------------------------------------

EndpointStep ==
    \/ \E e \in Endpoints, o \in Scopes : CreateWebhookEndpoint(e, o)
    \/ \E e \in Endpoints, status \in {"active", "disabled", "archived"} :
          SetWebhookEndpointStatus(e, status)
    \/ \E e \in Endpoints : DeleteWebhookEndpoint(e)
    \/ \E gone \in SUBSET Endpoints : DeleteOwner(gone)

QueueStep ==
    \/ \E o \in Scopes : \E E \in SUBSET Reached(o) : FanOut(o, E)
    \/ \E e \in Endpoints : CreateWebhookDelivery(e)
    \/ \E d \in Ids : BackoffPasses(d) \/ RetryDelivery(d) \/ RecoverStale(d)

Work(w) ==
    \/ ListPending(w)
    \/ \E d \in Ids : ClaimWebhookDelivery(w, d)
    \/ ReadEndpoint(w)
    \/ Send(w)
    \/ UpdateWebhookDelivery(w)

Next ==
    \/ EndpointStep
    \/ QueueStep
    \/ \E w \in Workers : Work(w) \/ Crash(w)

Spec == Init /\ [][Next]_vars

\* The host runs the processor and the recovery again and again (a cron), an
\* action that has begun goes on, and a time of retry is reached. Nothing is
\* assumed of users, organizations and receivers; a processor stops half way
\* only so often (MaxCrashes).
Fairness ==
    /\ \A w \in Workers : WF_vars(Work(w))
    /\ \A d \in Ids : WF_vars(BackoffPasses(d)) /\ WF_vars(RecoverStale(d))

FairSpec == Spec /\ Fairness

-----------------------------------------------------------------------------
(* Properties                                                              *)

(* The active endpoints of a scope never exceed the limit at which the     *)
(* fan-out begins to throw and to take the organization's mutations down.  *)
ActiveWithinLimit == \A o \in Scopes : Cardinality(ActiveIn(o)) <= MaxActive

(* Two processors that have listed the same row never work on it at the    *)
(* same time, unless it was put back while it was held: the promise of     *)
(* claimWebhookDelivery, and its limit.                                    *)
OneSender ==
    \A d \in Ids \ shared :
        \A v, w \in Workers : Holds(v, d) /\ Holds(w, d) => v = w

(* A delivery is given up for its failures only after as many requests as  *)
(* a delivery is granted, whatever stale counts processors write back.     *)
NotGivenUpEarly ==
    \A d \in Ids :
        rows[d].status = "failed" /\ rows[d].kind = "retryable" => sends[d] >= MaxAttempts

(* What was delivered is not sent again: the row stays delivered until a   *)
(* user retries it or it is deleted, unless it was put back while held.    *)
DeliveredStays ==
    [][\A d \in Ids \ shared' :
         rows[d].status = "delivered" =>
            \/ rows'[d].status \in {"delivered", "deleted"}
            \/ retries' = retries + 1]_vars

Open(d) == rows[d].status \in {"pending", "processing"}

(* Every delivery ends: it is delivered, it fails, or it is deleted, also  *)
(* when processors stop half way, lose each other's counts, or answer      *)
(* after their row was put back.                                           *)
EveryDeliveryEnds == \A d \in Ids : Open(d) ~> ~Open(d)

=============================================================================
