----------------------- MODULE WebhookDeliveries_proofs -----------------------
(***************************************************************************)
(* What the safety half of WebhookDeliveries promises for every number of  *)
(* endpoints, deliveries, processors, attempts and crashes.                *)
(*                                                                         *)
(* A processor works from a copy of the attempts of each row, made when it *)
(* listed them.  The invariant relates the copies and the rows to the      *)
(* history of requests: neither counts more of them than were sent.        *)
(***************************************************************************)
EXTENDS WebhookDeliveries, FiniteSetTheorems, TLAPS

-----------------------------------------------------------------------------
(* The inductive invariant                                                 *)

Holding == {"read", "send", "update"}

\* A row neither counts an attempt that was not made nor is tried again when
\* its attempts are used up; a delivery that is still to come has no row.
RowGood(d) ==
    /\ d >= nextDelivery => rows[d].status = "none"
    /\ rows[d].status \in {"pending", "processing"} =>
          rows[d].attempts < MaxAttempts /\ rows[d].attempts <= sends[d]
    /\ rows[d].status = "failed" /\ rows[d].kind = "retryable" => sends[d] >= MaxAttempts

RowsGood == \A d \in Ids : RowGood(d)

\* A row as it was listed, in the memory of a processor.
ListedGood(x, d) ==
    x.todo[d] # NotListed =>
        d < nextDelivery /\ x.todo[d] < MaxAttempts /\ x.todo[d] <= sends[d]

\* The answer that is still to be written.
AnswerGood(x) ==
    x.op = "update" =>
        /\ x.result = "pending" =>
              x.todo[x.current] + 1 < MaxAttempts /\ x.todo[x.current] + 1 <= sends[x.current]
        /\ x.result = "failed" /\ x.kind = "retryable" => sends[x.current] >= MaxAttempts

WorkerGood(x) ==
    /\ \A d \in Ids : ListedGood(x, d)
    /\ x.op \in Holding => x.current \in Ids /\ x.todo[x.current] # NotListed
    /\ AnswerGood(x)

WorkersGood == \A w \in Workers : WorkerGood(workers[w])

\* Who holds a row that was not put back under somebody has it for himself.
HeldGood ==
    \A d \in Ids \ shared : \A w \in Workers :
        Holds(w, d) => rows[d].status \in {"processing", "deleted"}

IInv == TypeOK /\ RowsGood /\ WorkersGood /\ HeldGood /\ OneSender /\ ActiveWithinLimit

-----------------------------------------------------------------------------
(* Lemmas                                                                  *)

LEMMA Numbers ==
    /\ MaxDeliveries \in Nat /\ MaxActive \in Nat /\ MaxAttempts \in Nat \ {0}
    /\ MaxCrashes \in Nat /\ MaxRetries \in Nat /\ NotListed = MaxAttempts + 1
    /\ Ids \in SUBSET Nat /\ \A d \in Ids : d >= 1 /\ d <= MaxDeliveries
  BY WebhooksAssumption DEF WebhooksAssumption, Ids, NotListed

LEMMA Idle ==
    /\ IdleWorker \in Worker /\ IdleWorker.op = "idle"
    /\ \A d \in Ids : IdleWorker.todo[d] = NotListed
    /\ WorkerGood(IdleWorker)
  <1>1. [d \in Ids |-> NotListed] \in [Ids -> 0 .. MaxAttempts + 1]
    BY Numbers
  <1>2. /\ IdleWorker \in Worker /\ IdleWorker.op = "idle"
        /\ IdleWorker.todo = [d \in Ids |-> NotListed]
    BY <1>1 DEF IdleWorker, Worker, Kinds
  <1> QED BY <1>2 DEF WorkerGood, ListedGood, AnswerGood, Holding

LEMMA NewRow ==
    ASSUME NEW e \in Endpoints
    PROVE  /\ Pending(e) \in Delivery /\ Pending(e).status = "pending" /\ Pending(e).attempts = 0
           /\ NoDelivery \in Delivery /\ NoDelivery.status = "none"
  BY Numbers DEF Pending, NoDelivery, Delivery, Kinds

LEMMA SetToSeqMember ==
    ASSUME NEW E, IsFiniteSet(E), NEW i \in 1 .. Cardinality(E)
    PROVE  SetToSeq(E)[i] \in E
  <1>1. Bijection(1 .. Cardinality(E), E) # {}
    BY FS_CardinalityType DEF ExistsBijection
  <1>2. \E f \in [1 .. Cardinality(E) -> E] : IsInjective(f)
    BY <1>1 DEF Bijection, Injection
  <1>3. SetToSeq(E) \in [1 .. Cardinality(E) -> E]
    BY <1>2 DEF SetToSeq
  <1> QED BY <1>3

\* What a processor remembers stays true as requests and deliveries are added.
SendsGrow == \A d \in Ids : sends[d] <= sends'[d]

LEMMA Grows ==
    ASSUME TypeOK, TypeOK', nextDelivery <= nextDelivery', SendsGrow,
           NEW x \in Worker, WorkerGood(x)
    PROVE  WorkerGood(x)'
  <1>0. /\ nextDelivery \in Nat /\ nextDelivery' \in Nat
        /\ \A d \in Ids : sends[d] \in Nat /\ sends'[d] \in Nat
        /\ \A d \in Ids : x.todo[d] \in Nat
    BY Numbers DEF TypeOK, Worker
  <1>1. ASSUME NEW d \in Ids PROVE ListedGood(x, d)'
    BY <1>0, Numbers DEF WorkerGood, ListedGood, SendsGrow
  <1>2. AnswerGood(x)'
    BY <1>0, Numbers DEF WorkerGood, AnswerGood, SendsGrow, Holding
  <1> QED BY <1>1, <1>2 DEF WorkerGood

LEMMA WorkersUnchanged ==
    ASSUME IInv, TypeOK', UNCHANGED workers, nextDelivery <= nextDelivery', SendsGrow
    PROVE  WorkersGood'
  <1> SUFFICES ASSUME NEW w \in Workers PROVE WorkerGood(workers[w])'
    BY DEF WorkersGood
  <1>1. workers[w] \in Worker /\ WorkerGood(workers[w]) /\ TypeOK
    BY DEF IInv, TypeOK, WorkersGood
  <1> DEFINE x == workers[w]
  <1>2. PICK y : y = x
    OBVIOUS
  <1>3. WorkerGood(y)'
    BY <1>1, <1>2, Grows
  <1>4. workers'[w] = y
    BY <1>2
  <1> QED BY <1>3, <1>4 DEF WorkerGood, ListedGood, AnswerGood

\* The processor that moves.
LEMMA WorkerPut ==
    ASSUME IInv, TypeOK', NEW w \in Workers, NEW x \in Worker,
           workers' = [workers EXCEPT ![w] = x], WorkerGood(x)',
           nextDelivery' = nextDelivery, SendsGrow
    PROVE  WorkersGood'
  <1> SUFFICES ASSUME NEW v \in Workers PROVE WorkerGood(workers[v])'
    BY DEF WorkersGood
  <1>1. CASE v = w
    <2>1. workers'[v] = x
      BY <1>1 DEF IInv, TypeOK
    <2> QED BY <2>1 DEF WorkerGood, ListedGood, AnswerGood
  <1>2. CASE v # w
    <2>1. workers[v] \in Worker /\ WorkerGood(workers[v]) /\ TypeOK /\ nextDelivery <= nextDelivery'
      BY Numbers DEF IInv, TypeOK, WorkersGood
    <2>2. PICK y : y = workers[v]
      OBVIOUS
    <2>3. WorkerGood(y)'
      BY <2>1, <2>2, Grows
    <2>4. workers'[v] = y
      BY <1>2, <2>2 DEF IInv, TypeOK
    <2> QED BY <2>3, <2>4 DEF WorkerGood, ListedGood, AnswerGood
  <1> QED BY <1>1, <1>2

\* The rows that are held stay so, or they are put back.
LEMMA HeldKept ==
    ASSUME IInv, UNCHANGED workers, shared \subseteq shared',
           \A d \in Ids \ shared' : rows[d].status \in {"processing", "deleted"} =>
              rows'[d].status \in {"processing", "deleted"} \/ ~Held(d)
    PROVE  HeldGood' /\ OneSender'
  <1>1. \A w \in Workers, d \in Ids : Holds(w, d)' <=> Holds(w, d)
    BY DEF Holds
  <1>2. OneSender'
    BY <1>1 DEF OneSender, IInv
  <1>3. HeldGood'
    BY <1>1 DEF HeldGood, Held, IInv
  <1> QED BY <1>2, <1>3

LEMMA Finite == \A o : IsFiniteSet(ActiveIn(o)) /\ Cardinality(ActiveIn(o)) \in Nat
  <1> SUFFICES ASSUME NEW o PROVE IsFiniteSet(ActiveIn(o)) /\ Cardinality(ActiveIn(o)) \in Nat
    OBVIOUS
  <1>1. ActiveIn(o) \in SUBSET Endpoints /\ IsFiniteSet(Endpoints)
    BY WebhooksAssumption DEF ActiveIn, WebhooksAssumption
  <1>2. IsFiniteSet(ActiveIn(o))
    BY <1>1, FS_Subset
  <1> QED BY <1>2, FS_CardinalityType

\* No endpoint becomes active.
LEMMA NobodyActivated ==
    ASSUME IInv, \A e \in Endpoints : endpoints'[e].status = "active" => endpoints'[e] = endpoints[e]
    PROVE  ActiveWithinLimit'
  <1> SUFFICES ASSUME NEW o \in Scopes PROVE Cardinality(ActiveIn(o)') <= MaxActive
    BY DEF ActiveWithinLimit
  <1> DEFINE A == ActiveIn(o)
             B == ActiveIn(o)'
  <1>1. B \in SUBSET A
    BY DEF ActiveIn
  <1>2. IsFiniteSet(A) /\ Cardinality(A) \in Nat /\ Cardinality(A) <= MaxActive
    BY Finite DEF IInv, ActiveWithinLimit
  <1> HIDE DEF A, B
  <1>3. IsFiniteSet(B) /\ Cardinality(B) <= Cardinality(A)
    BY <1>1, <1>2, FS_Subset
  <1>4. Cardinality(B) \in Nat
    BY <1>3, FS_CardinalityType
  <1>5. Cardinality(B) <= MaxActive
    BY <1>2, <1>3, <1>4, Numbers
  <1> QED BY <1>5 DEF B

\* One does, in a scope that has room.
LEMMA OneActivated ==
    ASSUME IInv, NEW e \in Endpoints, NEW s \in Scopes, NEW row, CanActivate(s),
           endpoints' = [endpoints EXCEPT ![e] = row], row.org = s
    PROVE  ActiveWithinLimit'
  <1> SUFFICES ASSUME NEW o \in Scopes PROVE Cardinality(ActiveIn(o)') <= MaxActive
    BY DEF ActiveWithinLimit
  <1> DEFINE A == ActiveIn(o)
             B == ActiveIn(o)'
  <1>0. /\ endpoints'[e] = row
        /\ \A f \in Endpoints : f # e => endpoints'[f] = endpoints[f]
    BY DEF IInv, TypeOK
  <1>1. B \in SUBSET (A \cup {e}) /\ (o # s => B \in SUBSET A)
    BY <1>0 DEF ActiveIn
  <1>2. /\ IsFiniteSet(A) /\ Cardinality(A) \in Nat /\ Cardinality(A) <= MaxActive
        /\ o = s => Cardinality(A) < MaxActive
    BY Finite DEF IInv, ActiveWithinLimit, CanActivate
  <1> HIDE DEF A, B
  <1>3. CASE o # s
    <2>1. IsFiniteSet(B) /\ Cardinality(B) <= Cardinality(A)
      BY <1>1, <1>2, <1>3, FS_Subset
    <2>2. Cardinality(B) \in Nat
      BY <2>1, FS_CardinalityType
    <2>3. Cardinality(B) <= MaxActive
      BY <1>2, <2>1, <2>2, Numbers
    <2> QED BY <2>3 DEF B
  <1>4. CASE o = s
    <2>0. /\ IsFiniteSet(A \cup {e})
          /\ Cardinality(A \cup {e}) = IF e \in A THEN Cardinality(A) ELSE Cardinality(A) + 1
      BY ONLY <1>2, FS_AddElement, Zenon
    <2>1. IsFiniteSet(A \cup {e}) /\ Cardinality(A \cup {e}) <= Cardinality(A) + 1
      BY ONLY <1>2, <2>0
    <2>2. IsFiniteSet(B) /\ Cardinality(B) <= Cardinality(A \cup {e})
      BY <1>1, <2>1, FS_Subset
    <2>3. Cardinality(B) \in Nat /\ Cardinality(A \cup {e}) \in Nat
      BY <2>1, <2>2, FS_CardinalityType
    <2>4. Cardinality(B) <= MaxActive
      BY <1>2, <1>4, <2>1, <2>2, <2>3, Numbers
    <2> QED BY <2>4 DEF B
  <1> QED BY <1>3, <1>4

-----------------------------------------------------------------------------
(* The steps of endpoints                                                  *)

\* The statement of DeliveredStays.
DeliveredKept ==
    \A d \in Ids \ shared' :
        rows[d].status = "delivered" =>
           \/ rows'[d].status \in {"delivered", "deleted"}
           \/ retries' = retries + 1

Kept == IInv' /\ DeliveredKept

\* Nothing but the endpoints changes.
LEMMA EndpointOnly ==
    ASSUME IInv, endpoints' \in [Endpoints -> Endpoint], ActiveWithinLimit',
           UNCHANGED <<rows, nextDelivery, workers, crashes, retries, sends, shared>>
    PROVE  Kept
  <1>1. TypeOK'
    BY DEF IInv, TypeOK
  <1>2. nextDelivery <= nextDelivery' /\ SendsGrow
    BY Numbers DEF IInv, TypeOK, SendsGrow
  <1>3. RowsGood'
    BY DEF IInv, RowsGood, RowGood
  <1>4. WorkersGood'
    BY <1>1, <1>2, WorkersUnchanged
  <1>5. HeldGood' /\ OneSender'
    BY HeldKept
  <1>6. DeliveredKept
    BY DEF DeliveredKept
  <1> QED BY <1>1, <1>3, <1>4, <1>5, <1>6 DEF Kept, IInv

LEMMA CreateWebhookEndpointStep ==
    ASSUME IInv, NEW e \in Endpoints, NEW o \in Scopes, CreateWebhookEndpoint(e, o)
    PROVE  Kept
  <1> DEFINE row == [status |-> "active", org |-> o]
  <1>1. row \in Endpoint /\ row.org = o
    BY DEF Endpoint, EndpointStates
  <1>2. endpoints' = [endpoints EXCEPT ![e] = row] /\ CanActivate(o)
    BY DEF CreateWebhookEndpoint
  <1> HIDE DEF row
  <1>3. endpoints' \in [Endpoints -> Endpoint]
    BY <1>1, <1>2 DEF IInv, TypeOK
  <1>4. ActiveWithinLimit'
    BY <1>1, <1>2, OneActivated
  <1> QED BY <1>3, <1>4, EndpointOnly DEF CreateWebhookEndpoint

LEMMA SetWebhookEndpointStatusStep ==
    ASSUME IInv, NEW e \in Endpoints, NEW status \in {"active", "disabled", "archived"},
           SetWebhookEndpointStatus(e, status)
    PROVE  Kept
  <1> DEFINE row == [endpoints[e] EXCEPT !.status = status]
  <1>0. endpoints[e] \in Endpoint
    BY DEF IInv, TypeOK
  <1>1. row \in Endpoint /\ row.org = endpoints[e].org /\ row.status = status
    BY <1>0 DEF Endpoint, EndpointStates
  <1>2. endpoints' = [endpoints EXCEPT ![e] = row]
    BY DEF SetWebhookEndpointStatus
  <1> HIDE DEF row
  <1>3. /\ endpoints' \in [Endpoints -> Endpoint] /\ endpoints'[e] = row
        /\ \A f \in Endpoints : f # e => endpoints'[f] = endpoints[f]
    BY <1>1, <1>2 DEF IInv, TypeOK
  <1>4. ActiveWithinLimit'
    <2>1. CASE status = "active"
      <3>1. endpoints[e].org \in Scopes /\ CanActivate(endpoints[e].org)
        BY <2>1 DEF SetWebhookEndpointStatus, OfOrganization, Scopes
      <3> QED BY <1>1, <1>2, <3>1, OneActivated
    <2>2. CASE status # "active"
      BY <1>1, <1>3, <2>2, NobodyActivated
    <2> QED BY <2>1, <2>2
  <1> QED BY <1>3, <1>4, EndpointOnly DEF SetWebhookEndpointStatus

LEMMA DeleteWebhookEndpointStep ==
    ASSUME IInv, NEW e \in Endpoints, DeleteWebhookEndpoint(e)
    PROVE  Kept
  <1> DEFINE row == [status |-> "none", org |-> NoOrg]
  <1>1. row \in Endpoint /\ row.status = "none"
    BY DEF Endpoint, EndpointStates, Scopes
  <1>2. endpoints' = [endpoints EXCEPT ![e] = row]
    BY DEF DeleteWebhookEndpoint
  <1> HIDE DEF row
  <1>3. /\ endpoints' \in [Endpoints -> Endpoint] /\ endpoints'[e] = row
        /\ \A f \in Endpoints : f # e => endpoints'[f] = endpoints[f]
    BY <1>1, <1>2 DEF IInv, TypeOK
  <1>4. ActiveWithinLimit'
    BY <1>1, <1>3, NobodyActivated
  <1> QED BY <1>3, <1>4, EndpointOnly DEF DeleteWebhookEndpoint

(* What is deleted with its owner: the rows stay deleted to whoever works  *)
(* on them.                                                                *)
LEMMA DeleteOwnerStep ==
    ASSUME IInv, NEW gone \in SUBSET Endpoints, DeleteOwner(gone)
    PROVE  Kept
  <1> DEFINE row == [status |-> "none", org |-> NoOrg]
  <1>1. row \in Endpoint /\ row.status = "none"
    BY DEF Endpoint, EndpointStates, Scopes
  <1>2. endpoints' = [e \in Endpoints |-> IF e \in gone THEN row ELSE endpoints[e]]
    BY DEF DeleteOwner
  <1> HIDE DEF row
  <1>3. endpoints' \in [Endpoints -> Endpoint] /\ ActiveWithinLimit'
    <2>1. endpoints' \in [Endpoints -> Endpoint]
      BY <1>1, <1>2 DEF IInv, TypeOK
    <2>2. \A e \in Endpoints : endpoints'[e].status = "active" => endpoints'[e] = endpoints[e]
      BY <1>1, <1>2
    <2> QED BY <2>1, <2>2, NobodyActivated
  <1>4. \A d \in Ids : rows[d] \in Delivery
    BY DEF IInv, TypeOK
  <1>5. /\ rows' \in [Ids -> Delivery]
        /\ \A d \in Ids : \/ rows'[d] = rows[d]
                          \/ rows'[d].status = "deleted" /\ rows[d].status # "none"
    <2> DEFINE dead(d) == [rows[d] EXCEPT !.status = "deleted"]
    <2>1. rows' = [d \in Ids |-> IF rows[d].endpoint \in gone /\ rows[d].status # "none"
                                THEN dead(d) ELSE rows[d]]
      BY DEF DeleteOwner
    <2>2. \A d \in Ids : dead(d) \in Delivery /\ dead(d).status = "deleted"
      BY <1>4 DEF Delivery
    <2> HIDE DEF dead
    <2> QED BY <1>4, <2>1, <2>2
  <1>6. UNCHANGED <<nextDelivery, workers, crashes, retries, sends, shared>>
    BY DEF DeleteOwner
  <1>7. TypeOK'
    BY <1>3, <1>5, <1>6 DEF IInv, TypeOK
  <1>8. nextDelivery <= nextDelivery' /\ SendsGrow
    BY <1>6, Numbers DEF IInv, TypeOK, SendsGrow
  <1>9. RowsGood'
    BY <1>5, <1>6 DEF IInv, RowsGood, RowGood
  <1>10. WorkersGood'
    BY <1>6, <1>7, <1>8, WorkersUnchanged
  <1>11. HeldGood' /\ OneSender'
    BY <1>5, <1>6, HeldKept
  <1>12. DeliveredKept
    BY <1>5 DEF DeliveredKept
  <1> QED BY <1>3, <1>7, <1>9, <1>10, <1>11, <1>12 DEF Kept, IInv

-----------------------------------------------------------------------------
(* The steps of the queue                                                  *)

(* The rows that the fan-out and createWebhookDelivery add are new ones.    *)
LEMMA NewRowsStep ==
    ASSUME IInv, nextDelivery' \in 1 .. MaxDeliveries + 1, nextDelivery <= nextDelivery',
           rows' \in [Ids -> Delivery],
           \A d \in Ids :
              IF d < nextDelivery \/ d >= nextDelivery'
              THEN rows'[d] = rows[d]
              ELSE rows'[d].status = "pending" /\ rows'[d].attempts = 0,
           UNCHANGED <<endpoints, workers, crashes, retries, sends, shared>>
    PROVE  Kept
  <1>1. TypeOK' /\ SendsGrow
    BY Numbers DEF IInv, TypeOK, SendsGrow
  <1>2. /\ nextDelivery \in Nat /\ nextDelivery' \in Nat
        /\ \A d \in Ids : d \in Nat /\ sends[d] \in Nat /\ sends'[d] = sends[d]
    BY Numbers DEF IInv, TypeOK
  <1>3. RowsGood'
    <2> SUFFICES ASSUME NEW d \in Ids PROVE RowGood(d)'
      BY DEF RowsGood
    <2>1. CASE d < nextDelivery \/ d >= nextDelivery'
      BY <1>2, <2>1 DEF IInv, RowsGood, RowGood
    <2>2. CASE ~(d < nextDelivery \/ d >= nextDelivery')
      BY <1>2, <2>2, Numbers DEF RowGood
    <2> QED BY <2>1, <2>2
  <1>4. WorkersGood'
    BY <1>1, WorkersUnchanged
  <1>5. \A d \in Ids : rows[d].status # "none" => rows'[d] = rows[d]
    BY <1>2 DEF IInv, RowsGood, RowGood
  <1>6. HeldGood' /\ OneSender'
    BY <1>5, HeldKept
  <1>7. DeliveredKept
    BY <1>5 DEF DeliveredKept
  <1>8. ActiveWithinLimit'
    BY NobodyActivated
  <1> QED BY <1>1, <1>3, <1>4, <1>6, <1>7, <1>8 DEF Kept, IInv

LEMMA FanOutStep ==
    ASSUME IInv, NEW o \in Scopes, NEW E \in SUBSET Reached(o), FanOut(o, E)
    PROVE  Kept
  <1> DEFINE n == Cardinality(E)
             order(d) == SetToSeq(E)[d - nextDelivery + 1]
  <1>1. E \in SUBSET Endpoints /\ IsFiniteSet(Endpoints)
    BY WebhooksAssumption DEF Reached, ActiveIn, WebhooksAssumption
  <1>2. IsFiniteSet(E)
    BY <1>1, FS_Subset
  <1>3. n \in Nat
    BY <1>2, FS_CardinalityType
  <1>4. nextDelivery \in 1 .. MaxDeliveries + 1
    BY DEF IInv, TypeOK
  <1>5. ASSUME NEW d \in Ids, d \in nextDelivery .. nextDelivery + n - 1
        PROVE  order(d) \in Endpoints
    <2>1. d - nextDelivery + 1 \in 1 .. Cardinality(E)
      BY <1>3, <1>4, <1>5, Numbers
    <2> QED BY <1>1, <1>2, <2>1, SetToSeqMember
  <1>6. rows' = [d \in Ids |-> IF d \in nextDelivery .. nextDelivery + n - 1
                              THEN Pending(order(d)) ELSE rows[d]]
    BY DEF FanOut
  <1>7. nextDelivery' = nextDelivery + n /\ nextDelivery + n <= MaxDeliveries + 1
    BY DEF FanOut
  <1> HIDE DEF n, order
  <1>8. ASSUME NEW d \in Ids, d \in nextDelivery .. nextDelivery + n - 1
        PROVE  /\ Pending(order(d)) \in Delivery
               /\ Pending(order(d)).status = "pending" /\ Pending(order(d)).attempts = 0
    BY <1>5, <1>8, NewRow
  <1>9. rows' \in [Ids -> Delivery]
    BY <1>6, <1>8 DEF IInv, TypeOK
  <1>10. \A d \in Ids :
            IF d < nextDelivery \/ d >= nextDelivery'
            THEN rows'[d] = rows[d]
            ELSE rows'[d].status = "pending" /\ rows'[d].attempts = 0
    BY <1>3, <1>4, <1>6, <1>7, <1>8, Numbers
  <1>11. nextDelivery' \in 1 .. MaxDeliveries + 1 /\ nextDelivery <= nextDelivery'
    BY <1>3, <1>4, <1>7, Numbers
  <1> QED BY <1>9, <1>10, <1>11, NewRowsStep DEF FanOut

LEMMA CreateWebhookDeliveryStep ==
    ASSUME IInv, NEW e \in Endpoints, CreateWebhookDelivery(e)
    PROVE  Kept
  <1>1. /\ nextDelivery \in Ids /\ nextDelivery' = nextDelivery + 1
        /\ rows' = [rows EXCEPT ![nextDelivery] = Pending(e)]
    BY DEF CreateWebhookDelivery
  <1>2. /\ rows' \in [Ids -> Delivery] /\ rows'[nextDelivery] = Pending(e)
        /\ \A d \in Ids : d # nextDelivery => rows'[d] = rows[d]
    BY <1>1, NewRow DEF IInv, TypeOK
  <1>3. nextDelivery' \in 1 .. MaxDeliveries + 1 /\ nextDelivery <= nextDelivery'
    BY <1>1, Numbers
  <1>4. \A d \in Ids :
            IF d < nextDelivery \/ d >= nextDelivery'
            THEN rows'[d] = rows[d]
            ELSE rows'[d].status = "pending" /\ rows'[d].attempts = 0
    BY <1>1, <1>2, NewRow, Numbers
  <1> QED BY <1>2, <1>3, <1>4, NewRowsStep DEF CreateWebhookDelivery

\* One row is replaced, by one that nobody holds for himself any more.
LEMMA RowStep ==
    ASSUME IInv, NEW d \in Ids, NEW row \in Delivery, rows[d].status # "none",
           rows' = [rows EXCEPT ![d] = row],
           row.status = "pending", row.attempts < MaxAttempts, row.attempts <= sends[d],
           shared' \in SUBSET Ids, shared \subseteq shared', retries' \in 0 .. MaxRetries,
           Held(d) => d \in shared' \/ rows[d].status \notin {"processing", "deleted"},
           rows[d].status = "delivered" => retries' = retries + 1,
           UNCHANGED <<endpoints, nextDelivery, workers, crashes, sends>>
    PROVE  Kept
  <1>1. /\ rows' \in [Ids -> Delivery] /\ rows'[d] = row
        /\ \A f \in Ids : f # d => rows'[f] = rows[f]
    BY DEF IInv, TypeOK
  <1>2. TypeOK'
    BY <1>1 DEF IInv, TypeOK
  <1>3. nextDelivery <= nextDelivery' /\ SendsGrow
    BY Numbers DEF IInv, TypeOK, SendsGrow
  <1>4. RowsGood'
    BY <1>1 DEF IInv, RowsGood, RowGood
  <1>5. WorkersGood'
    BY <1>2, <1>3, WorkersUnchanged
  <1>6. HeldGood' /\ OneSender'
    <2>1. \A f \in Ids \ shared' : rows[f].status \in {"processing", "deleted"} =>
             rows'[f].status \in {"processing", "deleted"} \/ ~Held(f)
      BY <1>1
    <2> QED BY <2>1, HeldKept
  <1>7. DeliveredKept
    BY <1>1 DEF DeliveredKept
  <1>8. ActiveWithinLimit'
    BY NobodyActivated
  <1> QED BY <1>2, <1>4, <1>5, <1>6, <1>7, <1>8 DEF Kept, IInv

LEMMA BackoffPassesStep ==
    ASSUME IInv, NEW d \in Ids, BackoffPasses(d)
    PROVE  Kept
  <1> DEFINE row == [rows[d] EXCEPT !.due = TRUE]
  <1>1. rows[d] \in Delivery /\ rows[d].status = "pending"
    BY DEF IInv, TypeOK, BackoffPasses
  <1>2. /\ row \in Delivery /\ row.status = "pending" /\ row.attempts = rows[d].attempts
        /\ rows' = [rows EXCEPT ![d] = row]
    BY <1>1 DEF Delivery, BackoffPasses
  <1> HIDE DEF row
  <1>3. row.attempts < MaxAttempts /\ row.attempts <= sends[d]
    BY <1>1, <1>2 DEF IInv, RowsGood, RowGood
  <1>4. shared' \in SUBSET Ids /\ retries' \in 0 .. MaxRetries /\ shared' = shared
    BY DEF BackoffPasses, IInv, TypeOK
  <1> QED BY <1>1, <1>2, <1>3, <1>4, RowStep DEF BackoffPasses

LEMMA RetryDeliveryStep ==
    ASSUME IInv, NEW d \in Ids, RetryDelivery(d)
    PROVE  Kept
  <1> DEFINE row == Pending(rows[d].endpoint)
  <1>1. rows[d] \in Delivery /\ rows[d].status # "none"
    BY DEF IInv, TypeOK, RetryDelivery
  <1>2. /\ row \in Delivery /\ row.status = "pending" /\ row.attempts = 0
        /\ rows' = [rows EXCEPT ![d] = row]
    BY <1>1, Numbers DEF Delivery, Pending, Kinds, RetryDelivery, PutBack
  <1> HIDE DEF row
  <1>3. row.attempts < MaxAttempts /\ row.attempts <= sends[d]
    BY <1>2, Numbers DEF IInv, TypeOK
  <1>4. /\ shared' \in SUBSET Ids /\ shared \subseteq shared' /\ (Held(d) => d \in shared')
        /\ retries' \in 0 .. MaxRetries /\ retries' = retries + 1
    BY Numbers DEF RetryDelivery, PutBack, IInv, TypeOK
  <1> QED BY <1>1, <1>2, <1>3, <1>4, RowStep DEF RetryDelivery

LEMMA RecoverStaleStep ==
    ASSUME IInv, NEW d \in Ids, RecoverStale(d)
    PROVE  Kept
  <1> DEFINE row == [rows[d] EXCEPT !.status = "pending", !.due = TRUE, !.kind = "none"]
  <1>1. rows[d] \in Delivery /\ rows[d].status = "processing"
    BY DEF IInv, TypeOK, RecoverStale, Stale
  <1>2. /\ row \in Delivery /\ row.status = "pending" /\ row.attempts = rows[d].attempts
        /\ rows' = [rows EXCEPT ![d] = row]
    BY <1>1 DEF Delivery, Kinds, RecoverStale, PutBack
  <1> HIDE DEF row
  <1>3. row.attempts < MaxAttempts /\ row.attempts <= sends[d]
    BY <1>1, <1>2 DEF IInv, RowsGood, RowGood
  <1>4. /\ shared' \in SUBSET Ids /\ shared \subseteq shared' /\ (Held(d) => d \in shared')
        /\ retries' \in 0 .. MaxRetries
    BY DEF RecoverStale, PutBack, IInv, TypeOK
  <1> QED BY <1>1, <1>2, <1>3, <1>4, RowStep DEF RecoverStale

-----------------------------------------------------------------------------
(* The steps of processors                                                 *)

\* A processor that turns to its next row, or is done.
LEMMA Turn ==
    ASSUME IInv, NEW w \in Workers, NEW todo \in [Ids -> 0 .. MaxAttempts + 1],
           \A d \in Ids : todo[d] # NotListed =>
              d < nextDelivery /\ todo[d] < MaxAttempts /\ todo[d] <= sends[d],
           Continue(w, todo)
    PROVE  \E x \in Worker : /\ workers' = [workers EXCEPT ![w] = x]
                             /\ WorkerGood(x) /\ x.op \notin Holding
  <1> DEFINE x == [IdleWorker EXCEPT !.op = "loop", !.todo = todo]
  <1>1. x \in Worker /\ x.op = "loop" /\ x.todo = todo
    BY Idle DEF Worker
  <1>2. workers' = [workers EXCEPT ![w] = IF \A d \in Ids : todo[d] = NotListed
                                          THEN IdleWorker ELSE x]
    BY DEF Continue
  <1> HIDE DEF x
  <1>3. WorkerGood(x) /\ x.op \notin Holding
    BY <1>1 DEF WorkerGood, ListedGood, AnswerGood, Holding
  <1>4. CASE \A d \in Ids : todo[d] = NotListed
    BY <1>2, <1>4, Idle DEF Holding
  <1> QED BY <1>1, <1>2, <1>3, <1>4

\* The processor holds no row after its step; the rows may change as it writes.
LEMMA LetGoStep ==
    ASSUME IInv, NEW w \in Workers, NEW x \in Worker,
           workers' = [workers EXCEPT ![w] = x], WorkerGood(x), x.op \notin Holding,
           TypeOK', RowsGood',
           \A d \in Ids : rows'[d] = rows[d] \/ Holds(w, d),
           DeliveredKept,
           UNCHANGED <<endpoints, nextDelivery, retries, sends, shared>>
    PROVE  Kept
  <1>1. nextDelivery <= nextDelivery' /\ SendsGrow /\ TypeOK
    BY Numbers DEF IInv, TypeOK, SendsGrow
  <1>2. WorkerGood(x)'
    BY <1>1, Grows
  <1>3. WorkersGood'
    BY <1>1, <1>2, WorkerPut
  <1>4. \A v \in Workers, d \in Ids : Holds(v, d)' => v # w /\ Holds(v, d)
    BY DEF Holds, Holding, IInv, TypeOK
  <1>5. OneSender'
    BY <1>4 DEF IInv, OneSender
  <1>6. HeldGood'
    BY <1>4 DEF IInv, HeldGood, OneSender
  <1>7. ActiveWithinLimit'
    BY NobodyActivated
  <1> QED BY <1>3, <1>5, <1>6, <1>7 DEF Kept, IInv

LEMMA ListPendingStep ==
    ASSUME IInv, NEW w \in Workers, ListPending(w)
    PROVE  Kept
  <1> DEFINE todo == [d \in Ids |-> IF Due(d) THEN rows[d].attempts ELSE NotListed]
  <1>1. \A d \in Ids : rows[d].attempts \in 0 .. MaxAttempts
    BY DEF IInv, TypeOK, Delivery
  <1>2. todo \in [Ids -> 0 .. MaxAttempts + 1]
    BY <1>1, Numbers
  <1>3. \A d \in Ids : todo[d] # NotListed =>
              d < nextDelivery /\ todo[d] < MaxAttempts /\ todo[d] <= sends[d]
    BY Numbers DEF IInv, TypeOK, RowsGood, RowGood, Due
  <1>4. Continue(w, todo)
    BY DEF ListPending
  <1> HIDE DEF todo
  <1>5. PICK x \in Worker : /\ workers' = [workers EXCEPT ![w] = x]
                            /\ WorkerGood(x) /\ x.op \notin Holding
    BY <1>2, <1>3, <1>4, Turn
  <1>6. TypeOK'
    BY <1>5 DEF ListPending, IInv, TypeOK
  <1>7. RowsGood' /\ DeliveredKept /\ UNCHANGED rows
    BY DEF ListPending, IInv, RowsGood, RowGood, DeliveredKept
  <1> QED BY <1>5, <1>6, <1>7, LetGoStep DEF ListPending

\* A processor ends its loop.
LEMMA StopStep ==
    ASSUME IInv, NEW w \in Workers, Stop(w), TypeOK',
           UNCHANGED <<endpoints, rows, nextDelivery, retries, sends, shared>>
    PROVE  Kept
  <1>1. RowsGood' /\ DeliveredKept
    BY DEF IInv, RowsGood, RowGood, DeliveredKept
  <1> QED BY <1>1, Idle, LetGoStep DEF Stop, Holding

LEMMA CrashStep ==
    ASSUME IInv, NEW w \in Workers, Crash(w)
    PROVE  Kept
  <1>1. TypeOK'
    BY Idle, Numbers DEF Crash, Stop, IInv, TypeOK
  <1> QED BY <1>1, StopStep DEF Crash

\* A row leaves the list of the processor.
LEMMA Shorter ==
    ASSUME IInv, NEW w \in Workers, NEW d \in Ids,
           Continue(w, [workers[w].todo EXCEPT ![d] = NotListed])
    PROVE  \E x \in Worker : /\ workers' = [workers EXCEPT ![w] = x]
                             /\ WorkerGood(x) /\ x.op \notin Holding
  <1> DEFINE todo == [workers[w].todo EXCEPT ![d] = NotListed]
  <1>1. workers[w].todo \in [Ids -> 0 .. MaxAttempts + 1]
    BY DEF IInv, TypeOK, Worker
  <1>2. todo \in [Ids -> 0 .. MaxAttempts + 1]
    BY <1>1, Numbers
  <1>3. \A f \in Ids : todo[f] # NotListed =>
              f < nextDelivery /\ todo[f] < MaxAttempts /\ todo[f] <= sends[f]
    BY <1>1 DEF IInv, WorkersGood, WorkerGood, ListedGood
  <1> HIDE DEF todo
  <1> QED BY <1>2, <1>3, Turn DEF todo

(* A pending row is claimed: unless it was put back under somebody, nobody *)
(* has it.                                                                 *)
LEMMA ClaimWebhookDeliveryStep ==
    ASSUME IInv, NEW w \in Workers, NEW d \in Ids, ClaimWebhookDelivery(w, d)
    PROVE  Kept
  <1>1. CASE Claimable(d) /\ workers' = [workers EXCEPT ![w] = [@ EXCEPT !.op = "read", !.current = d]]
             /\ rows' = [rows EXCEPT ![d].status = "processing"]
    <2> DEFINE x == [workers[w] EXCEPT !.op = "read", !.current = d]
               row == [rows[d] EXCEPT !.status = "processing"]
    <2>1. workers[w] \in Worker /\ WorkerGood(workers[w]) /\ workers[w].todo[d] # NotListed
      BY DEF IInv, TypeOK, WorkersGood, ClaimWebhookDelivery
    <2>2. rows[d] \in Delivery /\ rows[d].status = "pending"
      BY <1>1 DEF IInv, TypeOK, Claimable
    <2>3. x \in Worker /\ x.op = "read" /\ x.current = d /\ x.todo = workers[w].todo
      BY <2>1 DEF Worker
    <2>4. /\ row \in Delivery /\ row.status = "processing"
          /\ row.attempts = rows[d].attempts /\ row.kind = rows[d].kind
      BY <2>2 DEF Delivery
    <2>5. workers' = [workers EXCEPT ![w] = x] /\ rows' = [rows EXCEPT ![d] = row]
      BY <1>1
    <2> HIDE DEF x, row
    <2>6. UNCHANGED <<endpoints, nextDelivery, crashes, retries, sends, shared>>
      BY DEF ClaimWebhookDelivery
    <2>7. /\ TypeOK' /\ rows'[d] = row /\ workers'[w] = x
          /\ \A f \in Ids : f # d => rows'[f] = rows[f]
          /\ \A v \in Workers : v # w => workers'[v] = workers[v]
      BY <2>3, <2>4, <2>5, <2>6 DEF IInv, TypeOK
    <2>8. WorkerGood(x)
      BY <2>1, <2>3 DEF WorkerGood, ListedGood, AnswerGood, Holding
    <2>9. SendsGrow /\ nextDelivery <= nextDelivery' /\ TypeOK
      BY <2>6, Numbers DEF IInv, TypeOK, SendsGrow
    <2>10. WorkersGood'
      BY <2>3, <2>5, <2>6, <2>7, <2>8, <2>9, Grows, WorkerPut
    <2>11. RowsGood'
      BY <2>2, <2>4, <2>6, <2>7 DEF IInv, RowsGood, RowGood
    <2>12. \A v \in Workers, f \in Ids :
              Holds(v, f)' => (v = w /\ f = d) \/ (v # w /\ Holds(v, f))
      BY <2>3, <2>7 DEF Holds
    <2>13. \A v \in Workers : d \notin shared => ~Holds(v, d)
      BY <2>2 DEF IInv, HeldGood
    <2>14. OneSender'
      BY <2>6, <2>12, <2>13 DEF IInv, OneSender
    <2>15. HeldGood'
      BY <2>4, <2>6, <2>7, <2>12, <2>13 DEF IInv, HeldGood
    <2>16. DeliveredKept
      BY <2>2, <2>7 DEF DeliveredKept
    <2>17. ActiveWithinLimit'
      BY <2>6, NobodyActivated
    <2> QED BY <2>7, <2>10, <2>11, <2>14, <2>15, <2>16, <2>17 DEF Kept, IInv
  <1>2. CASE Continue(w, [workers[w].todo EXCEPT ![d] = NotListed]) /\ UNCHANGED rows
    <2>1. PICK x \in Worker : /\ workers' = [workers EXCEPT ![w] = x]
                              /\ WorkerGood(x) /\ x.op \notin Holding
      BY <1>2, Shorter
    <2>2. TypeOK'
      BY <1>2, <2>1 DEF ClaimWebhookDelivery, IInv, TypeOK
    <2>3. RowsGood' /\ DeliveredKept
      BY <1>2 DEF ClaimWebhookDelivery, IInv, RowsGood, RowGood, DeliveredKept
    <2> QED BY <1>2, <2>1, <2>2, <2>3, LetGoStep DEF ClaimWebhookDelivery
  <1>3. CASE Stop(w) /\ UNCHANGED rows
    <2>1. TypeOK'
      BY <1>3, Idle DEF Stop, ClaimWebhookDelivery, IInv, TypeOK
    <2> QED BY <1>3, <2>1, StopStep DEF ClaimWebhookDelivery
  <1> QED BY <1>1, <1>2, <1>3 DEF ClaimWebhookDelivery

\* The processor goes on with the row it holds.
LEMMA HoldStep ==
    ASSUME IInv, NEW w \in Workers, NEW x \in Worker,
           workers' = [workers EXCEPT ![w] = x],
           workers[w].op \in Holding, x.op \in Holding, x.current = workers[w].current,
           SendsGrow, sends' \in [Ids -> 0 .. MaxAttempts], WorkerGood(x)',
           UNCHANGED <<endpoints, rows, nextDelivery, crashes, retries, shared>>
    PROVE  Kept
  <1>1. /\ TypeOK' /\ workers'[w] = x
        /\ \A v \in Workers : v # w => workers'[v] = workers[v]
    BY DEF IInv, TypeOK
  <1>2. WorkersGood'
    BY <1>1, WorkerPut
  <1>3. /\ nextDelivery \in Nat
        /\ \A d \in Ids : sends[d] \in Nat /\ sends'[d] \in Nat /\ rows[d].attempts \in Nat
    BY Numbers DEF IInv, TypeOK, Delivery
  <1>4. RowsGood'
    BY <1>3, Numbers DEF IInv, RowsGood, RowGood, SendsGrow
  <1>5. \A v \in Workers, d \in Ids : Holds(v, d)' <=> Holds(v, d)
    BY <1>1 DEF Holds, Holding
  <1>6. OneSender' /\ HeldGood'
    BY <1>5 DEF IInv, OneSender, HeldGood
  <1>7. DeliveredKept
    BY DEF DeliveredKept
  <1>8. ActiveWithinLimit'
    BY NobodyActivated
  <1> QED BY <1>1, <1>2, <1>4, <1>6, <1>7, <1>8 DEF Kept, IInv

LEMMA ReadEndpointStep ==
    ASSUME IInv, NEW w \in Workers, ReadEndpoint(w)
    PROVE  Kept
  <1> DEFINE y == workers[w]
  <1>1. y \in Worker /\ WorkerGood(y) /\ y.op = "read" /\ TypeOK
    BY DEF IInv, TypeOK, WorkersGood, ReadEndpoint
  <1>2. PICK x \in Worker :
           /\ workers' = [workers EXCEPT ![w] = x]
           /\ x.op \in Holding /\ x.current = y.current /\ x.todo = y.todo
           /\ x.op = "update" => x.result = "failed" /\ x.kind = "inactive"
    <2>1. CASE workers' = [workers EXCEPT ![w].op = "send"]
      <3> DEFINE x == [y EXCEPT !.op = "send"]
      <3>1. /\ x \in Worker /\ x.op = "send" /\ x.current = y.current /\ x.todo = y.todo
            /\ workers' = [workers EXCEPT ![w] = x]
        BY <1>1, <2>1 DEF Worker
      <3> HIDE DEF x, y
      <3> QED BY <3>1 DEF Holding
    <2>2. CASE workers' = [workers EXCEPT ![w] = [@ EXCEPT !.op = "update", !.result = "failed",
                                                            !.kind = "inactive"]]
      <3> DEFINE x == [y EXCEPT !.op = "update", !.result = "failed", !.kind = "inactive"]
      <3>1. /\ x \in Worker /\ x.op = "update" /\ x.current = y.current /\ x.todo = y.todo
            /\ x.result = "failed" /\ x.kind = "inactive"
            /\ workers' = [workers EXCEPT ![w] = x]
        BY <1>1, <2>2 DEF Worker, Kinds
      <3> HIDE DEF x, y
      <3> QED BY <3>1 DEF Holding
    <2> QED BY <2>1, <2>2 DEF ReadEndpoint
  <1>3. WorkerGood(x)
    BY <1>1, <1>2 DEF WorkerGood, ListedGood, AnswerGood, Holding
  <1>4. UNCHANGED <<endpoints, rows, nextDelivery, crashes, retries, sends, shared>>
    BY DEF ReadEndpoint
  <1>5. WorkerGood(x)'
    BY <1>3, <1>4 DEF WorkerGood, ListedGood, AnswerGood
  <1>6. SendsGrow /\ sends' \in [Ids -> 0 .. MaxAttempts]
    BY <1>4, Numbers DEF IInv, TypeOK, SendsGrow
  <1>7. y.op \in Holding
    BY <1>1 DEF Holding
  <1> QED BY <1>2, <1>4, <1>5, <1>6, <1>7, HoldStep

LEMMA ListedOf ==
    ASSUME NEW y \in Worker, WorkerGood(y), y.op \in {"send", "update"}
    PROVE  /\ y.current \in Ids /\ y.todo[y.current] \in Nat
           /\ y.current < nextDelivery /\ y.todo[y.current] < MaxAttempts
           /\ y.todo[y.current] <= sends[y.current]
  <1>1. y.current \in Ids /\ y.todo[y.current] # NotListed
    BY DEF WorkerGood, Holding
  <1>2. y.todo \in [Ids -> 0 .. MaxAttempts + 1]
    BY DEF Worker
  <1>3. y.todo[y.current] \in Nat
    <2>1. y.todo[y.current] \in 0 .. MaxAttempts + 1
      BY ONLY <1>1, <1>2
    <2> QED BY ONLY <2>1, Numbers
  <1> QED BY <1>1, <1>3 DEF WorkerGood, ListedGood

(* The request that is sent is one more than the row and the processor     *)
(* count, up to the number after which a delivery is given up.             *)
LEMMA SendStep ==
    ASSUME IInv, NEW w \in Workers, Send(w)
    PROVE  Kept
  <1> DEFINE y == workers[w]
             d == y.current
  <1>1. y \in Worker /\ WorkerGood(y) /\ y.op = "send" /\ TypeOK
    BY DEF IInv, TypeOK, WorkersGood, Send
  <1>2. /\ d \in Ids /\ y.todo[d] \in Nat
        /\ d < nextDelivery /\ y.todo[d] < MaxAttempts /\ y.todo[d] <= sends[d]
    BY ONLY <1>1, ListedOf
  <1>3. PICK r \in {"delivered", "failed", "pending"}, k \in {"none", "client", "retryable"} :
           /\ workers' = [workers EXCEPT ![w] = [@ EXCEPT !.op = "update", !.result = r, !.kind = k]]
           /\ r = "pending" => ~Exhausted(y.todo[d] + 1)
           /\ r = "failed" /\ k = "retryable" => Exhausted(y.todo[d] + 1)
    BY DEF Send
  <1>4. sends' = [sends EXCEPT ![d] = IF @ < MaxAttempts THEN @ + 1 ELSE @]
    BY DEF Send
  <1>5. UNCHANGED <<endpoints, rows, nextDelivery, crashes, retries, shared>>
    BY DEF Send
  <1>6. PICK x \in Worker :
           /\ x.op = "update" /\ x.current = d /\ x.todo = y.todo
           /\ x.result = r /\ x.kind = k /\ workers' = [workers EXCEPT ![w] = x]
    <2> DEFINE z == [y EXCEPT !.op = "update", !.result = r, !.kind = k]
    <2>1. /\ z \in Worker /\ z.op = "update" /\ z.current = d /\ z.todo = y.todo
          /\ z.result = r /\ z.kind = k /\ workers' = [workers EXCEPT ![w] = z]
      BY <1>1, <1>3 DEF Worker, Kinds
    <2> HIDE DEF z, y
    <2> QED BY <2>1
  <1>7. sends \in [Ids -> 0 .. MaxAttempts]
    BY DEF IInv, TypeOK
  <1>0. PICK e \in Ids, todo \in [Ids -> 0 .. MaxAttempts + 1] : e = d /\ todo = y.todo
    BY <1>1, <1>2 DEF Worker
  <1> HIDE DEF y, d
  <1>8. /\ sends' \in [Ids -> 0 .. MaxAttempts] /\ SendsGrow
        /\ sends'[e] >= todo[e] + 1
    BY <1>0, <1>2, <1>4, <1>7, Numbers DEF SendsGrow
  <1>9. \A f \in Ids : todo[f] \in Nat /\ sends[f] \in Nat /\ sends'[f] \in Nat
    BY <1>0, <1>1, <1>7, <1>8, Numbers DEF Worker
  <1>10. ASSUME NEW f \in Ids PROVE ListedGood(x, f)'
    BY <1>0, <1>1, <1>5, <1>6, <1>8, <1>9, Numbers DEF WorkerGood, ListedGood, SendsGrow
  <1>11. AnswerGood(x)'
    BY <1>0, <1>2, <1>3, <1>6, <1>8, <1>9, Numbers DEF AnswerGood, Exhausted
  <1>12. WorkerGood(x)'
    BY <1>0, <1>2, <1>6, <1>10, <1>11, Numbers DEF WorkerGood
  <1>13. workers[w].op \in Holding /\ x.op \in Holding /\ x.current = workers[w].current
    BY <1>1, <1>6 DEF Holding, y, d
  <1> QED BY <1>5, <1>6, <1>8, <1>12, <1>13, HoldStep

(* The answer is written over whatever the row has become.                 *)
LEMMA UpdateWebhookDeliveryStep ==
    ASSUME IInv, NEW w \in Workers, UpdateWebhookDelivery(w)
    PROVE  Kept
  <1> DEFINE y == workers[w]
             d == y.current
  <1>1. y \in Worker /\ WorkerGood(y) /\ y.op = "update" /\ TypeOK
    BY DEF IInv, TypeOK, WorkersGood, UpdateWebhookDelivery
  <1>2. /\ d \in Ids /\ y.todo[d] \in Nat
        /\ d < nextDelivery /\ y.todo[d] < MaxAttempts /\ y.todo[d] <= sends[d]
    BY ONLY <1>1, ListedOf
  <1>3. UNCHANGED <<endpoints, nextDelivery, crashes, retries, sends, shared>>
    BY DEF UpdateWebhookDelivery
  <1>4. CASE Stop(w) /\ UNCHANGED rows
    <2>1. TypeOK'
      BY <1>3, <1>4, Idle DEF Stop, IInv, TypeOK
    <2> QED BY <1>3, <1>4, <2>1, StopStep
  <1>5. CASE /\ rows' = [rows EXCEPT ![d] = [@ EXCEPT !.status = y.result,
                                                     !.attempts = y.todo[d] + 1,
                                                     !.due = FALSE, !.kind = y.kind]]
             /\ Continue(w, [y.todo EXCEPT ![d] = NotListed])
    <2>1. PICK x \in Worker : /\ workers' = [workers EXCEPT ![w] = x]
                              /\ WorkerGood(x) /\ x.op \notin Holding
      BY <1>2, <1>5, Shorter
    <2> DEFINE row == [rows[d] EXCEPT !.status = y.result, !.attempts = y.todo[d] + 1,
                                      !.due = FALSE, !.kind = y.kind]
    <2>2. rows[d] \in Delivery
      BY <1>2 DEF IInv, TypeOK
    <2>3. /\ y.todo[d] + 1 \in 0 .. MaxAttempts
          /\ y.result \in {"none", "pending", "delivered", "failed"} /\ y.kind \in Kinds
      BY <1>1, <1>2, Numbers DEF Worker
    <2>4. /\ row \in Delivery /\ row.status = y.result /\ row.attempts = y.todo[d] + 1
          /\ row.kind = y.kind /\ rows' = [rows EXCEPT ![d] = row]
      BY <1>5, <2>2, <2>3 DEF Delivery
    <2>5. Holds(w, d)
      BY <1>1 DEF Holds
    <2>6. AnswerGood(y)
      BY <1>1 DEF WorkerGood
    <2>0. PICK e \in Ids : e = d /\ e = y.current
      BY <1>2
    <2> HIDE DEF row, y, d
    <2>7. /\ rows' \in [Ids -> Delivery] /\ rows'[d] = row
          /\ \A f \in Ids : f # d => rows'[f] = rows[f]
      BY <1>2, <2>4 DEF IInv, TypeOK
    <2>8. TypeOK'
      BY <1>3, <2>1, <2>7 DEF IInv, TypeOK
    <2>9. RowsGood'
      <3>1. RowGood(e)'
        BY <1>1, <1>2, <1>3, <2>0, <2>3, <2>4, <2>6, <2>7, Numbers DEF RowGood, AnswerGood, TypeOK
      <3>2. ASSUME NEW f \in Ids, f # e PROVE RowGood(f)'
        BY <1>3, <2>0, <2>7, <3>2 DEF IInv, RowsGood, RowGood
      <3> QED BY <3>1, <3>2 DEF RowsGood
    <2>10. d \notin shared => rows[d].status # "delivered"
      BY <1>2, <2>5 DEF IInv, HeldGood
    <2>11. DeliveredKept
      BY <1>3, <2>7, <2>10 DEF DeliveredKept
    <2>12. \A f \in Ids : rows'[f] = rows[f] \/ Holds(w, f)
      BY <2>5, <2>7
    <2> QED BY <1>3, <2>1, <2>8, <2>9, <2>11, <2>12, LetGoStep
  <1> QED BY <1>4, <1>5 DEF UpdateWebhookDelivery

-----------------------------------------------------------------------------
(* The inductive step                                                      *)

LEMMA InvInit == Init => IInv
  <1> SUFFICES ASSUME Init PROVE IInv
    OBVIOUS
  <1>1. /\ NoDelivery \in Delivery /\ NoDelivery.status = "none"
    BY Numbers DEF NoDelivery, Delivery, Kinds
  <1>2. [status |-> "none", org |-> NoOrg] \in Endpoint
    BY DEF Endpoint, EndpointStates, Scopes
  <1>3. TypeOK
    BY <1>1, <1>2, Idle, Numbers DEF Init, TypeOK
  <1>4. RowsGood
    BY <1>1 DEF Init, RowsGood, RowGood
  <1>5. WorkersGood
    BY Idle DEF Init, WorkersGood
  <1>6. HeldGood /\ OneSender
    BY Idle DEF Init, HeldGood, OneSender, Holds
  <1>7. ActiveWithinLimit
    <2>1. \A o \in Scopes : ActiveIn(o) = {}
      BY DEF Init, ActiveIn
    <2>2. Cardinality({}) = 0
      BY FS_EmptySet
    <2> QED BY <2>1, <2>2, Numbers DEF ActiveWithinLimit
  <1> QED BY <1>3, <1>4, <1>5, <1>6, <1>7 DEF IInv

LEMMA Step == IInv /\ [Next]_vars => Kept
  <1> SUFFICES ASSUME IInv, [Next]_vars PROVE Kept
    OBVIOUS
  <1>1. CASE EndpointStep
    BY <1>1, CreateWebhookEndpointStep, SetWebhookEndpointStatusStep, DeleteWebhookEndpointStep,
       DeleteOwnerStep
    DEF EndpointStep
  <1>2. CASE QueueStep
    <2>1. ASSUME NEW o \in Scopes, NEW E \in SUBSET Reached(o), FanOut(o, E) PROVE Kept
      BY <2>1, FanOutStep
    <2> QED BY <1>2, <2>1, CreateWebhookDeliveryStep, BackoffPassesStep, RetryDeliveryStep,
               RecoverStaleStep
            DEF QueueStep
  <1>3. ASSUME NEW w \in Workers, Work(w) \/ Crash(w) PROVE Kept
    BY <1>3, ListPendingStep, ClaimWebhookDeliveryStep, ReadEndpointStep, SendStep,
       UpdateWebhookDeliveryStep, CrashStep
    DEF Work
  <1>4. CASE UNCHANGED vars
    BY <1>4, NobodyActivated, EndpointOnly DEF vars, IInv, TypeOK
  <1> QED BY <1>1, <1>2, <1>3, <1>4 DEF Next

(* The invariant of endpoints, deliveries and what processors remember of  *)
(* them holds in every reachable state.                                    *)
THEOREM Invariance == Spec => []IInv
  <1>1. IInv /\ [Next]_vars => IInv'
    BY Step DEF Kept
  <1> QED BY InvInit, <1>1, PTL DEF Spec

-----------------------------------------------------------------------------

(* Endpoints, deliveries and the memory of processors have the shapes that *)
(* webhooks.ts and its processor give them; attempts never exceed the      *)
(* maximum, whichever copy of the count is written back.                   *)
THEOREM TypeCorrect == Spec => []TypeOK
  <1>1. IInv => TypeOK
    BY DEF IInv
  <1> QED BY Invariance, <1>1, PTL

(* assertCanActivateWebhookEndpoint keeps every scope at or below the      *)
(* number of active endpoints above which the fan-out would throw.         *)
THEOREM WithinLimit == Spec => []ActiveWithinLimit
  <1>1. IInv => ActiveWithinLimit
    BY DEF IInv
  <1> QED BY Invariance, <1>1, PTL

(* claimWebhookDelivery lets one processor work on a row, unless the row   *)
(* was put back while somebody held it.                                    *)
THEOREM Exclusive == Spec => []OneSender
  <1>1. IInv => OneSender
    BY DEF IInv
  <1> QED BY Invariance, <1>1, PTL

(* A delivery fails for want of attempts only after as many requests.      *)
THEOREM EveryAttemptMade == Spec => []NotGivenUpEarly
  <1>1. IInv => NotGivenUpEarly
    BY DEF IInv, RowsGood, RowGood, NotGivenUpEarly
  <1> QED BY Invariance, <1>1, PTL

(* What was delivered stays delivered, unless a user sends it again.       *)
THEOREM NotSentAgain == Spec => DeliveredStays
  <1>1. IInv /\ [Next]_vars =>
          [\A d \in Ids \ shared' :
             rows[d].status = "delivered" =>
                \/ rows'[d].status \in {"delivered", "deleted"}
                \/ retries' = retries + 1]_vars
    BY Step DEF Kept, DeliveredKept
  <1> QED BY Invariance, <1>1, PTL DEF Spec, DeliveredStays
=============================================================================
