---------------------------- MODULE CollectiveSync ----------------------------
(* A device records facts and reviews of facts in its store, each with an       *)
(* outbox row. device-sync uploads the due rows as batch objects to a bucket,   *)
(* the collector ingests the objects into the service and answers with ack      *)
(* objects, and a later device-sync reads the acks and settles the rows. Both    *)
(* run as agents and by hand, so several may be active, and any may die between *)
(* two of its writes.                                                           *)
EXTENDS Naturals, FiniteSets, Sequences

CONSTANTS
    Events, Reviews,   \* outbox items of kind EVENT and REVIEW
    Cites,             \* the event each review is about
    Uploaders,         \* device-sync processes of the line
    Collectors,        \* run-cycle and collect processes
    BatchSize,         \* rows claimed at a time
    MaxFaults          \* bound on lost requests, deferred batches and deaths

Items == Events \cup Reviews

ASSUME SyncAssumption ==
    /\ Events \cap Reviews = {}
    /\ Cites \in [Reviews -> Events]
    /\ BatchSize \in Nat \ {0}
    /\ MaxFaults \in Nat

VARIABLES
    queue,     \* the outbox rows in the order of their ids
    outbox,    \* the state of each item's row
    waiting,   \* rows in backoff
    inbox,     \* batch objects under inbox/
    acked,     \* batches with an object under acks/
    stored,    \* the items an ack reports as CREATED or DUPLICATE
    service,   \* items persisted by the service
    up,        \* each device-sync process
    col,       \* each collector
    faults

device == <<queue, outbox, waiting>>
bucket == <<inbox, acked, stored>>
vars   == <<device, bucket, service, up, col, faults>>

-------------------------------------------------------------------------------
Cited(i) == IF i \in Reviews THEN {Cites[i]} ELSE {}

(* A batch has one kind and is identified by its items.                        *)
Batches == ((SUBSET Events) \cup (SUBSET Reviews)) \ {{}}

InState(s) == {i \in Items : outbox[i] = s}
Recorded   == Items \ InState("ABSENT")
Settled    == InState("DELIVERED") \cup InState("QUARANTINED")
Due        == InState("PENDING") \ waiting

(* The oldest rows of S, at most BatchSize.                                    *)
Oldest(S) ==
    {queue[n] : n \in {m \in DOMAIN queue :
        queue[m] \in S /\ Cardinality({k \in 1 .. m : queue[k] \in S}) <= BatchSize}}

(* Mutant of NextKind: one request for all kinds.                               *)
AllKinds(S) == S

(* The facts of a claim are sent before the revisions that cite them.           *)
NextKind(S) == IF S \cap Events # {} THEN S \cap Events ELSE S

(* Mutant of FirstListed: the objects are taken in no order.                    *)
AnyListed(b, S) == b \in S

(* The inbox is listed by key, the event objects of the device first.           *)
FirstListed(b, S) == b \in S /\ (b \subseteq Events \/ \A c \in S : c \subseteq Reviews)

(* Mutants of Accepted: a revision is taken as it comes; a DUPLICATE is refused. *)
AcceptedAnyway(i) == TRUE
AcceptedOnce(i)   == Cited(i) \subseteq service /\ i \notin service

(* ingest_events, ingest_reviews: CREATED or DUPLICATE, not EVENT_NOT_FOUND.     *)
Accepted(i) == Cited(i) \subseteq service

Sending(b, rest) ==
    [at |-> "ack", left |-> rest, batch |-> b, good |-> {}, bad |-> {}, lost |-> FALSE]
NoUpload  == [at |-> "idle", left |-> {}, batch |-> {}, good |-> {}, bad |-> {}, lost |-> FALSE]
NoCollect == [at |-> "idle", todo |-> {}, batch |-> {}, good |-> {}]

Init ==
    /\ queue = <<>> /\ waiting = {}
    /\ outbox = [i \in Items |-> "ABSENT"]
    /\ inbox = {} /\ acked = {} /\ stored = [b \in Batches |-> {}]
    /\ service = {}
    /\ up = [u \in Uploaders |-> NoUpload]
    /\ col = [c \in Collectors |-> NoCollect]
    /\ faults = 0

Fault == faults < MaxFaults /\ faults' = faults + 1

-------------------------------------------------------------------------------
(* The store of the device                                                     *)

(* record_observation, record_review: the fact and its outbox row, in one       *)
(* transaction; a review needs its event.                                       *)
Record(i) ==
    /\ i \notin Recorded
    /\ Cited(i) \subseteq Recorded
    /\ queue' = Append(queue, i)
    /\ outbox' = [outbox EXCEPT ![i] = "PENDING"]
    /\ UNCHANGED <<waiting, bucket, service, up, col, faults>>

(* The backoff of a row is over.                                                *)
Elapse(i) ==
    /\ i \in waiting
    /\ waiting' = waiting \ {i}
    /\ UNCHANGED <<queue, outbox, bucket, service, up, col, faults>>

-------------------------------------------------------------------------------
(* device-sync                                                                 *)

(* claim_due, and the first kind of what it returned. It changes no row.        *)
Claim(u) ==
    LET due == Oldest(Due)
    IN  /\ up[u].at = "idle"
        /\ due # {}
        /\ up' = [up EXCEPT ![u] = Sending(NextKind(due), due \ NextKind(due))]
        /\ UNCHANGED <<device, bucket, service, col, faults>>

(* _upload_batch: an ack of exactly these items settles them.                   *)
ReadAck(u) ==
    LET b == up[u].batch
    IN  /\ up[u].at = "ack"
        /\ up' = [up EXCEPT ![u] =
             IF b \in acked THEN [@ EXCEPT !.at = "mark", !.good = stored[b], !.bad = b \ stored[b]]
             ELSE [@ EXCEPT !.at = "put"]]
        /\ UNCHANGED <<device, bucket, service, col, faults>>

(* Mutant of PutBatch: an accepted upload counts as delivered.                  *)
PutIsDelivery(u) ==
    /\ up[u].at = "put"
    /\ inbox' = inbox \cup {up[u].batch}
    /\ up' = [up EXCEPT ![u].at = "mark", ![u].good = up[u].batch]
    /\ UNCHANGED <<device, acked, stored, service, col, faults>>

(* The object is put unless it is there; its items are IN_FLIGHT.               *)
PutBatch(u) ==
    /\ up[u].at = "put"
    /\ inbox' = inbox \cup {up[u].batch}
    /\ up' = [up EXCEPT ![u].at = "mark"]
    /\ UNCHANGED <<device, acked, stored, service, col, faults>>

(* TransportError: a put may have taken effect.                                 *)
RequestLost(u) ==
    /\ up[u].at \in {"ack", "put"}
    /\ Fault
    /\ \/ UNCHANGED inbox
       \/ up[u].at = "put" /\ inbox' = inbox \cup {up[u].batch}
    /\ up' = [up EXCEPT ![u].at = "mark", ![u].lost = TRUE]
    /\ UNCHANGED <<device, acked, stored, service, col>>

(* A CONFLICT or REJECTED item is quarantined, whatever state its row is in.     *)
Quarantine(u) ==
    /\ up[u].at = "mark"
    /\ \E i \in up[u].bad :
         /\ outbox' = [outbox EXCEPT ![i] = "QUARANTINED"]
         /\ up' = [up EXCEPT ![u].bad = @ \ {i}, ![u].batch = @ \ {i}]
    /\ UNCHANGED <<queue, waiting, bucket, service, col, faults>>

(* mark_delivered, of the rows still pending.                                   *)
MarkDelivered(u) ==
    /\ up[u].at = "mark" /\ up[u].bad = {} /\ up[u].good # {}
    /\ outbox' = [i \in Items |-> IF i \in up[u].good /\ outbox[i] = "PENDING"
                                  THEN "DELIVERED" ELSE outbox[i]]
    /\ up' = [up EXCEPT ![u].good = {}, ![u].batch = @ \ up[u].good]
    /\ UNCHANGED <<queue, waiting, bucket, service, col, faults>>

(* mark_retry: with a backoff after an error, at once when in flight; then the   *)
(* revisions of the claim are sent, whatever became of its facts.               *)
MarkRetry(u) ==
    LET rest == up[u].batch \cap InState("PENDING")
        more == up[u].left
    IN  /\ up[u].at = "mark" /\ up[u].bad = {} /\ up[u].good = {}
        /\ waiting' = IF up[u].lost THEN waiting \cup rest ELSE waiting \ rest
        /\ up' = [up EXCEPT ![u] = IF more = {} THEN NoUpload ELSE Sending(more, {})]
        /\ UNCHANGED <<queue, outbox, bucket, service, col, faults>>

KillUpload(u) ==
    /\ up[u].at # "idle"
    /\ Fault
    /\ up' = [up EXCEPT ![u] = NoUpload]
    /\ UNCHANGED <<device, bucket, service, col>>

Upload(u) ==
    \/ Claim(u) \/ ReadAck(u) \/ PutBatch(u)
    \/ Quarantine(u) \/ MarkDelivered(u) \/ MarkRetry(u)

-------------------------------------------------------------------------------
(* The collector                                                               *)

(* On to the listed objects that remain; the cycle ends with the last.          *)
Resume(todo) == IF todo = {} THEN NoCollect ELSE [NoCollect EXCEPT !.at = "next", !.todo = todo]

List(c) ==
    /\ col[c].at = "idle"
    /\ inbox # {}
    /\ col' = [col EXCEPT ![c] = Resume(inbox)]
    /\ UNCHANGED <<device, bucket, service, up, faults>>

(* The next listed object is taken off the list.                                *)
TakeListed(c, b) == col[c].at = "next" /\ FirstListed(b, col[c].todo)

(* get_bytes.                                                                   *)
Fetch(c, b) ==
    /\ TakeListed(c, b) /\ b \in inbox
    /\ col' = [col EXCEPT ![c] = [at |-> "read", todo |-> @.todo \ {b}, batch |-> b, good |-> {}]]
    /\ UNCHANGED <<device, bucket, service, up, faults>>

(* The service commits the batch, item by item accepted or refused. Items are   *)
(* well formed: what is refused for its data, alone or as a whole object, never *)
(* comes in.                                                                    *)
Ingest(c) ==
    LET taken == {i \in col[c].batch : Accepted(i)}
    IN  /\ col[c].at = "read"
        /\ service' = service \cup taken
        /\ col' = [col EXCEPT ![c].at = "ack", ![c].good = taken]
        /\ UNCHANGED <<device, bucket, up, faults>>

(* A read or database error, or a device not registered yet: the object stays.   *)
Defer(c) ==
    /\ col[c].at = "read"
    /\ Fault
    /\ col' = [col EXCEPT ![c] = Resume(@.todo)]
    /\ UNCHANGED <<device, bucket, service, up>>

(* Another collector has moved it.                                              *)
Skip(c, b) ==
    /\ TakeListed(c, b) /\ b \notin inbox
    /\ col' = [col EXCEPT ![c] = Resume(@.todo \ {b})]
    /\ UNCHANGED <<device, bucket, service, up, faults>>

PutAck(c) ==
    /\ col[c].at = "ack"
    /\ acked' = acked \cup {col[c].batch}
    /\ stored' = [stored EXCEPT ![col[c].batch] = col[c].good]
    /\ col' = [col EXCEPT ![c].at = "move"]
    /\ UNCHANGED <<device, inbox, service, up, faults>>

(* To processed/, by a copy and a delete: where another collector was first the  *)
(* cycle ends in an error, or goes on when it had its copy before the delete.    *)
Move(c) ==
    /\ col[c].at = "move"
    /\ inbox' = inbox \ {col[c].batch}
    /\ \/ col' = [col EXCEPT ![c] = Resume(@.todo)]
       \/ /\ col[c].batch \notin inbox
          /\ col' = [col EXCEPT ![c] = NoCollect]
    /\ UNCHANGED <<device, acked, stored, service, up, faults>>

KillCollect(c) ==
    /\ col[c].at # "idle"
    /\ Fault
    /\ col' = [col EXCEPT ![c] = NoCollect]
    /\ UNCHANGED <<device, bucket, service, up>>

Collect(c) ==
    \/ List(c) \/ Ingest(c) \/ PutAck(c) \/ Move(c)
    \/ \E b \in Batches : Fetch(c, b) \/ Skip(c, b)

-------------------------------------------------------------------------------
SyncNext ==
    \/ \E i \in Items : Record(i) \/ Elapse(i)
    \/ \E u \in Uploaders : Upload(u) \/ RequestLost(u) \/ KillUpload(u)
    \/ \E c \in Collectors : Collect(c) \/ Defer(c) \/ KillCollect(c)

(* The agents start every few minutes and a backoff is capped; recording, faults *)
(* and deaths owe nothing.                                                      *)
SyncFairness ==
    /\ \A u \in Uploaders : WF_vars(Upload(u))
    /\ \A c \in Collectors : WF_vars(Collect(c))
    /\ \A i \in Items : WF_vars(Elapse(i))

SyncSpec == Init /\ [][SyncNext]_vars /\ SyncFairness

-------------------------------------------------------------------------------
(* Properties                                                                  *)

SyncTypeOK ==
    /\ queue \in Seq(Items)
    /\ outbox \in [Items -> {"ABSENT", "PENDING", "DELIVERED", "QUARANTINED"}]
    /\ waiting \subseteq Items
    /\ inbox \subseteq Batches /\ acked \subseteq Batches
    /\ stored \in [Batches -> SUBSET Items]
    /\ service \subseteq Items
    /\ up \in [Uploaders -> [at : {"idle", "ack", "put", "mark"}, left : SUBSET Reviews,
                             batch : Batches \cup {{}}, good : SUBSET Items, bad : SUBSET Items,
                             lost : BOOLEAN]]
    /\ col \in [Collectors -> [at : {"idle", "next", "read", "ack", "move"}, todo : SUBSET Batches,
                               batch : Batches \cup {{}}, good : SUBSET Items]]
    /\ faults \in 0 .. MaxFaults

(* A row is marked DELIVERED only when the service holds the item, however acks, *)
(* uploads put again, collectors and deaths interleave (device_store.py:18, "An  *)
(* item is marked DELIVERED only after the service returned a per-item persisted *)
(* acknowledgement").                                                           *)
DeliveredIsPersisted == InState("DELIVERED") \subseteq service

(* The outbox implements ReliableTransfer: nothing reaches the service that was  *)
(* not recorded or before the fact it cites, no well-formed fact is given up,    *)
(* and no row goes back to pending once it is settled.                           *)
Transfer == INSTANCE ReliableTransfer WITH
    recorded <- Recorded, persisted <- service,
    delivered <- InState("DELIVERED"), settled <- Settled
TransfersReliably == Transfer!TransferSpec

(* Every recorded fact is delivered in the end: lost requests, deferred batches,  *)
(* duplicates and batches that change from one upload to the next only delay it.  *)
FactsDelivered == \A e \in Events : outbox[e] = "PENDING" ~> outbox[e] = "DELIVERED"

(* Without a fault nothing is lost: however the uploads, the lists and the moves *)
(* of the collectors interleave, no revision reaches the service before the fact *)
(* it cites and is refused for good (sync_client.py:113, "a review uploaded ahead *)
(* of its event is rejected with EVENT_NOT_FOUND, so kinds go in ROUTE_BY_KIND's  *)
(* dependency order").                                                          *)
RefusedOnlyAfterFault == faults = 0 => InState("QUARANTINED") = {}
===============================================================================
