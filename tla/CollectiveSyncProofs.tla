-------------------------- MODULE CollectiveSyncProofs --------------------------
(***************************************************************************)
(* Theorems of CollectiveSync, for any facts and revisions, any number of  *)
(* uploading and collecting processes, any size of a claim and any bound   *)
(* on faults and deaths.                                                   *)
(***************************************************************************)
EXTENDS CollectiveSync, FiniteSetTheorems, TLAPS

\* Every recorded item has a row, and the row of a fact is older than those of its
\* revisions.
QueueInv ==
    /\ \A i \in Recorded : \E n \in DOMAIN queue : queue[n] = i
    /\ \A n \in DOMAIN queue :
         queue[n] \in Recorded /\ \A e \in Cited(queue[n]) : \E m \in 1 .. n : queue[m] = e

\* What is under way was recorded.
KnownInv ==
    /\ \A b \in inbox : b \subseteq Recorded
    /\ \A u \in Uploaders : up[u].batch \subseteq Recorded /\ up[u].left \subseteq Recorded
    /\ \A c \in Collectors : col[c].batch \subseteq Recorded /\ \A b \in col[c].todo : b \subseteq Recorded

\* A device-sync confirms what the service has and gives up revisions only.
UploadInv == \A u \in Uploaders :
    /\ up[u].good \subseteq service
    /\ up[u].bad \subseteq Reviews \cap Recorded
    /\ up[u].at \in {"ack", "put"} => up[u].batch # {}

\* An ack reports what the service has, and every fact of its batch.
AckInv == \A b \in acked : stored[b] \subseteq service /\ b \cap Events \subseteq stored[b]

\* The same of a collector that is about to write the ack; a listed object that has
\* left the inbox was ingested.
CollectInv == \A c \in Collectors :
    /\ col[c].at \in {"read", "ack", "move"} => col[c].batch # {}
    /\ col[c].at \in {"ack", "move"} =>
         col[c].good \subseteq service /\ col[c].batch \cap Events \subseteq col[c].good
    /\ \A b \in col[c].todo \ inbox : b \cap Events \subseteq service

\* The service has the item, or an object that carries it waits in the inbox.
OnItsWay(e) == e \in service \/ \E b \in inbox : e \in b

\* As long as nothing has failed, everything sent is taken and a revision follows
\* the fact it cites, from the claim to the service.
Untroubled ==
    waiting = {} /\ InState("QUARANTINED") = {} /\ \A b \in acked : stored[b] = b

UploadsInOrder == \A u \in Uploaders :
    /\ ~up[u].lost /\ up[u].bad = {}
    /\ up[u].at \in {"ack", "put"} => \A r \in up[u].batch \cap Reviews : OnItsWay(Cites[r])
    /\ \A r \in up[u].left :
         OnItsWay(Cites[r]) \/ (up[u].at \in {"ack", "put"} /\ Cites[r] \in up[u].batch)

InboxInOrder == \A b \in inbox : \A r \in b \cap Reviews : OnItsWay(Cites[r])

CollectsInOrder == \A c \in Collectors :
    /\ col[c].at \in {"ack", "move"} => col[c].good = col[c].batch
    /\ col[c].at = "read" => \A r \in col[c].batch \cap Reviews : Cites[r] \in service
    /\ \A b \in col[c].todo : \A r \in b \cap Reviews :
         \/ Cites[r] \in service
         \/ \E d \in col[c].todo : Cites[r] \in d
         \/ col[c].at = "read" /\ Cites[r] \in col[c].batch

InOrderInv == faults = 0 => Untroubled /\ UploadsInOrder /\ InboxInOrder /\ CollectsInOrder

IInv ==
    /\ SyncTypeOK /\ QueueInv /\ KnownInv /\ UploadInv /\ AckInv /\ CollectInv
    /\ DeliveredIsPersisted /\ InState("QUARANTINED") \subseteq Reviews
    /\ InOrderInv

Uploads == [at : {"idle", "ack", "put", "mark"}, left : SUBSET Reviews, batch : Batches \cup {{}},
            good : SUBSET Items, bad : SUBSET Items, lost : BOOLEAN]
Collections == [at : {"idle", "next", "read", "ack", "move"}, todo : SUBSET Batches,
                batch : Batches \cup {{}}, good : SUBSET Items]

USE SyncAssumption

-----------------------------------------------------------------------------
(* What each step does to the process that takes it                          *)

LEMMA ProcessTypes ==
  ASSUME SyncTypeOK
  PROVE  /\ \A u \in Uploaders :
              /\ up[u] \in Uploads /\ up[u].at \in {"idle", "ack", "put", "mark"}
              /\ up[u].left \subseteq Reviews /\ up[u].batch \in Batches \cup {{}}
              /\ up[u].good \subseteq Items /\ up[u].bad \subseteq Items /\ up[u].lost \in BOOLEAN
         /\ \A c \in Collectors :
              /\ col[c] \in Collections /\ col[c].at \in {"idle", "next", "read", "ack", "move"}
              /\ col[c].todo \subseteq Batches /\ col[c].batch \in Batches \cup {{}}
              /\ col[c].good \subseteq Items
<1>1. \A u \in Uploaders : up[u] \in Uploads
  BY DEF SyncTypeOK, Uploads
<1>2. \A c \in Collectors : col[c] \in Collections
  BY DEF SyncTypeOK, Collections
<1>3. QED
  BY <1>1, <1>2 DEF Uploads, Collections

\* A batch is not empty and of one kind; so is what is left of it.
LEMMA BatchKinds ==
  /\ \A b \in Batches : b # {} /\ b \subseteq Items /\ (b \subseteq Events \/ b \subseteq Reviews)
  /\ \A b : b \subseteq Events \/ b \subseteq Reviews => b \in Batches \cup {{}}
  /\ \A b \in Batches \cup {{}} : \A S : b \ S \in Batches \cup {{}}
<1>1. \A b \in Batches : b # {} /\ (b \subseteq Events \/ b \subseteq Reviews)
  BY DEF Batches
<1>2. \A b \in Batches : b \subseteq Items
  BY <1>1 DEF Items
<1>3. \A b : b \subseteq Events \/ b \subseteq Reviews => b \in Batches \cup {{}}
  BY DEF Batches
<1>4. ASSUME NEW b \in Batches \cup {{}}, NEW S PROVE b \ S \in Batches \cup {{}}
  <2>1. b \subseteq Events \/ b \subseteq Reviews
    BY <1>1
  <2>2. b \ S \subseteq Events \/ b \ S \subseteq Reviews
    BY <2>1
  <2>3. QED
    BY <2>2, <1>3
<1>5. QED
  BY <1>1, <1>2, <1>3, <1>4

LEMMA ClaimEffect ==
  ASSUME SyncTypeOK, NEW u \in Uploaders, Claim(u)
  PROVE  /\ up[u].at = "idle" /\ \A v \in Uploaders \ {u} : up'[v] = up[v]
         /\ up' \in [Uploaders -> Uploads]
         /\ up'[u].at = "ack" /\ up'[u].good = {} /\ up'[u].bad = {} /\ up'[u].lost = FALSE
         /\ up'[u].batch = NextKind(Oldest(Due)) /\ up'[u].batch # {}
         /\ up'[u].left = Oldest(Due) \ NextKind(Oldest(Due))
<1> DEFINE due == Oldest(Due)
           new == Sending(NextKind(due), due \ NextKind(due))
<1>1. up' = [up EXCEPT ![u] = new] /\ up[u].at = "idle" /\ due # {}
  BY DEF Claim
<1>2. due \subseteq Items
  BY DEF Oldest, Due, InState, Items
<1>3. NextKind(due) # {} /\ NextKind(due) \in Batches /\ due \ NextKind(due) \subseteq Reviews
  <2>1. CASE due \cap Events # {}
    BY <2>1, <1>2, BatchKinds DEF NextKind, Items
  <2>2. CASE due \cap Events = {}
    BY <2>2, <1>1, <1>2, BatchKinds DEF NextKind, Items
  <2>3. QED
    BY <2>1, <2>2
<1>4. new \in Uploads
  BY <1>3 DEF Sending, Uploads
<1>5. up \in [Uploaders -> Uploads]
  BY DEF SyncTypeOK, Uploads
<1>6. up' \in [Uploaders -> Uploads] /\ up'[u] = new /\ \A v \in Uploaders \ {u} : up'[v] = up[v]
  BY <1>1, <1>4, <1>5
<1>7. QED
  BY <1>1, <1>3, <1>6 DEF Sending

LEMMA ReadAckEffect ==
  ASSUME SyncTypeOK, NEW u \in Uploaders, ReadAck(u)
  PROVE  /\ up[u].at = "ack" /\ \A v \in Uploaders \ {u} : up'[v] = up[v]
         /\ up' \in [Uploaders -> Uploads]
         /\ up'[u].left = up[u].left /\ up'[u].batch = up[u].batch /\ up'[u].lost = up[u].lost
         /\ up[u].batch \in acked => /\ up'[u].at = "mark"
                                     /\ up'[u].good = stored[up[u].batch]
                                     /\ up'[u].bad = up[u].batch \ stored[up[u].batch]
         /\ up[u].batch \notin acked => /\ up'[u].at = "put" /\ up'[u].good = up[u].good
                                        /\ up'[u].bad = up[u].bad
<1>1. up' \in [Uploaders -> Uploads]
  <2>1. up[u].batch \in acked => stored[up[u].batch] \subseteq Items
    BY DEF SyncTypeOK
  <2>2. up[u].batch \ stored[up[u].batch] \subseteq Items
    BY ProcessTypes, BatchKinds
  <2>3. up \in [Uploaders -> Uploads]
    BY DEF SyncTypeOK, Uploads
  <2>4. CASE up[u].batch \in acked
    <3> DEFINE r == [up[u] EXCEPT !.at = "mark", !.good = stored[up[u].batch],
                                  !.bad = up[u].batch \ stored[up[u].batch]]
    <3>1. r \in Uploads
      BY <2>1, <2>2, <2>3, <2>4 DEF Uploads
    <3>2. up' = [up EXCEPT ![u] = r]
      BY <2>4 DEF ReadAck
    <3> HIDE DEF r
    <3>3. QED
      BY <2>3, <3>1, <3>2
  <2>5. CASE up[u].batch \notin acked
    BY <2>3, <2>5 DEF ReadAck, Uploads
  <2>6. QED
    BY <2>4, <2>5
<1>2. up \in [Uploaders -> Uploads]
  BY DEF SyncTypeOK, Uploads
<1>3. /\ up[u].at = "ack"
      /\ \A v \in Uploaders \ {u} : up'[v] = up[v]
      /\ up[u].batch \in acked =>
           up'[u] = [up[u] EXCEPT !.at = "mark", !.good = stored[up[u].batch],
                                  !.bad = up[u].batch \ stored[up[u].batch]]
      /\ up[u].batch \notin acked => up'[u] = [up[u] EXCEPT !.at = "put"]
  BY <1>2 DEF ReadAck
<1>4. CASE up[u].batch \in acked
  BY <1>1, <1>2, <1>3, <1>4 DEF Uploads
<1>5. CASE up[u].batch \notin acked
  BY <1>1, <1>2, <1>3, <1>5 DEF Uploads
<1>6. QED
  BY <1>4, <1>5

LEMMA PutBatchEffect ==
  ASSUME SyncTypeOK, NEW u \in Uploaders, PutBatch(u)
  PROVE  /\ up[u].at = "put" /\ \A v \in Uploaders \ {u} : up'[v] = up[v]
         /\ up' \in [Uploaders -> Uploads] /\ up'[u].at = "mark"
         /\ up'[u].left = up[u].left /\ up'[u].batch = up[u].batch /\ up'[u].lost = up[u].lost
         /\ up'[u].good = up[u].good /\ up'[u].bad = up[u].bad
<1> DEFINE r == [up[u] EXCEPT !.at = "mark"]
<1>1. up \in [Uploaders -> Uploads]
  BY DEF SyncTypeOK, Uploads
<1>2. up[u].at = "put" /\ up' = [up EXCEPT ![u] = r]
  BY DEF PutBatch
<1>3. /\ r \in Uploads /\ r.at = "mark" /\ r.left = up[u].left /\ r.batch = up[u].batch
      /\ r.lost = up[u].lost /\ r.good = up[u].good /\ r.bad = up[u].bad
  BY <1>1 DEF Uploads
<1> HIDE DEF r
<1>4. QED
  BY <1>1, <1>2, <1>3

LEMMA RequestLostEffect ==
  ASSUME SyncTypeOK, NEW u \in Uploaders, RequestLost(u)
  PROVE  /\ up[u].at \in {"ack", "put"} /\ \A v \in Uploaders \ {u} : up'[v] = up[v]
         /\ up' \in [Uploaders -> Uploads] /\ up'[u].at = "mark"
         /\ up'[u].left = up[u].left /\ up'[u].batch = up[u].batch
         /\ up'[u].good = up[u].good /\ up'[u].bad = up[u].bad
         /\ inbox' \in {inbox, inbox \cup {up[u].batch}}
<1>1. up \in [Uploaders -> Uploads]
  BY DEF SyncTypeOK, Uploads
<1>2. /\ up[u].at \in {"ack", "put"} /\ inbox' \in {inbox, inbox \cup {up[u].batch}}
      /\ up' = [up EXCEPT ![u].at = "mark", ![u].lost = TRUE]
  BY DEF RequestLost
<1>3. QED
  BY <1>1, <1>2 DEF Uploads

LEMMA QuarantineEffect ==
  ASSUME SyncTypeOK, NEW u \in Uploaders, Quarantine(u)
  PROVE  \E i \in up[u].bad :
         /\ up[u].at = "mark" /\ \A v \in Uploaders \ {u} : up'[v] = up[v]
         /\ up' \in [Uploaders -> Uploads] /\ up'[u].at = "mark"
         /\ up'[u].left = up[u].left /\ up'[u].lost = up[u].lost /\ up'[u].good = up[u].good
         /\ up'[u].bad = up[u].bad \ {i} /\ up'[u].batch = up[u].batch \ {i}
         /\ outbox' = [outbox EXCEPT ![i] = "QUARANTINED"]
<1>1. PICK i \in up[u].bad :
         /\ outbox' = [outbox EXCEPT ![i] = "QUARANTINED"]
         /\ up' = [up EXCEPT ![u].bad = @ \ {i}, ![u].batch = @ \ {i}]
  BY DEF Quarantine
<1>2. up[u].at = "mark"
  BY DEF Quarantine
<1>3. up[u].batch \ {i} \in Batches \cup {{}} /\ up[u].bad \ {i} \subseteq Items /\ up \in [Uploaders -> Uploads]
  <2>1. up \in [Uploaders -> Uploads]
    BY DEF SyncTypeOK, Uploads
  <2>2. QED
    BY <2>1, ProcessTypes, BatchKinds
<1>4. up' \in [Uploaders -> Uploads]
  <2> DEFINE r == [up[u] EXCEPT !.bad = up[u].bad \ {i}, !.batch = up[u].batch \ {i}]
  <2>1. up[u] \in Uploads
    BY <1>3
  <2>2. r \in Uploads
    BY <2>1, <1>3 DEF Uploads
  <2>3. up' = [up EXCEPT ![u] = r]
    BY <1>1
  <2> HIDE DEF r
  <2>4. QED
    BY <2>2, <2>3, <1>3
<1>5. /\ \A v \in Uploaders \ {u} : up'[v] = up[v]
      /\ up'[u].at = up[u].at /\ up'[u].left = up[u].left /\ up'[u].lost = up[u].lost
      /\ up'[u].good = up[u].good
      /\ up'[u].bad = up[u].bad \ {i} /\ up'[u].batch = up[u].batch \ {i}
  BY <1>1, <1>3 DEF Uploads
<1>6. QED
  BY <1>1, <1>2, <1>4, <1>5

LEMMA MarkDeliveredEffect ==
  ASSUME SyncTypeOK, NEW u \in Uploaders, MarkDelivered(u)
  PROVE  /\ up[u].at = "mark" /\ \A v \in Uploaders \ {u} : up'[v] = up[v]
         /\ up' \in [Uploaders -> Uploads] /\ up'[u].at = "mark"
         /\ up'[u].left = up[u].left /\ up'[u].lost = up[u].lost /\ up'[u].good = {}
         /\ up'[u].bad = up[u].bad /\ up'[u].batch = up[u].batch \ up[u].good
<1> DEFINE r == [up[u] EXCEPT !.good = {}, !.batch = up[u].batch \ up[u].good]
<1>1. up[u].at = "mark" /\ up' = [up EXCEPT ![u] = r]
  BY DEF MarkDelivered
<1>2. up[u].batch \ up[u].good \in Batches \cup {{}} /\ up \in [Uploaders -> Uploads]
  <2>1. up \in [Uploaders -> Uploads]
    BY DEF SyncTypeOK, Uploads
  <2>2. QED
    BY <2>1, ProcessTypes, BatchKinds
<1>3. /\ r \in Uploads /\ r.at = up[u].at /\ r.left = up[u].left /\ r.lost = up[u].lost /\ r.good = {}
      /\ r.bad = up[u].bad /\ r.batch = up[u].batch \ up[u].good
  BY <1>2 DEF Uploads
<1> HIDE DEF r
<1>4. QED
  BY <1>1, <1>2, <1>3 DEF Uploads

LEMMA MarkRetryEffect ==
  ASSUME SyncTypeOK, NEW u \in Uploaders, MarkRetry(u)
  PROVE  /\ up[u].at = "mark" /\ \A v \in Uploaders \ {u} : up'[v] = up[v]
         /\ up' \in [Uploaders -> Uploads] /\ up'[u].at \in {"idle", "ack"}
         /\ up'[u].left = {} /\ up'[u].lost = FALSE /\ up'[u].good = {} /\ up'[u].bad = {}
         /\ up'[u].batch = up[u].left
         /\ up'[u].at = "ack" => up'[u].batch # {}
<1> DEFINE more == up[u].left
           new == IF more = {} THEN NoUpload
                  ELSE Sending(more, {})
<1>1. up' = [up EXCEPT ![u] = new] /\ up[u].at = "mark"
  BY DEF MarkRetry
<1>2. more \in Batches \cup {{}}
  BY ProcessTypes, BatchKinds
<1>3. new \in Uploads
  BY <1>2, BatchKinds DEF Uploads, NoUpload, Sending
<1>4. up \in [Uploaders -> Uploads]
  BY DEF SyncTypeOK, Uploads
<1>5. up' \in [Uploaders -> Uploads] /\ up'[u] = new /\ \A v \in Uploaders \ {u} : up'[v] = up[v]
  BY <1>1, <1>3, <1>4
<1>6. QED
  BY <1>1, <1>5 DEF NoUpload, Sending

LEMMA KillUploadEffect ==
  ASSUME SyncTypeOK, NEW u \in Uploaders, KillUpload(u)
  PROVE  /\ \A v \in Uploaders \ {u} : up'[v] = up[v]
         /\ up' \in [Uploaders -> Uploads] /\ up'[u] = NoUpload
  BY DEF KillUpload, SyncTypeOK, Uploads, NoUpload

LEMMA FetchEffect ==
  ASSUME SyncTypeOK, NEW c \in Collectors, NEW b \in Batches, Fetch(c, b)
  PROVE  /\ col[c].at = "next" /\ FirstListed(b, col[c].todo) /\ b \in inbox
         /\ \A d \in Collectors \ {c} : col'[d] = col[d]
         /\ col' \in [Collectors -> Collections] /\ col'[c].at = "read"
         /\ col'[c].todo = col[c].todo \ {b} /\ col'[c].batch = b /\ col'[c].good = {}
<1>1. col \in [Collectors -> Collections]
  BY DEF SyncTypeOK, Collections
<1>2. QED
  BY <1>1 DEF Fetch, TakeListed, Collections

LEMMA IngestEffect ==
  ASSUME SyncTypeOK, NEW c \in Collectors, Ingest(c)
  PROVE  /\ col[c].at = "read" /\ \A d \in Collectors \ {c} : col'[d] = col[d]
         /\ col' \in [Collectors -> Collections] /\ col'[c].at = "ack"
         /\ col'[c].todo = col[c].todo /\ col'[c].batch = col[c].batch
         /\ col'[c].good = {i \in col[c].batch : Accepted(i)}
         /\ service' = service \cup {i \in col[c].batch : Accepted(i)}
<1> DEFINE taken == {i \in col[c].batch : Accepted(i)}
<1>1. col \in [Collectors -> Collections] /\ taken \subseteq Items
  BY ProcessTypes, BatchKinds DEF SyncTypeOK, Collections
<1>2. /\ col[c].at = "read" /\ col' = [col EXCEPT ![c].at = "ack", ![c].good = taken]
      /\ service' = service \cup taken
  BY DEF Ingest
<1>3. QED
  BY <1>1, <1>2 DEF Collections

\* A collector that has done with an object lists on, or its cycle ends.
LEMMA ResumeType ==
  ASSUME NEW todo \in SUBSET Batches
  PROVE  /\ Resume(todo) \in Collections /\ Resume(todo).at \in {"idle", "next"}
         /\ Resume(todo).todo = todo /\ Resume(todo).batch = {} /\ Resume(todo).good = {}
<1>1. CASE todo = {}
  BY <1>1 DEF Resume, NoCollect, Collections
<1>2. CASE todo # {}
  <2>1. Resume(todo) = [at |-> "next", todo |-> todo, batch |-> {}, good |-> {}]
    BY <1>2 DEF Resume, NoCollect
  <2>2. QED
    BY <2>1 DEF Collections
<1>3. QED
  BY <1>1, <1>2

LEMMA ListEffect ==
  ASSUME SyncTypeOK, NEW c \in Collectors, List(c)
  PROVE  /\ \A d \in Collectors \ {c} : col'[d] = col[d]
         /\ col' \in [Collectors -> Collections] /\ col'[c].at \in {"idle", "next"}
         /\ col'[c].todo = inbox /\ col'[c].batch = {} /\ col'[c].good = {}
<1>1. col \in [Collectors -> Collections] /\ inbox \in SUBSET Batches
  BY DEF SyncTypeOK, Collections
<1>2. col' = [col EXCEPT ![c] = Resume(inbox)]
  BY DEF List
<1>3. Resume(inbox) \in Collections
  BY <1>1, ResumeType
<1>4. /\ col' \in [Collectors -> Collections] /\ col'[c] = Resume(inbox)
      /\ \A d \in Collectors \ {c} : col'[d] = col[d]
  BY <1>1, <1>2, <1>3
<1>5. QED
  BY <1>1, <1>4, ResumeType

LEMMA ResumeEffect ==
  ASSUME SyncTypeOK, NEW c \in Collectors, NEW todo \in SUBSET col[c].todo,
         col' = [col EXCEPT ![c] = Resume(todo)]
  PROVE  /\ \A d \in Collectors \ {c} : col'[d] = col[d]
         /\ col' \in [Collectors -> Collections] /\ col'[c].at \in {"idle", "next"}
         /\ col'[c].todo = todo /\ col'[c].batch = {} /\ col'[c].good = {}
<1>1. col \in [Collectors -> Collections] /\ todo \in SUBSET Batches
  BY ProcessTypes DEF SyncTypeOK, Collections
<1>2. Resume(todo) \in Collections
  BY <1>1, ResumeType
<1>3. /\ \A d \in Collectors \ {c} : col'[d] = col[d]
      /\ col' \in [Collectors -> Collections] /\ col'[c] = Resume(todo)
  BY <1>1, <1>2
<1>4. QED
  BY <1>1, <1>3, ResumeType

LEMMA PutAckEffect ==
  ASSUME SyncTypeOK, NEW c \in Collectors, PutAck(c)
  PROVE  /\ col[c].at = "ack" /\ \A d \in Collectors \ {c} : col'[d] = col[d]
         /\ col' \in [Collectors -> Collections] /\ col'[c].at = "move"
         /\ col'[c].todo = col[c].todo /\ col'[c].batch = col[c].batch /\ col'[c].good = col[c].good
  BY DEF PutAck, SyncTypeOK, Collections

\* Nothing else of a collector's step matters when its process is gone.
LEMMA GoneEffect ==
  ASSUME SyncTypeOK, NEW c \in Collectors, col' = [col EXCEPT ![c] = NoCollect]
  PROVE  /\ \A d \in Collectors \ {c} : col'[d] = col[d]
         /\ col' \in [Collectors -> Collections] /\ col'[c].at = "idle"
         /\ col'[c].todo = {} /\ col'[c].batch = {} /\ col'[c].good = {}
  BY DEF SyncTypeOK, Collections, NoCollect

\* Every step that gives an object up, and every end of a cycle.
LEMMA LeaveEffect ==
  ASSUME SyncTypeOK, NEW c \in Collectors,
         Move(c) \/ Defer(c) \/ KillCollect(c) \/ \E b \in Batches : Skip(c, b)
  PROVE  /\ \A d \in Collectors \ {c} : col'[d] = col[d]
         /\ col' \in [Collectors -> Collections] /\ col'[c].at \in {"idle", "next"}
         /\ col'[c].todo \subseteq col[c].todo /\ col'[c].batch = {} /\ col'[c].good = {}
<1>1. CASE KillCollect(c)
  BY <1>1, GoneEffect DEF KillCollect
<1>2. CASE Defer(c)
  <2>1. col' = [col EXCEPT ![c] = Resume(col[c].todo)]
    BY <1>2 DEF Defer
  <2>2. QED
    BY <2>1, ResumeEffect
<1>3. ASSUME NEW b \in Batches, Skip(c, b)
      PROVE  /\ \A d \in Collectors \ {c} : col'[d] = col[d]
             /\ col' \in [Collectors -> Collections] /\ col'[c].at \in {"idle", "next"}
             /\ col'[c].todo \subseteq col[c].todo /\ col'[c].batch = {} /\ col'[c].good = {}
  <2>1. col' = [col EXCEPT ![c] = Resume(col[c].todo \ {b})]
    BY <1>3 DEF Skip
  <2>2. col[c].todo \ {b} \in SUBSET col[c].todo
    OBVIOUS
  <2>3. QED
    BY <2>1, <2>2, ResumeEffect
<1>4. CASE Move(c)
  <2>1. \/ col' = [col EXCEPT ![c] = NoCollect]
        \/ col' = [col EXCEPT ![c] = Resume(col[c].todo)]
    BY <1>4 DEF Move
  <2>2. QED
    BY <2>1, GoneEffect, ResumeEffect
<1>5. QED
  BY <1>1, <1>2, <1>3, <1>4

-----------------------------------------------------------------------------

LEMMA InitInv == Init => IInv
<1> SUFFICES ASSUME Init PROVE IInv
  OBVIOUS
<1>1. SyncTypeOK
  BY DEF Init, SyncTypeOK, NoUpload, NoCollect
<1>2. Recorded = {} /\ InState("DELIVERED") = {} /\ InState("QUARANTINED") = {} /\ DOMAIN queue = {}
  BY DEF Init, Recorded, InState
<1>3. QueueInv /\ KnownInv /\ UploadInv
  BY <1>2 DEF Init, QueueInv, KnownInv, UploadInv, NoUpload, NoCollect
<1>4. AckInv /\ CollectInv
  BY DEF Init, AckInv, CollectInv, NoCollect
<1>5. InOrderInv
  BY <1>2 DEF Init, InOrderInv, Untroubled, UploadsInOrder, InboxInOrder, CollectsInOrder,
     NoUpload, NoCollect
<1>6. QED
  BY <1>1, <1>2, <1>3, <1>4, <1>5 DEF IInv, DeliveredIsPersisted

\* The steps by the part of the state they write.
LEMMA StepCases ==
  ASSUME [SyncNext]_vars
  PROVE  \/ \E i \in Items : Record(i) \/ Elapse(i)
         \/ \E u \in Uploaders : \/ Claim(u) \/ ReadAck(u) \/ PutBatch(u) \/ RequestLost(u)
                                 \/ Quarantine(u) \/ MarkDelivered(u) \/ MarkRetry(u) \/ KillUpload(u)
         \/ \E c \in Collectors : \/ List(c) \/ Ingest(c) \/ PutAck(c)
                                  \/ \E b \in Batches : Fetch(c, b)
                                  \/ Move(c) \/ Defer(c) \/ KillCollect(c) \/ \E b \in Batches : Skip(c, b)
         \/ UNCHANGED vars
  BY DEF SyncNext, Upload, Collect

LEMMA TypeStep == IInv /\ [SyncNext]_vars => SyncTypeOK'
<1> SUFFICES ASSUME IInv, [SyncNext]_vars PROVE SyncTypeOK'
  OBVIOUS
<1> USE DEF device, bucket
<1>t. SyncTypeOK /\ UploadInv /\ CollectInv
  BY DEF IInv
<1>u. ASSUME up' \in [Uploaders -> Uploads], UNCHANGED <<device, bucket, service, col>>,
             faults' = faults \/ Fault
      PROVE  SyncTypeOK'
  BY <1>u, <1>t DEF SyncTypeOK, Uploads, Fault
<1>c. ASSUME col' \in [Collectors -> Collections], UNCHANGED <<device, bucket, service, up>>,
             faults' = faults \/ Fault
      PROVE  SyncTypeOK'
  BY <1>c, <1>t DEF SyncTypeOK, Collections, Fault
<1>1. ASSUME NEW i \in Items, Record(i) PROVE SyncTypeOK'
  BY <1>1, <1>t DEF Record, SyncTypeOK
<1>2. ASSUME NEW i \in Items, Elapse(i) PROVE SyncTypeOK'
  BY <1>2, <1>t DEF Elapse, SyncTypeOK
<1>3. ASSUME NEW u \in Uploaders, Claim(u) PROVE SyncTypeOK'
  BY <1>3, <1>t, <1>u, ClaimEffect DEF Claim
<1>4. ASSUME NEW u \in Uploaders, ReadAck(u) PROVE SyncTypeOK'
  BY <1>4, <1>t, <1>u, ReadAckEffect DEF ReadAck
<1>5. ASSUME NEW u \in Uploaders, KillUpload(u) PROVE SyncTypeOK'
  BY <1>5, <1>t, <1>u, KillUploadEffect DEF KillUpload
<1>6. ASSUME NEW u \in Uploaders, PutBatch(u) PROVE SyncTypeOK' 
  <2>1. up[u].batch \in Batches
    BY <1>6, <1>t, PutBatchEffect, ProcessTypes DEF UploadInv
  <2>2. QED
    <3>1. inbox' \subseteq Batches /\ UNCHANGED <<device, acked, stored, service, col, faults>>
      BY <1>6, <2>1, <1>t DEF PutBatch, SyncTypeOK
    <3>2. up' \in [Uploaders -> Uploads]
      BY <1>6, <1>t, PutBatchEffect
    <3>3. QED
      BY <3>1, <3>2, <1>t DEF SyncTypeOK, Uploads
<1>7. ASSUME NEW u \in Uploaders, RequestLost(u) PROVE SyncTypeOK'
  <2>1. up[u].batch \in Batches
    BY <1>7, <1>t, RequestLostEffect, ProcessTypes DEF UploadInv
  <2>2. QED
    <3>1. up' \in [Uploaders -> Uploads] /\ inbox' \subseteq Batches
      BY <1>7, <2>1, <1>t, RequestLostEffect DEF SyncTypeOK
    <3>2. faults' \in 0 .. MaxFaults
      BY <1>7, <1>t DEF RequestLost, Fault, SyncTypeOK
    <3>3. QED
      BY <1>7, <3>1, <3>2, <1>t DEF RequestLost, SyncTypeOK, Uploads
<1>8. ASSUME NEW u \in Uploaders, Quarantine(u) PROVE SyncTypeOK'
  <2>1. PICK i \in up[u].bad : outbox' = [outbox EXCEPT ![i] = "QUARANTINED"] /\ up' \in [Uploaders -> Uploads]
    BY <1>8, <1>t, QuarantineEffect
  <2>2. outbox' \in [Items -> {"ABSENT", "PENDING", "DELIVERED", "QUARANTINED"}]
    BY <2>1, <1>t, ProcessTypes DEF SyncTypeOK
  <2>3. QED
    BY <1>8, <1>t, <2>1, <2>2 DEF Quarantine, SyncTypeOK, Uploads
<1>9. ASSUME NEW u \in Uploaders, MarkDelivered(u) PROVE SyncTypeOK'
  BY <1>9, <1>t, MarkDeliveredEffect DEF MarkDelivered, SyncTypeOK, Uploads
<1>10. ASSUME NEW u \in Uploaders, MarkRetry(u) PROVE SyncTypeOK'
  <2>1. waiting' \subseteq Items
    BY <1>10, <1>t DEF MarkRetry, SyncTypeOK, InState
  <2>2. QED
    BY <1>10, <1>t, <2>1, MarkRetryEffect DEF MarkRetry, SyncTypeOK, Uploads
<1>11. ASSUME NEW c \in Collectors, List(c) PROVE SyncTypeOK'
  BY <1>11, <1>t, <1>c, ListEffect DEF List
<1>12. ASSUME NEW c \in Collectors, NEW b \in Batches, Fetch(c, b) PROVE SyncTypeOK'
  BY <1>12, <1>t, <1>c, FetchEffect DEF Fetch
<1>13. ASSUME NEW c \in Collectors, Ingest(c) PROVE SyncTypeOK'
  <2>1. service' \subseteq Items
    BY <1>13, <1>t, IngestEffect, ProcessTypes, BatchKinds DEF SyncTypeOK
  <2>2. QED
    BY <1>13, <1>t, <2>1, IngestEffect DEF Ingest, SyncTypeOK, Collections
<1>14. ASSUME NEW c \in Collectors, KillCollect(c) \/ Defer(c) \/ \E b \in Batches : Skip(c, b) PROVE SyncTypeOK'
  <2>1. UNCHANGED <<device, bucket, service, up>> /\ (faults' = faults \/ Fault)
    BY <1>14, <1>t DEF KillCollect, Defer, Skip
  <2>2. QED
    BY <1>14, <1>t, <2>1, <1>c, LeaveEffect
<1>15. ASSUME NEW c \in Collectors, Move(c) PROVE SyncTypeOK'
  BY <1>15, <1>t, LeaveEffect DEF Move, SyncTypeOK, Collections
<1>16. ASSUME NEW c \in Collectors, PutAck(c) PROVE SyncTypeOK'
  <2>1. col[c].batch \in Batches /\ col[c].good \in SUBSET Items
    BY <1>16, <1>t, ProcessTypes DEF PutAck, CollectInv
  <2>2. acked' \subseteq Batches /\ stored' \in [Batches -> SUBSET Items]
    BY <1>16, <1>t, <2>1 DEF PutAck, SyncTypeOK
  <2>3. QED
    BY <1>16, <1>t, <2>2, PutAckEffect DEF PutAck, SyncTypeOK, Collections
<1>17. CASE UNCHANGED vars
  BY <1>17, <1>t DEF vars, SyncTypeOK
<1>18. QED
  BY <1>1, <1>2, <1>3, <1>4, <1>5, <1>6, <1>7, <1>8, <1>9, <1>10, <1>11, <1>12, <1>13, <1>14, <1>15,
     <1>16, <1>17, StepCases

-----------------------------------------------------------------------------

\* Rows are never removed, and what the service has it keeps.
LEMMA GrowStep ==
  IInv /\ [SyncNext]_vars => Recorded \subseteq Recorded' /\ service \subseteq service'
<1> SUFFICES ASSUME IInv, [SyncNext]_vars PROVE Recorded \subseteq Recorded' /\ service \subseteq service'
  OBVIOUS
<1> USE DEF device, bucket
<1>t. SyncTypeOK
  BY DEF IInv
<1>1. service \subseteq service'
  BY StepCases DEF Record, Elapse, Claim, ReadAck, PutBatch, RequestLost, Quarantine, MarkDelivered,
     MarkRetry, KillUpload, List, Ingest, PutAck, Fetch, Move, Defer, KillCollect, Skip, vars
<1>2. ASSUME outbox' = outbox PROVE Recorded' = Recorded
  BY <1>2 DEF Recorded, InState
<1>3. ASSUME NEW i \in Items, Record(i) PROVE Recorded \subseteq Recorded'
  BY <1>3, <1>t DEF Record, Recorded, InState, SyncTypeOK
<1>4. ASSUME NEW u \in Uploaders, Quarantine(u) PROVE Recorded \subseteq Recorded'
  <2>1. PICK i \in up[u].bad : outbox' = [outbox EXCEPT ![i] = "QUARANTINED"]
    BY <1>4 DEF Quarantine
  <2>2. QED
    BY <2>1, <1>t DEF Recorded, InState, SyncTypeOK
<1>5. ASSUME NEW u \in Uploaders, MarkDelivered(u) PROVE Recorded \subseteq Recorded'
  BY <1>5, <1>t DEF MarkDelivered, Recorded, InState, SyncTypeOK
<1>6. \/ outbox' = outbox
      \/ \E i \in Items : Record(i)
      \/ \E u \in Uploaders : Quarantine(u) \/ MarkDelivered(u)
  BY StepCases DEF Elapse, Claim, ReadAck, PutBatch, RequestLost,
     MarkRetry, KillUpload, List, Ingest, PutAck, Fetch, Move, Defer, KillCollect, Skip, vars
<1>7. QED
  BY <1>1, <1>2, <1>3, <1>4, <1>5, <1>6

LEMMA QueueStep == IInv /\ [SyncNext]_vars => QueueInv'
<1> SUFFICES ASSUME IInv, [SyncNext]_vars PROVE QueueInv'
  OBVIOUS
<1> USE DEF device, bucket
<1>t. SyncTypeOK /\ QueueInv /\ KnownInv /\ UploadInv
  BY DEF IInv
<1>1. ASSUME queue' = queue, Recorded' = Recorded PROVE QueueInv'
  BY <1>1, <1>t DEF QueueInv
<1>2. ASSUME NEW i \in Items, Record(i) PROVE QueueInv'
  <2>1. i \notin Recorded /\ Cited(i) \subseteq Recorded /\ queue' = Append(queue, i) /\ queue \in Seq(Items)
    BY <1>2, <1>t DEF Record, SyncTypeOK
  <2>2. Recorded' = Recorded \cup {i}
    BY <1>2, <1>t DEF Record, Recorded, InState, SyncTypeOK
  <2>3. /\ DOMAIN queue' = 1 .. Len(queue) + 1 /\ DOMAIN queue = 1 .. Len(queue) /\ Len(queue) \in Nat
        /\ queue'[Len(queue) + 1] = i /\ \A n \in DOMAIN queue : queue'[n] = queue[n]
    BY <2>1
  <2>4. \A j \in Recorded' : \E n \in DOMAIN queue' : queue'[n] = j
    BY <2>2, <2>3, <1>t DEF QueueInv
  <2>5. ASSUME NEW n \in DOMAIN queue
        PROVE  queue'[n] \in Recorded' /\ \A e \in Cited(queue'[n]) : \E m \in 1 .. n : queue'[m] = e
    <3>1. queue'[n] = queue[n] /\ \A m \in 1 .. n : queue'[m] = queue[m]
      BY <2>3
    <3>2. QED
      BY <3>1, <2>2, <1>t DEF QueueInv
  <2>6. \A e \in Cited(i) : \E m \in 1 .. Len(queue) + 1 : queue'[m] = e
    BY <2>1, <2>3, <1>t DEF QueueInv
  <2>7. \A n \in DOMAIN queue' : n \in DOMAIN queue \/ n = Len(queue) + 1
    BY <2>3
  <2>8. /\ queue'[Len(queue) + 1] \in Recorded'
        /\ \A e \in Cited(queue'[Len(queue) + 1]) : \E m \in 1 .. Len(queue) + 1 : queue'[m] = e
    BY <2>2, <2>3, <2>6
  <2>9. QED
    BY <2>4, <2>5, <2>7, <2>8 DEF QueueInv
<1>3. ASSUME NEW u \in Uploaders, Quarantine(u) PROVE QueueInv'
  <2>1. PICK i \in up[u].bad : outbox' = [outbox EXCEPT ![i] = "QUARANTINED"]
    BY <1>3 DEF Quarantine
  <2>2. i \in Recorded
    BY <1>t DEF UploadInv
  <2>3. Recorded' = Recorded
    BY <2>1, <2>2, <1>t DEF Recorded, InState, SyncTypeOK
  <2>4. QED
    BY <1>1, <1>3, <2>3 DEF Quarantine
<1>4. ASSUME NEW u \in Uploaders, MarkDelivered(u) PROVE QueueInv'
  <2>1. Recorded' = Recorded
    BY <1>4, <1>t DEF MarkDelivered, Recorded, InState, SyncTypeOK
  <2>2. QED
    BY <1>1, <1>4, <2>1 DEF MarkDelivered
<1>5. \/ outbox' = outbox /\ queue' = queue
      \/ \E i \in Items : Record(i)
      \/ \E u \in Uploaders : Quarantine(u) \/ MarkDelivered(u)
  BY StepCases DEF Elapse, Claim, ReadAck, PutBatch, RequestLost,
     MarkRetry, KillUpload, List, Ingest, PutAck, Fetch, Move, Defer, KillCollect, Skip, vars
<1>6. ASSUME outbox' = outbox PROVE Recorded' = Recorded
  BY <1>6 DEF Recorded, InState
<1>7. QED
  BY <1>1, <1>2, <1>3, <1>4, <1>5, <1>6

\* A claim takes rows that were recorded.
LEMMA ClaimedAreDue ==
    /\ Oldest(Due) \subseteq Due /\ Due \subseteq Recorded
    /\ NextKind(Oldest(Due)) \subseteq Recorded
<1>1. Oldest(Due) \subseteq Due /\ Due \subseteq Recorded
  BY DEF Oldest, Due, Recorded, InState
<1>2. NextKind(Oldest(Due)) \subseteq Oldest(Due)
  BY DEF NextKind
<1>3. QED
  BY <1>1, <1>2

LEMMA KnownStep == IInv /\ [SyncNext]_vars => KnownInv'
<1> SUFFICES ASSUME IInv, [SyncNext]_vars PROVE KnownInv'
  OBVIOUS
<1> USE DEF device, bucket
<1>t. SyncTypeOK /\ KnownInv /\ Recorded \subseteq Recorded'
  BY GrowStep DEF IInv
<1>1. \A b \in inbox' : b \subseteq Recorded'
  <2>1. \/ inbox' \subseteq inbox
        \/ \E u \in Uploaders : inbox' \subseteq inbox \cup {up[u].batch}
    BY StepCases DEF Record, Elapse, Claim, ReadAck, PutBatch, RequestLost, Quarantine, MarkDelivered,
       MarkRetry, KillUpload, List, Ingest, PutAck, Fetch, Move, Defer, KillCollect, Skip, vars
  <2>2. QED
    BY <2>1, <1>t DEF KnownInv
<1>2. ASSUME NEW u \in Uploaders PROVE up'[u].batch \subseteq Recorded' /\ up'[u].left \subseteq Recorded'
  <2>1. ASSUME NEW v \in Uploaders, Claim(v) PROVE up'[u].batch \subseteq Recorded' /\ up'[u].left \subseteq Recorded'
    <3>1. CASE u = v
      <4>1. up'[u].batch = NextKind(Oldest(Due)) /\ up'[u].left \subseteq Oldest(Due)
        BY <2>1, <3>1, <1>t, ClaimEffect
      <4>2. QED
        BY <4>1, <1>t, ClaimedAreDue
    <3>2. CASE u # v
      <4>1. up'[u] = up[u]
        BY <2>1, <3>2, <1>t, ClaimEffect
      <4>2. QED
        BY <4>1, <1>t DEF KnownInv
    <3>3. QED
      BY <3>1, <3>2
  <2>2. ASSUME NEW v \in Uploaders, ReadAck(v) \/ PutBatch(v) \/ RequestLost(v) \/ MarkDelivered(v)
                                       \/ MarkRetry(v)
        PROVE  up'[u].batch \subseteq Recorded' /\ up'[u].left \subseteq Recorded'
    <3>1. \/ up'[u] = up[u]
          \/ up'[u].batch \subseteq up[u].batch /\ up'[u].left = up[u].left
          \/ up'[u].batch = up[u].left /\ up'[u].left = {}
      <4>1. CASE ReadAck(v)
        BY <4>1, <1>t, ReadAckEffect
      <4>2. CASE PutBatch(v)
        BY <4>2, <1>t, PutBatchEffect
      <4>3. CASE RequestLost(v)
        BY <4>3, <1>t, RequestLostEffect
      <4>4. CASE MarkDelivered(v)
        BY <4>4, <1>t, MarkDeliveredEffect
      <4>5. CASE MarkRetry(v)
        BY <4>5, <1>t, MarkRetryEffect
      <4>6. QED
        BY <2>2, <4>1, <4>2, <4>3, <4>4, <4>5
    <3>2. QED
      BY <3>1, <1>t DEF KnownInv
  <2>3. ASSUME NEW v \in Uploaders, Quarantine(v) PROVE up'[u].batch \subseteq Recorded' /\ up'[u].left \subseteq Recorded'
    BY <2>3, <1>t, QuarantineEffect DEF KnownInv
  <2>4. ASSUME NEW v \in Uploaders, KillUpload(v) PROVE up'[u].batch \subseteq Recorded' /\ up'[u].left \subseteq Recorded'
    BY <2>4, <1>t, KillUploadEffect DEF KnownInv, NoUpload
  <2>5. ASSUME up' = up PROVE up'[u].batch \subseteq Recorded' /\ up'[u].left \subseteq Recorded'
    BY <2>5, <1>t DEF KnownInv
  <2>6. \/ up' = up
        \/ \E v \in Uploaders : \/ Claim(v) \/ ReadAck(v) \/ PutBatch(v) \/ RequestLost(v)
                                \/ Quarantine(v) \/ MarkDelivered(v) \/ MarkRetry(v) \/ KillUpload(v)
    BY StepCases DEF Record, Elapse, List, Ingest, PutAck, Fetch, Move, Defer, KillCollect, Skip, vars
  <2>7. QED
    BY <2>1, <2>2, <2>3, <2>4, <2>5, <2>6
<1>3. ASSUME NEW c \in Collectors
      PROVE  col'[c].batch \subseteq Recorded' /\ \A b \in col'[c].todo : b \subseteq Recorded'
  <2>1. ASSUME NEW d \in Collectors, List(d) 
        PROVE  col'[c].batch \subseteq Recorded' /\ \A b \in col'[c].todo : b \subseteq Recorded'
    BY <2>1, <1>t, ListEffect DEF KnownInv
  <2>2. ASSUME NEW d \in Collectors, NEW b \in Batches, Fetch(d, b)
        PROVE  col'[c].batch \subseteq Recorded' /\ \A x \in col'[c].todo : x \subseteq Recorded'
    BY <2>2, <1>t, FetchEffect DEF KnownInv
  <2>3. ASSUME NEW d \in Collectors, Ingest(d) \/ PutAck(d)
        PROVE  col'[c].batch \subseteq Recorded' /\ \A b \in col'[c].todo : b \subseteq Recorded'
    BY <2>3, <1>t, IngestEffect, PutAckEffect DEF KnownInv
  <2>4. ASSUME NEW d \in Collectors, Move(d) \/ Defer(d) \/ KillCollect(d) \/ \E b \in Batches : Skip(d, b)
        PROVE  col'[c].batch \subseteq Recorded' /\ \A b \in col'[c].todo : b \subseteq Recorded'
    BY <2>4, <1>t, LeaveEffect DEF KnownInv
  <2>5. ASSUME col' = col PROVE col'[c].batch \subseteq Recorded' /\ \A b \in col'[c].todo : b \subseteq Recorded'
    BY <2>5, <1>t DEF KnownInv
  <2>6. \/ col' = col
        \/ \E d \in Collectors : \/ List(d) \/ Ingest(d) \/ PutAck(d)
                                 \/ \E b \in Batches : Fetch(d, b)
                                 \/ Move(d) \/ Defer(d) \/ KillCollect(d) \/ \E b \in Batches : Skip(d, b)
    BY StepCases DEF Record, Elapse, Claim, ReadAck, PutBatch, RequestLost, Quarantine, MarkDelivered,
       MarkRetry, KillUpload, vars
  <2>7. QED
    BY <2>1, <2>2, <2>3, <2>4, <2>5, <2>6
<1>4. QED
  BY <1>1, <1>2, <1>3 DEF KnownInv

LEMMA UploadStep == IInv /\ [SyncNext]_vars => UploadInv'
<1> SUFFICES ASSUME IInv, [SyncNext]_vars, NEW u \in Uploaders
             PROVE  /\ up'[u].good \subseteq service' /\ up'[u].bad \subseteq Reviews \cap Recorded'
                    /\ up'[u].at \in {"ack", "put"} => up'[u].batch # {}
  BY DEF UploadInv
<1> DEFINE Goal == /\ up'[u].good \subseteq service' /\ up'[u].bad \subseteq Reviews \cap Recorded'
                   /\ up'[u].at \in {"ack", "put"} => up'[u].batch # {}
<1>t. SyncTypeOK /\ UploadInv /\ KnownInv /\ AckInv /\ Recorded \subseteq Recorded' /\ service \subseteq service'
  BY GrowStep DEF IInv
<1>1. ASSUME up'[u] = up[u] PROVE Goal
  BY <1>1, <1>t DEF UploadInv
<1>2. ASSUME NEW v \in Uploaders, Claim(v) PROVE Goal
  BY <1>1, <1>2, <1>t, ClaimEffect
<1>3. ASSUME NEW v \in Uploaders, ReadAck(v) PROVE Goal
  <2>1. CASE v = u /\ up[u].batch \in acked
    <3>1. up'[u].good = stored[up[u].batch] /\ up'[u].bad = up[u].batch \ stored[up[u].batch] /\ up'[u].at = "mark"
      BY <1>3, <2>1, <1>t, ReadAckEffect
    <3>2. up[u].batch \subseteq Items /\ up[u].batch \subseteq Recorded
      BY <1>t, ProcessTypes, BatchKinds DEF KnownInv
    <3>3. up[u].batch \ stored[up[u].batch] \subseteq Reviews
      BY <2>1, <3>2, <1>t DEF AckInv, Items
    <3>4. QED
      BY <2>1, <3>1, <3>2, <3>3, <1>t DEF AckInv
  <2>2. CASE v = u /\ up[u].batch \notin acked
    BY <1>3, <2>2, <1>t, ReadAckEffect DEF UploadInv
  <2>3. CASE v # u
    BY <1>1, <1>3, <2>3, <1>t, ReadAckEffect
  <2>4. QED
    BY <2>1, <2>2, <2>3
<1>4. ASSUME NEW v \in Uploaders, PutBatch(v) \/ RequestLost(v) PROVE Goal
  <2>1. \/ up'[u] = up[u]
        \/ up'[u].at = "mark" /\ up'[u].good = up[u].good /\ up'[u].bad = up[u].bad
    <3>1. CASE PutBatch(v)
      BY <3>1, <1>t, PutBatchEffect
    <3>2. CASE RequestLost(v)
      BY <3>2, <1>t, RequestLostEffect
    <3>3. QED
      BY <1>4, <3>1, <3>2
  <2>2. QED
    BY <1>1, <2>1, <1>t DEF UploadInv
<1>5. ASSUME NEW v \in Uploaders, Quarantine(v) \/ MarkDelivered(v) PROVE Goal
  <2>1. \/ up'[u] = up[u]
        \/ up'[u].at = "mark" /\ up'[u].good \subseteq up[u].good /\ up'[u].bad \subseteq up[u].bad
    <3>1. CASE Quarantine(v)
      BY <3>1, <1>t, QuarantineEffect
    <3>2. CASE MarkDelivered(v)
      BY <3>2, <1>t, MarkDeliveredEffect
    <3>3. QED
      BY <1>5, <3>1, <3>2
  <2>2. QED
    BY <1>1, <2>1, <1>t DEF UploadInv
<1>6. ASSUME NEW v \in Uploaders, MarkRetry(v) PROVE Goal
  BY <1>1, <1>6, <1>t, MarkRetryEffect
<1>7. ASSUME NEW v \in Uploaders, KillUpload(v) PROVE Goal
  BY <1>1, <1>7, <1>t, KillUploadEffect DEF NoUpload
<1>8. \/ up' = up
      \/ \E v \in Uploaders : \/ Claim(v) \/ ReadAck(v) \/ PutBatch(v) \/ RequestLost(v)
                              \/ Quarantine(v) \/ MarkDelivered(v) \/ MarkRetry(v) \/ KillUpload(v)
  BY StepCases DEF Record, Elapse, List, Ingest, PutAck, Fetch, Move, Defer, KillCollect, Skip, vars
<1>9. QED
  BY <1>1, <1>2, <1>3, <1>4, <1>5, <1>6, <1>7, <1>8

LEMMA AckStep == IInv /\ [SyncNext]_vars => AckInv'
<1> SUFFICES ASSUME IInv, [SyncNext]_vars PROVE AckInv'
  OBVIOUS
<1> USE DEF device, bucket
<1>t. SyncTypeOK /\ AckInv /\ CollectInv /\ service \subseteq service'
  BY GrowStep DEF IInv
<1>1. ASSUME UNCHANGED <<acked, stored>> PROVE AckInv'
  BY <1>1, <1>t DEF AckInv
<1>2. ASSUME NEW c \in Collectors, PutAck(c) PROVE AckInv'
  <2>1. /\ acked' = acked \cup {col[c].batch} /\ col[c].at = "ack"
        /\ stored' = [stored EXCEPT ![col[c].batch] = col[c].good]
    BY <1>2 DEF PutAck
  <2>2. col[c].good \subseteq service /\ col[c].batch \cap Events \subseteq col[c].good
    BY <2>1, <1>t DEF CollectInv
  <2>3. \A b \in acked' : stored'[b] = IF b = col[c].batch THEN col[c].good ELSE stored[b]
    BY <2>1, <1>t DEF SyncTypeOK, CollectInv
  <2>4. QED
    BY <2>1, <2>2, <2>3, <1>t DEF AckInv
<1>3. UNCHANGED <<acked, stored>> \/ \E c \in Collectors : PutAck(c)
  BY StepCases DEF Record, Elapse, Claim, ReadAck, PutBatch, RequestLost, Quarantine, MarkDelivered,
     MarkRetry, KillUpload, List, Ingest, Fetch, Move, Defer, KillCollect, Skip, vars
<1>4. QED
  BY <1>1, <1>2, <1>3

\* A fact is never refused: it cites nothing.
LEMMA FactsAreAccepted == \A e \in Events : Cited(e) = {} /\ Accepted(e)
  BY DEF Cited, Accepted

LEMMA CollectStep == IInv /\ [SyncNext]_vars => CollectInv'
<1> SUFFICES ASSUME IInv, [SyncNext]_vars, NEW c \in Collectors
             PROVE  /\ col'[c].at \in {"read", "ack", "move"} => col'[c].batch # {}
                    /\ col'[c].at \in {"ack", "move"} =>
                         col'[c].good \subseteq service' /\ col'[c].batch \cap Events \subseteq col'[c].good
                    /\ \A b \in col'[c].todo \ inbox' : b \cap Events \subseteq service'
  BY DEF CollectInv
<1> DEFINE Taken == /\ col'[c].at \in {"read", "ack", "move"} => col'[c].batch # {}
                    /\ col'[c].at \in {"ack", "move"} =>
                         col'[c].good \subseteq service' /\ col'[c].batch \cap Events \subseteq col'[c].good
           Listed == \A b \in col'[c].todo \ inbox' : b \cap Events \subseteq service'
<1> USE DEF device, bucket
<1>t. SyncTypeOK /\ CollectInv /\ service \subseteq service'
  BY GrowStep DEF IInv
<1>1. ASSUME inbox \subseteq inbox', col'[c].todo \subseteq col[c].todo PROVE Listed
  BY <1>1, <1>t DEF CollectInv
<1>2. ASSUME col'[c] = col[c] PROVE Taken
  BY <1>2, <1>t DEF CollectInv
<1>3. ASSUME NEW d \in Collectors, List(d) PROVE Taken /\ Listed
  <2>1. CASE d = c
    BY <1>3, <2>1, <1>t, ListEffect DEF List
  <2>2. CASE d # c
    BY <1>1, <1>2, <1>3, <2>2, <1>t, ListEffect DEF List
  <2>3. QED
    BY <2>1, <2>2
<1>4. ASSUME NEW d \in Collectors, NEW b \in Batches, Fetch(d, b) PROVE Taken /\ Listed
  <2>1. inbox' = inbox /\ col'[c].todo \subseteq col[c].todo
    BY <1>4, <1>t, FetchEffect DEF Fetch
  <2>2. Taken
    BY <1>2, <1>4, <1>t, FetchEffect, BatchKinds
  <2>3. QED
    BY <1>1, <2>1, <2>2
<1>5. ASSUME NEW d \in Collectors, Ingest(d) PROVE Taken /\ Listed
  <2>1. inbox' = inbox /\ col'[c].todo \subseteq col[c].todo
    BY <1>5, <1>t, IngestEffect DEF Ingest
  <2>2. CASE d = c
    BY <1>1, <1>5, <2>1, <2>2, <1>t, IngestEffect, FactsAreAccepted DEF CollectInv
  <2>3. CASE d # c
    BY <1>1, <1>2, <1>5, <2>1, <2>3, <1>t, IngestEffect
  <2>4. QED
    BY <2>2, <2>3
<1>6. ASSUME NEW d \in Collectors, PutAck(d) PROVE Taken /\ Listed
  <2>1. inbox' = inbox /\ col'[c].todo \subseteq col[c].todo
    BY <1>6, <1>t, PutAckEffect DEF PutAck
  <2>2. CASE d = c
    BY <1>1, <1>6, <2>1, <2>2, <1>t, PutAckEffect DEF CollectInv
  <2>3. CASE d # c
    BY <1>1, <1>2, <1>6, <2>1, <2>3, <1>t, PutAckEffect
  <2>4. QED
    BY <2>2, <2>3
<1>7. ASSUME NEW d \in Collectors, Move(d) \/ Defer(d) \/ KillCollect(d) \/ \E b \in Batches : Skip(d, b)
      PROVE  Taken /\ Listed
  <2>1. Taken
    BY <1>2, <1>7, <1>t, LeaveEffect
  <2>2. col'[c].todo \subseteq col[c].todo
    BY <1>7, <1>t, LeaveEffect
  <2>3. CASE Move(d)
    <3>1. inbox' = inbox \ {col[d].batch} /\ col[d].at = "move"
      BY <2>3 DEF Move
    <3>2. col[d].batch \cap Events \subseteq service
      BY <3>1, <1>t DEF CollectInv
    <3>3. QED
      BY <2>1, <2>2, <3>1, <3>2, <1>t DEF CollectInv
  <2>4. CASE ~Move(d)
    <3>1. inbox' = inbox
      BY <1>7, <2>4 DEF Defer, KillCollect, Skip
    <3>2. QED
      BY <1>1, <2>1, <2>2, <3>1
  <2>5. QED
    BY <2>3, <2>4
<1>8. ASSUME col' = col, inbox \subseteq inbox' PROVE Taken /\ Listed
  BY <1>1, <1>2, <1>8
<1>9. \/ col' = col /\ inbox \subseteq inbox'
      \/ \E d \in Collectors : \/ List(d) \/ Ingest(d) \/ PutAck(d)
                               \/ \E b \in Batches : Fetch(d, b)
                               \/ Move(d) \/ Defer(d) \/ KillCollect(d) \/ \E b \in Batches : Skip(d, b)
  BY StepCases DEF Record, Elapse, Claim, ReadAck, PutBatch, RequestLost, Quarantine, MarkDelivered,
     MarkRetry, KillUpload, vars
<1>10. QED
  BY <1>3, <1>4, <1>5, <1>6, <1>7, <1>8, <1>9

\* What is settled: only what the service has is delivered, only revisions are given up.
LEMMA SettledStep ==
  IInv /\ [SyncNext]_vars => DeliveredIsPersisted' /\ (InState("QUARANTINED") \subseteq Reviews)'
<1> SUFFICES ASSUME IInv, [SyncNext]_vars
             PROVE  DeliveredIsPersisted' /\ (InState("QUARANTINED") \subseteq Reviews)'
  OBVIOUS
<1> USE DEF device, bucket
<1>t. /\ SyncTypeOK /\ DeliveredIsPersisted /\ InState("QUARANTINED") \subseteq Reviews
      /\ UploadInv /\ service \subseteq service'
  BY GrowStep DEF IInv
<1>1. ASSUME \A i \in Items : outbox'[i] \in {"DELIVERED", "QUARANTINED"} => outbox'[i] = outbox[i]
      PROVE  DeliveredIsPersisted' /\ (InState("QUARANTINED") \subseteq Reviews)'
  BY <1>1, <1>t DEF InState, DeliveredIsPersisted
<1>2. ASSUME NEW i \in Items, Record(i) PROVE DeliveredIsPersisted' /\ (InState("QUARANTINED") \subseteq Reviews)'
  BY <1>1, <1>2, <1>t DEF Record, SyncTypeOK
<1>3. ASSUME NEW u \in Uploaders, Quarantine(u) PROVE DeliveredIsPersisted' /\ (InState("QUARANTINED") \subseteq Reviews)'
  <2>1. PICK i \in up[u].bad : outbox' = [outbox EXCEPT ![i] = "QUARANTINED"]
    BY <1>3 DEF Quarantine
  <2>2. i \in Reviews
    BY <1>t DEF UploadInv
  <2>3. QED
    BY <2>1, <2>2, <1>t DEF InState, DeliveredIsPersisted, SyncTypeOK
<1>4. ASSUME NEW u \in Uploaders, MarkDelivered(u) PROVE DeliveredIsPersisted' /\ (InState("QUARANTINED") \subseteq Reviews)'
  BY <1>4, <1>t DEF MarkDelivered, InState, DeliveredIsPersisted, UploadInv
<1>5. \/ outbox' = outbox
      \/ \E i \in Items : Record(i)
      \/ \E u \in Uploaders : Quarantine(u) \/ MarkDelivered(u)
  BY StepCases DEF Elapse, Claim, ReadAck, PutBatch, RequestLost,
     MarkRetry, KillUpload, List, Ingest, PutAck, Fetch, Move, Defer, KillCollect, Skip, vars
<1>6. QED
  BY <1>1, <1>2, <1>3, <1>4, <1>5

-----------------------------------------------------------------------------
(* The order of facts and revisions while nothing has failed                 *)

LEMMA CitesAnEvent == \A r \in Reviews : Cites[r] \in Events /\ Cited(r) = {Cites[r]}
  BY DEF Cited

\* A step that leaves faults at 0 is none of those that count one.
LEMMA CleanCases ==
  ASSUME SyncTypeOK, [SyncNext]_vars, faults' = 0
  PROVE  /\ faults = 0
         /\ \/ \E i \in Items : Record(i) \/ Elapse(i)
            \/ \E u \in Uploaders : \/ Claim(u) \/ ReadAck(u) \/ PutBatch(u)
                                    \/ Quarantine(u) \/ MarkDelivered(u) \/ MarkRetry(u)
            \/ \E c \in Collectors : \/ List(c) \/ Ingest(c) \/ PutAck(c) \/ Move(c)
                                     \/ \E b \in Batches : Fetch(c, b) \/ Skip(c, b)
            \/ UNCHANGED vars
<1>1. ~Fault
  BY DEF Fault, SyncTypeOK
<1>2. \/ \E i \in Items : Record(i) \/ Elapse(i)
      \/ \E u \in Uploaders : \/ Claim(u) \/ ReadAck(u) \/ PutBatch(u)
                              \/ Quarantine(u) \/ MarkDelivered(u) \/ MarkRetry(u)
      \/ \E c \in Collectors : \/ List(c) \/ Ingest(c) \/ PutAck(c) \/ Move(c)
                               \/ \E b \in Batches : Fetch(c, b) \/ Skip(c, b)
      \/ UNCHANGED vars
  BY <1>1, StepCases DEF RequestLost, KillUpload, Defer, KillCollect
<1>3. faults' = faults
  BY <1>2 DEF Record, Elapse, Claim, ReadAck, PutBatch, Quarantine, MarkDelivered, MarkRetry, List,
     Ingest, PutAck, Move, Fetch, Skip, vars
<1>4. QED
  BY <1>2, <1>3

\* An object that leaves the inbox was ingested: a fact on its way arrives.
LEMMA StaysOnItsWay ==
  ASSUME IInv, [SyncNext]_vars, NEW e \in Events, OnItsWay(e)
  PROVE  OnItsWay(e)'
<1> USE DEF device, bucket
<1>t. SyncTypeOK /\ CollectInv /\ service \subseteq service'
  BY GrowStep DEF IInv
<1>1. CASE inbox \subseteq inbox'
  BY <1>1, <1>t DEF OnItsWay
<1>2. ASSUME NEW c \in Collectors, Move(c) PROVE OnItsWay(e)'
  <2>1. inbox' = inbox \ {col[c].batch} /\ col[c].at = "move"
    BY <1>2 DEF Move
  <2>2. col[c].batch \cap Events \subseteq service
    BY <2>1, <1>t DEF CollectInv
  <2>3. QED
    BY <2>1, <2>2, <1>t DEF OnItsWay
<1>3. inbox \subseteq inbox' \/ \E c \in Collectors : Move(c)
  BY StepCases DEF Record, Elapse, Claim, ReadAck, PutBatch, RequestLost, Quarantine, MarkDelivered,
     MarkRetry, KillUpload, List, Ingest, Fetch, PutAck, Defer, KillCollect, Skip, vars
<1>4. QED
  BY <1>1, <1>2, <1>3

\* The oldest rows of a set, with one row, hold every older row of the set.
LEMMA OldestIsAPrefix ==
  ASSUME SyncTypeOK, NEW S, NEW n \in DOMAIN queue, NEW m \in 1 .. n,
         queue[n] \in S, queue[m] \in S,
         Cardinality({k \in 1 .. n : queue[k] \in S}) <= BatchSize
  PROVE  queue[m] \in Oldest(S)
<1> DEFINE Upto(x) == {k \in 1 .. x : queue[k] \in S}
<1>1. n \in Nat /\ m \in Nat /\ m \in DOMAIN queue /\ m <= n
  BY DEF SyncTypeOK
<1>2. IsFiniteSet(1 .. n) /\ Upto(n) \subseteq 1 .. n /\ Upto(m) \subseteq Upto(n)
  <2>1. IsFiniteSet(1 .. n)
    BY <1>1, FS_Interval
  <2>2. 1 .. m \subseteq 1 .. n
    BY <1>1
  <2>3. QED
    BY <2>1, <2>2
<1>3. IsFiniteSet(Upto(n)) /\ IsFiniteSet(Upto(m)) /\ Cardinality(Upto(m)) <= Cardinality(Upto(n))
  BY <1>2, FS_Subset
<1>4. Cardinality(Upto(m)) \in Nat /\ Cardinality(Upto(n)) \in Nat
  BY <1>3, FS_CardinalityType
<1>5. Cardinality(Upto(m)) <= BatchSize
  BY <1>3, <1>4
<1>6. QED
  BY <1>1, <1>5 DEF Oldest

\* A claim holds the fact of each of its revisions, unless the service has it.
LEMMA ClaimsInOrder ==
  ASSUME IInv, faults = 0, NEW r \in Oldest(Due) \cap Reviews
  PROVE  Cites[r] \in Oldest(Due) \/ Cites[r] \in service
<1>t. SyncTypeOK /\ QueueInv /\ DeliveredIsPersisted /\ Untroubled
  BY DEF IInv, InOrderInv
<1>1. PICK n \in DOMAIN queue : /\ queue[n] = r /\ r \in Due
                                /\ Cardinality({k \in 1 .. n : queue[k] \in Due}) <= BatchSize
  BY DEF Oldest
<1>2. PICK m \in 1 .. n : queue[m] = Cites[r]
  BY <1>1, <1>t, CitesAnEvent DEF QueueInv
<1>3. Cites[r] \in Recorded
  <2>1. m \in DOMAIN queue
    BY <1>1, <1>2, <1>t DEF SyncTypeOK
  <2>2. QED
    BY <1>2, <2>1, <1>t DEF QueueInv
<1>4. outbox[Cites[r]] \in {"PENDING", "DELIVERED"}
  BY <1>3, <1>t DEF Recorded, InState, Untroubled, SyncTypeOK
<1>5. CASE outbox[Cites[r]] = "DELIVERED"
  BY <1>3, <1>5, <1>t DEF DeliveredIsPersisted, InState, Recorded
<1>6. CASE outbox[Cites[r]] = "PENDING"
  <2>1. Cites[r] \in Due
    BY <1>3, <1>6, <1>t DEF Due, InState, Untroubled, Recorded
  <2>2. QED
    BY <2>1, <1>1, <1>2, <1>t, OldestIsAPrefix
<1>7. QED
  BY <1>4, <1>5, <1>6

LEMMA UntroubledStep == IInv /\ [SyncNext]_vars /\ faults' = 0 => Untroubled'
<1> SUFFICES ASSUME IInv, [SyncNext]_vars, faults' = 0 PROVE Untroubled'
  OBVIOUS
<1> USE DEF device, bucket
<1>t. SyncTypeOK /\ Untroubled /\ UploadsInOrder /\ CollectsInOrder /\ CollectInv
  BY CleanCases DEF IInv, InOrderInv
<1>1. ASSUME UNCHANGED <<acked, stored>>, waiting' = {}, InState("QUARANTINED")' = {} PROVE Untroubled'
  BY <1>1, <1>t DEF Untroubled
<1>2. ASSUME outbox' = outbox PROVE InState("QUARANTINED")' = {}
  BY <1>2, <1>t DEF Untroubled, InState
<1>3. ASSUME NEW i \in Items, Record(i) PROVE Untroubled'
  <2>1. InState("QUARANTINED")' = {}
    BY <1>3, <1>t DEF Record, InState, Untroubled, SyncTypeOK
  <2>2. QED
    BY <1>1, <1>3, <2>1, <1>t DEF Record, Untroubled
<1>4. ASSUME NEW i \in Items, Elapse(i) PROVE Untroubled'
  BY <1>4, <1>t DEF Elapse, Untroubled
<1>5. ASSUME NEW u \in Uploaders, Quarantine(u) PROVE FALSE
  BY <1>5, <1>t DEF Quarantine, UploadsInOrder
<1>6. ASSUME NEW u \in Uploaders, MarkDelivered(u) PROVE Untroubled'
  <2>1. InState("QUARANTINED")' = {}
    BY <1>6, <1>t DEF MarkDelivered, InState, Untroubled
  <2>2. QED
    BY <1>1, <1>6, <2>1, <1>t DEF MarkDelivered, Untroubled
<1>7. ASSUME NEW u \in Uploaders, MarkRetry(u) PROVE Untroubled'
  <2>1. waiting' = {} /\ outbox' = outbox /\ UNCHANGED <<acked, stored>>
    BY <1>7, <1>t DEF MarkRetry, UploadsInOrder, Untroubled
  <2>2. QED
    BY <1>1, <1>2, <2>1
<1>8. ASSUME NEW c \in Collectors, PutAck(c) PROVE Untroubled'
  <2>1. /\ acked' = acked \cup {col[c].batch} /\ col[c].at = "ack"
        /\ stored' = [stored EXCEPT ![col[c].batch] = col[c].good] /\ UNCHANGED <<outbox, waiting>>
    BY <1>8 DEF PutAck
  <2>2. col[c].good = col[c].batch /\ col[c].batch \in Batches
    BY <2>1, <1>t, ProcessTypes DEF CollectsInOrder, CollectInv
  <2>3. \A b \in acked' : stored'[b] = b
    BY <2>1, <2>2, <1>t DEF Untroubled, SyncTypeOK
  <2>4. QED
    BY <1>2, <2>1, <2>3, <1>t DEF Untroubled
<1>9. \/ UNCHANGED <<acked, stored, waiting, outbox>>
      \/ \E i \in Items : Record(i) \/ Elapse(i)
      \/ \E u \in Uploaders : Quarantine(u) \/ MarkDelivered(u) \/ MarkRetry(u)
      \/ \E c \in Collectors : PutAck(c)
  BY StepCases DEF Claim, ReadAck, PutBatch, RequestLost, KillUpload, List, Ingest, Fetch, Move, Defer,
     KillCollect, Skip, vars
<1>10. QED
  BY <1>1, <1>2, <1>3, <1>4, <1>5, <1>6, <1>7, <1>8, <1>9, <1>t DEF Untroubled

LEMMA UploadsInOrderStep == IInv /\ [SyncNext]_vars /\ faults' = 0 => UploadsInOrder' /\ InboxInOrder'
<1> SUFFICES ASSUME IInv, [SyncNext]_vars, faults' = 0 PROVE UploadsInOrder' /\ InboxInOrder'
  OBVIOUS
<1> DEFINE InOrder(u) ==
      /\ ~up[u].lost /\ up[u].bad = {}
      /\ up[u].at \in {"ack", "put"} => \A r \in up[u].batch \cap Reviews : OnItsWay(Cites[r])
      /\ \A r \in up[u].left :
           OnItsWay(Cites[r]) \/ (up[u].at \in {"ack", "put"} /\ Cites[r] \in up[u].batch)
<1> USE DEF device, bucket
<1>t. /\ SyncTypeOK /\ Untroubled /\ UploadsInOrder /\ InboxInOrder /\ AckInv
      /\ faults = 0 /\ service \subseteq service'
  BY CleanCases, GrowStep DEF IInv, InOrderInv
<1>s. \A r \in Reviews : OnItsWay(Cites[r]) => OnItsWay(Cites[r])'
  BY StaysOnItsWay, CitesAnEvent
<1>i. \A u \in Uploaders : InOrder(u)
  BY <1>t DEF UploadsInOrder
<1>r. \A u \in Uploaders : up[u].left \subseteq Reviews
  BY <1>t, ProcessTypes
<1>1. ASSUME NEW u \in Uploaders, up'[u] = up[u] PROVE InOrder(u)'
  BY <1>1, <1>i, <1>s, <1>r
<1>2. ASSUME NEW u \in Uploaders, Claim(u) PROVE InOrder(u)'
  <2> DEFINE due == Oldest(Due)
  <2>1. /\ up'[u].at = "ack" /\ up'[u].bad = {} /\ up'[u].lost = FALSE
        /\ up'[u].batch = NextKind(due) /\ up'[u].left = due \ NextKind(due)
    BY <1>2, <1>t, ClaimEffect
  <2>2. \A r \in due \cap Reviews : Cites[r] \in due \/ Cites[r] \in service
    BY <1>t, ClaimsInOrder
  <2>3. \A r \in NextKind(due) \cap Reviews : OnItsWay(Cites[r])'
    <3>1. ASSUME NEW r \in NextKind(due) \cap Reviews PROVE Cites[r] \in service
      BY <3>1, <2>2, CitesAnEvent DEF NextKind
    <3>2. QED
      BY <3>1, <1>t DEF OnItsWay
  <2>4. due \subseteq Items
    BY DEF Oldest, Due, InState
  <2>5. \A r \in due \ NextKind(due) : OnItsWay(Cites[r])' \/ Cites[r] \in NextKind(due)
    <3>1. ASSUME NEW r \in due \ NextKind(due) PROVE Cites[r] \in service \/ Cites[r] \in NextKind(due)
      BY <3>1, <2>2, <2>4, CitesAnEvent DEF NextKind, Items
    <3>2. QED
      BY <3>1, <1>t DEF OnItsWay
  <2>6. QED
    BY <2>1, <2>3, <2>5
<1>3. ASSUME NEW u \in Uploaders, ReadAck(u) PROVE InOrder(u)'
  <2>1. up[u].at = "ack" /\ up'[u].left = up[u].left /\ up'[u].batch = up[u].batch /\ up'[u].lost = up[u].lost
    BY <1>3, <1>t, ReadAckEffect
  <2>2. CASE up[u].batch \in acked
    <3>1. up'[u].at = "mark" /\ up'[u].bad = up[u].batch \ stored[up[u].batch]
      BY <1>3, <2>2, <1>t, ReadAckEffect
    <3>2. stored[up[u].batch] = up[u].batch /\ up[u].batch \subseteq service
      BY <2>2, <1>t DEF Untroubled, AckInv
    <3>3. \A r \in up[u].left : OnItsWay(Cites[r])'
      BY <3>2, <1>i, <1>s, <1>r, <1>t DEF OnItsWay
    <3>4. QED
      BY <2>1, <3>1, <3>2, <3>3, <1>i
  <2>3. CASE up[u].batch \notin acked
    <3>1. up'[u].at = "put" /\ up'[u].bad = up[u].bad
      BY <1>3, <2>3, <1>t, ReadAckEffect
    <3>2. QED
      BY <2>1, <3>1, <1>i, <1>s, <1>r
  <2>4. QED
    BY <2>2, <2>3
<1>4. ASSUME NEW u \in Uploaders, PutBatch(u) PROVE InOrder(u)' /\ InboxInOrder'
  <2>1. /\ up[u].at = "put" /\ up'[u].at = "mark" /\ up'[u].left = up[u].left
        /\ up'[u].lost = up[u].lost /\ up'[u].bad = up[u].bad
    BY <1>4, <1>t, PutBatchEffect
  <2>2. inbox' = inbox \cup {up[u].batch}
    BY <1>4 DEF PutBatch
  <2>3. \A r \in up[u].left : OnItsWay(Cites[r])'
    BY <2>2, <1>i, <1>s, <1>r DEF OnItsWay
  <2>4. InOrder(u)'
    BY <2>1, <2>3, <1>i
  <2>5. \A r \in up[u].batch \cap Reviews : OnItsWay(Cites[r])'
    BY <2>1, <1>i, <1>s
  <2>6. InboxInOrder'
    BY <2>2, <2>5, <1>s, <1>t DEF InboxInOrder
  <2>7. QED
    BY <2>4, <2>6
<1>5. ASSUME NEW u \in Uploaders, MarkDelivered(u) PROVE InOrder(u)'
  <2>1. /\ up[u].at = "mark" /\ up'[u].at = "mark" /\ up'[u].left = up[u].left
        /\ up'[u].lost = up[u].lost /\ up'[u].bad = up[u].bad
    BY <1>5, <1>t, MarkDeliveredEffect
  <2>2. QED
    BY <2>1, <1>i, <1>s, <1>r
<1>6. ASSUME NEW u \in Uploaders, MarkRetry(u) PROVE InOrder(u)'
  <2>1. /\ up[u].at = "mark" /\ up'[u].left = {} /\ up'[u].lost = FALSE /\ up'[u].bad = {}
        /\ up'[u].batch = up[u].left
    BY <1>6, <1>t, MarkRetryEffect
  <2>2. QED
    BY <2>1, <1>i, <1>s, <1>r
<1>7. ASSUME NEW u \in Uploaders, Quarantine(u) PROVE FALSE
  BY <1>7, <1>i DEF Quarantine
<1>8. ASSUME NEW u \in Uploaders, NEW v \in Uploaders \ {u},
             Claim(u) \/ ReadAck(u) \/ PutBatch(u) \/ MarkDelivered(u) \/ MarkRetry(u)
      PROVE  InOrder(v)'
  <2>1. up'[v] = up[v]
    BY <1>8, <1>t, ClaimEffect, ReadAckEffect, PutBatchEffect, MarkDeliveredEffect, MarkRetryEffect
  <2>2. QED
    BY <2>1, <1>1
<1>9. \/ up' = up
      \/ \E u \in Uploaders : \/ Claim(u) \/ ReadAck(u) \/ PutBatch(u)
                              \/ Quarantine(u) \/ MarkDelivered(u) \/ MarkRetry(u)
  BY <1>t, CleanCases DEF Record, Elapse, List, Ingest, PutAck, Fetch, Move, Skip, vars
<1>10. \A v \in Uploaders : InOrder(v)'
  <2>1. CASE up' = up
    BY <2>1, <1>1
  <2>2. ASSUME NEW u \in Uploaders,
               \/ Claim(u) \/ ReadAck(u) \/ PutBatch(u)
               \/ Quarantine(u) \/ MarkDelivered(u) \/ MarkRetry(u)
        PROVE  \A v \in Uploaders : InOrder(v)'
    <3>1. InOrder(u)'
      BY <2>2, <1>2, <1>3, <1>4, <1>5, <1>6, <1>7
    <3>2. \A v \in Uploaders \ {u} : InOrder(v)'
      BY <2>2, <1>7, <1>8
    <3>3. QED
      BY <3>1, <3>2
  <2>3. QED
    BY <2>1, <2>2, <1>9
<1>11. InboxInOrder'
  <2>1. inbox' \subseteq inbox \/ \E u \in Uploaders : PutBatch(u)
    BY <1>t, CleanCases DEF Record, Elapse, Claim, ReadAck, Quarantine, MarkDelivered, MarkRetry,
       List, Ingest, PutAck, Fetch, Move, Skip, vars
  <2>2. CASE inbox' \subseteq inbox
    BY <2>2, <1>s, <1>t DEF InboxInOrder
  <2>3. QED
    BY <2>1, <2>2, <1>4
<1>12. QED
  BY <1>10, <1>11 DEF UploadsInOrder

LEMMA CollectsInOrderStep == IInv /\ [SyncNext]_vars /\ faults' = 0 => CollectsInOrder'
<1> SUFFICES ASSUME IInv, [SyncNext]_vars, faults' = 0 PROVE CollectsInOrder'
  OBVIOUS
<1> DEFINE InOrder(c) ==
      /\ col[c].at \in {"ack", "move"} => col[c].good = col[c].batch
      /\ col[c].at = "read" => \A r \in col[c].batch \cap Reviews : Cites[r] \in service
      /\ \A b \in col[c].todo : \A r \in b \cap Reviews :
           \/ Cites[r] \in service
           \/ \E d \in col[c].todo : Cites[r] \in d
           \/ col[c].at = "read" /\ Cites[r] \in col[c].batch
<1> USE DEF device, bucket
<1>t. SyncTypeOK /\ InboxInOrder /\ CollectInv /\ faults = 0 /\ service \subseteq service'
  BY CleanCases, GrowStep DEF IInv, InOrderInv
<1>i. \A c \in Collectors : InOrder(c)
  BY <1>t, CleanCases DEF IInv, InOrderInv, CollectsInOrder
<1>e. \A e \in Events : e \notin Reviews
  OBVIOUS
<1>1. ASSUME NEW c \in Collectors, col'[c] = col[c] PROVE InOrder(c)'
  BY <1>1, <1>i, <1>t
<1>2. ASSUME NEW c \in Collectors, List(c) PROVE InOrder(c)'
  <2>1. col'[c].at \in {"idle", "next"} /\ col'[c].todo = inbox
    BY <1>2, <1>t, ListEffect
  <2>2. ASSUME NEW b \in inbox, NEW r \in b \cap Reviews
        PROVE  Cites[r] \in service' \/ \E d \in inbox : Cites[r] \in d
    BY <1>t DEF InboxInOrder, OnItsWay
  <2>3. QED
    BY <2>1, <2>2
<1>3. ASSUME NEW c \in Collectors, NEW b \in Batches, Fetch(c, b) PROVE InOrder(c)'
  <2>1. /\ col[c].at = "next" /\ FirstListed(b, col[c].todo)
        /\ col'[c].at = "read" /\ col'[c].todo = col[c].todo \ {b} /\ col'[c].batch = b
    BY <1>3, <1>t, FetchEffect
  <2>2. ASSUME NEW r \in b \cap Reviews PROVE Cites[r] \in service'
    <3>1. b \in col[c].todo /\ \A x \in col[c].todo : x \subseteq Reviews
      BY <2>1, <1>e DEF FirstListed
    <3>2. Cites[r] \in service \/ \E d \in col[c].todo : Cites[r] \in d
      BY <3>1, <2>1, <1>i
    <3>3. Cites[r] \in Events
      BY CitesAnEvent
    <3>4. QED
      BY <3>1, <3>2, <3>3, <1>e, <1>t
  <2>3. ASSUME NEW x \in col[c].todo, NEW r \in x \cap Reviews
        PROVE  \/ Cites[r] \in service'
               \/ \E d \in col[c].todo \ {b} : Cites[r] \in d
               \/ Cites[r] \in b
    <3>1. Cites[r] \in service \/ \E d \in col[c].todo : Cites[r] \in d
      BY <2>1, <1>i
    <3>2. QED
      BY <3>1, <1>t
  <2>4. QED
    BY <2>1, <2>2, <2>3
<1>4. ASSUME NEW c \in Collectors, Ingest(c) PROVE InOrder(c)'
  <2>1. /\ col[c].at = "read" /\ col'[c].at = "ack" /\ col'[c].todo = col[c].todo
        /\ col'[c].batch = col[c].batch /\ col'[c].good = {i \in col[c].batch : Accepted(i)}
        /\ service' = service \cup {i \in col[c].batch : Accepted(i)}
    BY <1>4, <1>t, IngestEffect
  <2>2. col[c].batch \subseteq Items
    BY <1>t, ProcessTypes, BatchKinds
  <2>3. \A i \in col[c].batch : Accepted(i)
    <3>1. ASSUME NEW i \in col[c].batch, i \in Reviews PROVE Accepted(i)
      BY <3>1, <2>1, <1>i, CitesAnEvent DEF Accepted
    <3>2. QED
      BY <3>1, <2>2, FactsAreAccepted DEF Items
  <2>4. \A b \in col[c].todo : \A r \in b \cap Reviews :
          Cites[r] \in service' \/ \E d \in col[c].todo : Cites[r] \in d
    <3>1. ASSUME NEW b \in col[c].todo, NEW r \in b \cap Reviews
          PROVE  Cites[r] \in service' \/ \E d \in col[c].todo : Cites[r] \in d
      <4>1. \/ Cites[r] \in service
            \/ \E d \in col[c].todo : Cites[r] \in d
            \/ Cites[r] \in col[c].batch
        BY <1>i
      <4>2. QED
        BY <4>1, <2>1, <2>3
    <3>2. QED
      BY <3>1
  <2>5. QED
    BY <2>1, <2>3, <2>4
<1>5. ASSUME NEW c \in Collectors, PutAck(c) PROVE InOrder(c)'
  <2>1. /\ col[c].at = "ack" /\ col'[c].at = "move" /\ col'[c].todo = col[c].todo
        /\ col'[c].batch = col[c].batch /\ col'[c].good = col[c].good
    BY <1>5, <1>t, PutAckEffect
  <2>2. QED
    BY <2>1, <1>i, <1>t
<1>6. ASSUME NEW c \in Collectors, Move(c) PROVE InOrder(c)'
  <2>1. col[c].at = "move"
    BY <1>6 DEF Move
  <2>2. col'[c].at \in {"idle", "next"} /\ col'[c].todo \in {{}, col[c].todo}
    <3>1. \/ col' = [col EXCEPT ![c] = NoCollect]
          \/ col' = [col EXCEPT ![c] = Resume(col[c].todo)]
      BY <1>6 DEF Move
    <3>2. QED
      BY <3>1, <1>t, GoneEffect, ResumeEffect
  <2>3. \A b \in col[c].todo : \A r \in b \cap Reviews :
          Cites[r] \in service \/ \E d \in col[c].todo : Cites[r] \in d
    BY <2>1, <1>i
  <2>4. QED
    BY <2>2, <2>3, <1>t
<1>7. ASSUME NEW c \in Collectors, NEW b \in Batches, Skip(c, b) PROVE InOrder(c)'
  <2>1. /\ col[c].at = "next" /\ b \in col[c].todo /\ b \notin inbox
        /\ col' = [col EXCEPT ![c] = Resume(col[c].todo \ {b})]
    BY <1>7 DEF Skip, TakeListed, FirstListed
  <2>2. col'[c].at \in {"idle", "next"} /\ col'[c].todo = col[c].todo \ {b}
    <3>1. col[c].todo \ {b} \in SUBSET col[c].todo
      OBVIOUS
    <3>2. QED
      BY <2>1, <3>1, <1>t, ResumeEffect
  <2>3. b \cap Events \subseteq service
    BY <2>1, <1>t DEF CollectInv
  <2>4. ASSUME NEW x \in col[c].todo, NEW r \in x \cap Reviews
        PROVE  Cites[r] \in service' \/ \E d \in col[c].todo \ {b} : Cites[r] \in d
    <3>1. Cites[r] \in service \/ \E d \in col[c].todo : Cites[r] \in d
      BY <2>1, <1>i
    <3>2. QED
      BY <3>1, <2>3, <1>t, CitesAnEvent
  <2>5. QED
    BY <2>2, <2>4
<1>8. ASSUME NEW c \in Collectors, NEW d \in Collectors \ {c},
             List(c) \/ Ingest(c) \/ PutAck(c) \/ Move(c) \/ \E b \in Batches : Fetch(c, b) \/ Skip(c, b)
      PROVE  InOrder(d)'
  <2>1. col'[d] = col[d]
    BY <1>8, <1>t, ListEffect, IngestEffect, PutAckEffect, FetchEffect, LeaveEffect
  <2>2. QED
    BY <2>1, <1>1
<1>9. \/ col' = col
      \/ \E c \in Collectors : \/ List(c) \/ Ingest(c) \/ PutAck(c) \/ Move(c)
                               \/ \E b \in Batches : Fetch(c, b) \/ Skip(c, b)
  BY <1>t, CleanCases DEF Record, Elapse, Claim, ReadAck, PutBatch, Quarantine, MarkDelivered, MarkRetry, vars
<1>10. ASSUME NEW d \in Collectors PROVE InOrder(d)'
  <2>1. CASE col' = col
    BY <2>1, <1>1
  <2>2. ASSUME NEW c \in Collectors,
               \/ List(c) \/ Ingest(c) \/ PutAck(c) \/ Move(c)
               \/ \E b \in Batches : Fetch(c, b) \/ Skip(c, b)
        PROVE  InOrder(d)'
    <3>1. CASE c = d
      BY <2>2, <3>1, <1>2, <1>3, <1>4, <1>5, <1>6, <1>7
    <3>2. CASE c # d
      BY <2>2, <3>2, <1>8
    <3>3. QED
      BY <3>1, <3>2
  <2>3. QED
    BY <2>1, <2>2, <1>9
<1>11. QED
  BY <1>10 DEF CollectsInOrder

LEMMA InOrderStep == IInv /\ [SyncNext]_vars => InOrderInv'
  BY UntroubledStep, UploadsInOrderStep, CollectsInOrderStep DEF InOrderInv

LEMMA Inductive == IInv /\ [SyncNext]_vars => IInv'
  BY TypeStep, QueueStep, KnownStep, UploadStep, AckStep, CollectStep, SettledStep, InOrderStep DEF IInv

THEOREM SyncInvariant == SyncSpec => []IInv
<1>1. Init => IInv
  BY InitInv
<1>2. IInv /\ [SyncNext]_vars => IInv'
  BY Inductive
<1>3. QED
  BY <1>1, <1>2, PTL DEF SyncSpec

-----------------------------------------------------------------------------

\* Every variable keeps its type: in particular only batches of one kind are sent.
THEOREM SyncTypeCorrect == SyncSpec => []SyncTypeOK
<1>1. IInv => SyncTypeOK
  BY DEF IInv
<1>2. QED
  BY <1>1, SyncInvariant, PTL

\* However many processes upload and collect, and whatever is lost, sent twice or
\* killed, a row is DELIVERED only when the service has its item (device_store.py:18).
THEOREM DeliveredWasPersisted == SyncSpec => []DeliveredIsPersisted
<1>1. IInv => DeliveredIsPersisted
  BY DEF IInv
<1>2. QED
  BY <1>1, SyncInvariant, PTL

\* Without a fault no revision reaches the service before the fact it cites, in any
\* interleaving of claims, uploads and collectors (sync_client.py:113).
THEOREM RefusalNeedsFault == SyncSpec => []RefusedOnlyAfterFault
<1>1. IInv => RefusedOnlyAfterFault
  BY DEF IInv, InOrderInv, Untroubled, RefusedOnlyAfterFault
<1>2. QED
  BY <1>1, SyncInvariant, PTL

-----------------------------------------------------------------------------

\* A step of the outbox, the bucket or the service is one of the transfer, or none.
LEMMA TransferStep ==
  IInv /\ [SyncNext]_vars =>
      [Transfer!TransferNext]_<<Recorded, service, InState("DELIVERED"), Settled>>
<1> SUFFICES ASSUME IInv, [SyncNext]_vars
             PROVE  [Transfer!TransferNext]_<<Recorded, service, InState("DELIVERED"), Settled>>
  OBVIOUS
<1> USE DEF device, bucket
<1>t. SyncTypeOK /\ UploadInv /\ KnownInv /\ DeliveredIsPersisted
  BY DEF IInv
<1>1. ASSUME outbox' = outbox
      PROVE  Recorded' = Recorded /\ InState("DELIVERED")' = InState("DELIVERED") /\ Settled' = Settled
  BY <1>1 DEF Recorded, InState, Settled
<1>2. ASSUME NEW i \in Items, Record(i) PROVE Transfer!Record(i)
  <2>1. Recorded' = Recorded \cup {i} /\ InState("DELIVERED")' = InState("DELIVERED") /\ Settled' = Settled
    BY <1>2, <1>t DEF Record, Recorded, InState, Settled, SyncTypeOK
  <2>2. QED
    BY <1>2, <2>1 DEF Record, Transfer!Record
<1>3. ASSUME NEW u \in Uploaders, Quarantine(u) PROVE \E i \in Items : Transfer!GiveUp(i)
  <2>1. PICK i \in up[u].bad : outbox' = [outbox EXCEPT ![i] = "QUARANTINED"]
    BY <1>3 DEF Quarantine
  <2>2. i \in Reviews /\ i \in Recorded /\ i \in Items
    BY <1>t DEF UploadInv, Items
  <2>3. /\ Recorded' = Recorded /\ InState("DELIVERED")' = InState("DELIVERED") \ {i}
        /\ Settled' = Settled \cup {i}
    BY <2>1, <2>2, <1>t DEF Recorded, InState, Settled, SyncTypeOK
  <2>4. service' = service
    BY <1>3 DEF Quarantine
  <2>5. Transfer!GiveUp(i)
    BY <2>2, <2>3, <2>4, CitesAnEvent DEF Transfer!GiveUp
  <2>6. QED
    BY <2>2, <2>5
<1>4. ASSUME NEW u \in Uploaders, MarkDelivered(u) PROVE \E S \in SUBSET Items : Transfer!Confirm(S)
  <2> DEFINE S == {i \in up[u].good : outbox[i] = "PENDING"}
  <2>1. S \subseteq Items /\ S \subseteq service
    BY <1>t, ProcessTypes DEF UploadInv
  <2>2. /\ Recorded' = Recorded /\ InState("DELIVERED")' = InState("DELIVERED") \cup S
        /\ Settled' = Settled \cup S /\ S \cap Settled = {}
    BY <1>4, <2>1, <1>t DEF MarkDelivered, Recorded, InState, Settled, SyncTypeOK
  <2>3. service' = service
    BY <1>4 DEF MarkDelivered
  <2>4. Transfer!Confirm(S)
    BY <2>1, <2>2, <2>3 DEF Transfer!Confirm
  <2>5. QED
    BY <2>1, <2>4
<1>5. ASSUME NEW c \in Collectors, Ingest(c) PROVE \E S \in SUBSET Items : Transfer!Persist(S)
  <2> DEFINE S == {i \in col[c].batch : Accepted(i)}
  <2>1. S \subseteq Items /\ S \subseteq Recorded
    BY <1>t, ProcessTypes, BatchKinds DEF KnownInv
  <2>2. service' = service \cup S /\ \A i \in S : Cited(i) \subseteq service
    BY <1>5 DEF Ingest, Accepted
  <2>3. Recorded' = Recorded /\ InState("DELIVERED")' = InState("DELIVERED") /\ Settled' = Settled
    BY <1>1, <1>5 DEF Ingest
  <2>4. Transfer!Persist(S)
    BY <2>1, <2>2, <2>3 DEF Transfer!Persist
  <2>5. QED
    BY <2>1, <2>4
<1>6. \/ UNCHANGED <<outbox, service>>
      \/ \E i \in Items : Record(i)
      \/ \E u \in Uploaders : Quarantine(u) \/ MarkDelivered(u)
      \/ \E c \in Collectors : Ingest(c)
  BY StepCases DEF Elapse, Claim, ReadAck, PutBatch, RequestLost, MarkRetry, KillUpload, List, PutAck,
     Fetch, Move, Defer, KillCollect, Skip, vars
<1>7. QED
  BY <1>1, <1>2, <1>3, <1>4, <1>5, <1>6 DEF Transfer!TransferNext

\* The outbox implements ReliableTransfer, whatever fails.
THEOREM SyncTransfersReliably == SyncSpec => TransfersReliably
<1>1. Init => Transfer!TransferInit
  BY DEF Init, Transfer!TransferInit, Recorded, InState, Settled
<1>2. IInv /\ [SyncNext]_vars =>
        [Transfer!TransferNext]_<<Recorded, service, InState("DELIVERED"), Settled>>
  BY TransferStep
<1>3. QED
  BY <1>1, <1>2, SyncInvariant, PTL DEF SyncSpec, TransfersReliably, Transfer!TransferSpec
================================================================================
