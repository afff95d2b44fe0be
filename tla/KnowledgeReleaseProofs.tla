------------------------ MODULE KnowledgeReleaseProofs ------------------------
(***************************************************************************)
(* Theorems of KnowledgeRelease, for any bundles and versions, any number  *)
(* of collector agents and any bounds.                                     *)
(***************************************************************************)
EXTENDS KnowledgeRelease, FiniteSetTheorems, TLAPS

History == [from : Versions \cup {None}, to : Versions \cup {None}]
Agents  == [at : {"idle", "table", "rows", "publish", "remove", "revocations", "list"},
            rows : Entries, known : Entries, read : Entries, bundle : SUBSET Bundles, list : Sets]
Commands == [at : {"idle", "read", "write"}, bundle : SUBSET Bundles,
             version : Versions \cup {None}, read : Entries]
\* A sync that is about to admit has a version to admit.
Pulls == {p \in [at : {"idle", "bundles", "admit", "list"}, names : Entries, bundle : SUBSET Bundles,
                 index : Sets, list : Sets] :
             p.at = "admit" => \A b \in p.bundle : p.names[b] # None}

\* Types, those of the processes' variables included.
FullType ==
    /\ channel \in Entries /\ pointer \in Entries
    /\ revoked \in Sets /\ listed \in Sets /\ cache \in Sets /\ copy \in Sets
    /\ history \in [Bundles -> Seq(History)]
    /\ cycle \in [Cycles -> Agents] /\ cli \in Commands
    /\ pull \in [Syncs -> Pulls] /\ faults \in 0 .. MaxFaults

\* The last row of a history says where the channel is, and each where it was.
HistoryInv == \A b \in Bundles :
    /\ channel[b] = IF Len(history[b]) = 0 THEN None ELSE history[b][Len(history[b])].to
    /\ \A n \in 2 .. Len(history[b]) : history[b][n].from = history[b][n - 1].to

\* At most one cycle is under way (the flock).
OneCycle == \A c, d \in Cycles : cycle[c].at # "idle" /\ cycle[d].at # "idle" => c = d

\* What a device knows, or is about to, was listed, what is listed is revoked, and a cycle
\* is about to list no less.
ListInv == \A b \in Bundles :
    /\ copy[b] \subseteq listed[b] /\ listed[b] \subseteq revoked[b]
    /\ \A s \in Syncs : pull[s].list[b] \subseteq listed[b]
    /\ \A c \in Cycles : cycle[c].at = "list" =>
          listed[b] \subseteq cycle[c].list[b] /\ cycle[c].list[b] \subseteq revoked[b]

IInv ==
    /\ FullType /\ HistoryInv /\ ChannelNotRevoked
    /\ OneCycle /\ ListInv

USE ReleaseAssumption DEF None

-----------------------------------------------------------------------------
(* Values. *)

LEMMA Empties ==
    /\ Nowhere \in Entries /\ Nothing \in Sets
    /\ NoCycle \in Agents /\ NoCycle.at = "idle"
    /\ NoCommand \in Commands /\ NoCommand.at = "idle"
    /\ NoPull \in Pulls /\ NoPull.list = Nothing
  BY DEF Nowhere, Nothing, NoCycle, NoCommand, NoPull, Entries, Sets, Agents, Commands, Pulls

\* A walk ends at a valid version or the channel is left empty.
LEMMA FallbackValue ==
  ASSUME NEW b \in Bundles, NEW v \in Versions, NEW gone
  PROVE  Fallback(b, v, gone) \in (Versions \ gone) \cup {None}
<1> DEFINE ends(n) == {w \in Versions \ gone : WalksTo(b, Replaced(b, v)[n], w, gone)}
           latest == {n \in DOMAIN Replaced(b, v) : \A m \in 1 .. n - 1 : ends(m) = {}}
           found == UNION {ends(n) : n \in latest}
<1>1. Fallback(b, v, gone) = IF found = {} THEN None ELSE CHOOSE w \in found : TRUE
  BY DEF Fallback
<1>2. found \subseteq Versions \ gone
  OBVIOUS
<1> HIDE DEF found
<1>3. QED
  BY <1>1, <1>2

LEMMA Kept ==
    /\ UNCHANGED service => UNCHANGED <<channel, history, revoked>>
    /\ UNCHANGED bucket => UNCHANGED <<pointer, listed>>
    /\ UNCHANGED device => UNCHANGED <<pull, cache, copy>>
    /\ UNCHANGED vars => UNCHANGED <<channel, history, revoked, pointer, listed, cycle, cli, pull, cache, copy, faults>>
  BY DEF service, bucket, device, vars

\* The records a cycle and a command go through.
LEMMA TableRecord ==
  ASSUME NEW E \in Entries
  PROVE  LET r == [NoCycle EXCEPT !.at = "table", !.rows = E] IN r \in Agents /\ r.at = "table"
<1>1. NoCycle \in Agents
  BY Empties
<1>2. QED
  BY <1>1 DEF Agents

LEMMA RowsRecord ==
  ASSUME NEW x \in Agents, NEW E \in Entries
  PROVE  LET r == [x EXCEPT !.at = "rows", !.known = E] IN r \in Agents /\ r.at = "rows"
  BY DEF Agents

LEMMA PublishRecord ==
  ASSUME NEW x \in Agents, NEW b \in Bundles, NEW E \in Entries
  PROVE  LET r == [x EXCEPT !.at = "publish", !.bundle = {b}, !.read = E] IN r \in Agents /\ r.at = "publish"
  BY DEF Agents

LEMMA PublishedRecord ==
  ASSUME NEW x \in Agents, NEW E \in Entries
  PROVE  LET r == [x EXCEPT !.at = "rows", !.known = E, !.bundle = {}, !.read = Nowhere]
         IN  r \in Agents /\ r.at = "rows"
<1>1. Nowhere \in Entries
  BY Empties
<1>2. QED
  BY <1>1 DEF Agents

LEMMA RemoveRecord ==
  ASSUME NEW x \in Agents, NEW E \in Entries
  PROVE  LET r == [x EXCEPT !.at = "remove", !.known = Nowhere, !.read = E] IN r \in Agents /\ r.at = "remove"
<1>1. Nowhere \in Entries
  BY Empties
<1>2. QED
  BY <1>1 DEF Agents

LEMMA RevocationsRecord ==
  LET r == [NoCycle EXCEPT !.at = "revocations"] IN r \in Agents /\ r.at = "revocations"
<1>1. NoCycle \in Agents
  BY Empties
<1>2. QED
  BY <1>1 DEF Agents

LEMMA ListRecord ==
  ASSUME NEW x \in Agents, NEW L \in Sets
  PROVE  LET r == [x EXCEPT !.at = "list", !.list = L] IN r \in Agents /\ r.at = "list" /\ r.list = L
  BY DEF Agents

LEMMA ReadRecord ==
  ASSUME NEW b \in Bundles, NEW v \in Versions
  PROVE  [NoCommand EXCEPT !.at = "read", !.bundle = {b}, !.version = v] \in Commands
<1>1. NoCommand \in Commands
  BY Empties
<1>2. QED
  BY <1>1 DEF Commands

LEMMA WriteRecord ==
  ASSUME NEW x \in Commands, NEW E \in Entries
  PROVE  [x EXCEPT !.at = "write", !.read = E] \in Commands
  BY DEF Commands

\* The records a sync goes through: only the last one has a list.
LEMMA BundlesRecord ==
  ASSUME NEW E \in Entries
  PROVE  LET r == [NoPull EXCEPT !.at = "bundles", !.names = E] IN r \in Pulls /\ r.list = Nothing
<1>1. NoPull \in Pulls /\ NoPull.list = Nothing
  BY Empties
<1>2. QED
  BY <1>1 DEF Pulls

LEMMA PassedRecord ==
  ASSUME NEW x \in Pulls, NEW b \in Bundles, x.at = "bundles"
  PROVE  LET r == [x EXCEPT !.names[b] = None] IN r \in Pulls /\ r.list = x.list
  BY DEF Pulls, Entries

LEMMA AdmitRecord ==
  ASSUME NEW x \in Pulls, NEW b \in Bundles, NEW C \in Sets, x.names[b] # None
  PROVE  LET r == [x EXCEPT !.at = "admit", !.bundle = {b}, !.index = C] IN r \in Pulls /\ r.list = x.list
  BY DEF Pulls

LEMMA AdmittedRecord ==
  ASSUME NEW x \in Pulls
  PROVE  LET r == [x EXCEPT !.at = "bundles", !.bundle = {}, !.index = Nothing,
                       !.names = [b \in Bundles |-> IF b \in x.bundle THEN None ELSE x.names[b]]]
         IN  r \in Pulls /\ r.list = x.list
<1>1. Nothing \in Sets
  BY Empties
<1>2. [b \in Bundles |-> IF b \in x.bundle THEN None ELSE x.names[b]] \in Entries
  BY DEF Pulls, Entries
<1>3. QED
  BY <1>1, <1>2 DEF Pulls

LEMMA CopyRecord ==
  ASSUME NEW x \in Pulls, NEW L \in Sets
  PROVE  LET r == [x EXCEPT !.at = "list", !.list = L] IN r \in Pulls /\ r.list = L
  BY DEF Pulls

LEMMA MoveEffect ==
  ASSUME FullType, HistoryInv, NEW b \in Bundles, NEW v \in Versions \cup {None}, Move(b, v)
  PROVE  /\ channel' \in Entries /\ history' \in [Bundles -> Seq(History)]
         /\ channel'[b] = v /\ \A a \in Bundles \ {b} : channel'[a] = channel[a]
         /\ HistoryInv'
<1> DEFINE row == [from |-> channel[b], to |-> v]
<1>1. channel \in Entries /\ history \in [Bundles -> Seq(History)]
  BY DEF FullType
<1>2. row \in History
  BY <1>1 DEF History, Entries
<1>3. /\ channel' \in Entries /\ channel'[b] = v /\ \A a \in Bundles \ {b} : channel'[a] = channel[a]
  BY <1>1 DEF Move, Entries
<1>4. /\ history' \in [Bundles -> Seq(History)] /\ history'[b] = Append(history[b], row)
      /\ \A a \in Bundles \ {b} : history'[a] = history[a]
  BY <1>1, <1>2 DEF Move
<1>5. ASSUME NEW a \in Bundles \ {b}
      PROVE  /\ channel'[a] = IF Len(history'[a]) = 0 THEN None ELSE history'[a][Len(history'[a])].to
             /\ \A n \in 2 .. Len(history'[a]) : history'[a][n].from = history'[a][n - 1].to
  BY <1>3, <1>4 DEF HistoryInv
<1>6. /\ channel'[b] = IF Len(history'[b]) = 0 THEN None ELSE history'[b][Len(history'[b])].to
      /\ \A n \in 2 .. Len(history'[b]) : history'[b][n].from = history'[b][n - 1].to
  <2>1. /\ history[b] \in Seq(History) /\ Len(history[b]) \in Nat
        /\ Len(history'[b]) = Len(history[b]) + 1
        /\ history'[b][Len(history[b]) + 1] = row
        /\ \A n \in 1 .. Len(history[b]) : history'[b][n] = history[b][n]
    BY <1>1, <1>2, <1>4
  <2>2. ASSUME NEW n \in 2 .. Len(history'[b]) PROVE history'[b][n].from = history'[b][n - 1].to
    <3>1. CASE n = Len(history[b]) + 1
      <4>1. n - 1 \in 1 .. Len(history[b]) /\ Len(history[b]) # 0 /\ n - 1 = Len(history[b])
        BY <2>1, <3>1
      <4>2. history'[b][n - 1] = history[b][Len(history[b])]
        BY <2>1, <4>1
      <4>3. row.from = history[b][Len(history[b])].to
        BY <4>1 DEF HistoryInv
      <4>4. QED
        BY <2>1, <3>1, <4>2, <4>3
    <3>2. CASE n # Len(history[b]) + 1
      <4>1. n \in 2 .. Len(history[b]) /\ n \in 1 .. Len(history[b]) /\ n - 1 \in 1 .. Len(history[b])
        BY <2>1, <3>2
      <4>2. QED
        BY <2>1, <4>1 DEF HistoryInv
    <3>3. QED
      BY <3>1, <3>2
  <2>3. QED
    BY <2>1, <2>2, <1>3
<1>7. HistoryInv'
  BY <1>5, <1>6 DEF HistoryInv
<1>8. QED
  BY <1>3, <1>4, <1>7

\* What a step of a cycle writes: one agent's record, and one object of the bucket.
LEMMA CycleEffect ==
  ASSUME FullType, OneCycle, NEW c \in Cycles, CycleStep(c)
  PROVE  /\ UNCHANGED <<channel, history, revoked, cli, pull, cache, copy, faults>>
         /\ cycle' \in [Cycles -> Agents] /\ pointer' \in Entries
         /\ \A d \in Cycles \ {c} : cycle'[d] = cycle[d]
         /\ cycle[c].at = "idle" => \A d \in Cycles : cycle[d].at = "idle"
         /\ \/ cycle'[c].at # "list" /\ listed' = listed
            \/ cycle'[c].at = "list" /\ cycle'[c].list = revoked /\ listed' = listed
            \/ cycle[c].at = "list" /\ cycle'[c].at = "idle" /\ listed' = cycle[c].list
<1>a. /\ channel \in Entries /\ pointer \in Entries /\ revoked \in Sets
      /\ cycle \in [Cycles -> Agents] /\ cycle[c] \in Agents
  BY DEF FullType
<1>k. ASSUME NEW at, NEW r \in Agents, Cycle(c, at, r)
      PROVE  /\ UNCHANGED <<channel, history, revoked, cli, pull, cache, copy, faults>>
             /\ cycle[c].at = at /\ cycle' \in [Cycles -> Agents] /\ cycle'[c] = r
             /\ \A d \in Cycles \ {c} : cycle'[d] = cycle[d]
  BY <1>k, <1>a, Kept DEF Cycle
<1> DEFINE Quiet == /\ UNCHANGED <<channel, history, revoked, cli, pull, cache, copy, faults>>
                    /\ cycle' \in [Cycles -> Agents] /\ pointer' \in Entries
                    /\ \A d \in Cycles \ {c} : cycle'[d] = cycle[d]
                    /\ cycle[c].at = "idle" => \A d \in Cycles : cycle[d].at = "idle"
<1> USE Kept
<1>1. CASE BeginCycle(c)
  <2> DEFINE r == [NoCycle EXCEPT !.at = "table", !.rows = channel]
  <2>1. r \in Agents /\ r.at = "table"
    BY <1>a, TableRecord
  <2>2. Cycle(c, "idle", r) /\ UNCHANGED bucket /\ \A d \in Cycles : cycle[d].at = "idle"
    BY <1>1 DEF BeginCycle, MayStart
  <2> HIDE DEF r
  <2>3. QED
    BY <2>1, <2>2, <1>a, <1>k
<1>2. ASSUME NEW b \in Bundles, PublishReads(c, b) PROVE Quiet /\ cycle'[c].at # "list" /\ listed' = listed
  <2> DEFINE r == [cycle[c] EXCEPT !.at = "publish", !.bundle = {b}, !.read = pointer]
  <2>1. r \in Agents /\ r.at = "publish"
    BY <1>a, PublishRecord
  <2>2. Cycle(c, "rows", r) /\ UNCHANGED bucket
    BY <1>2 DEF PublishReads
  <2> HIDE DEF r
  <2>3. QED
    BY <2>1, <2>2, <1>a, <1>k
<1>3. CASE PublishWrites(c)
  <2> DEFINE now == [b \in Bundles |-> IF b \in cycle[c].bundle THEN cycle[c].rows[b] ELSE cycle[c].read[b]]
             r == [cycle[c] EXCEPT !.at = "rows", !.known = now, !.bundle = {}, !.read = Nowhere]
  <2>1. now \in Entries
    BY <1>a DEF Agents, Entries
  <2>2. Cycle(c, "publish", r) /\ pointer' = now /\ listed' = listed
    BY <1>3 DEF PublishWrites
  <2> HIDE DEF now
  <2>3. r \in Agents /\ r.at = "rows"
    BY <1>a, <2>1, PublishedRecord
  <2> HIDE DEF r
  <2>4. QED
    BY <2>1, <2>2, <2>3, <1>a, <1>k
<1>4. CASE RemovalReads(c)
  <2> DEFINE r == IF Left(c, pointer) = {} THEN [NoCycle EXCEPT !.at = "revocations"]
                  ELSE [cycle[c] EXCEPT !.at = "remove", !.known = Nowhere, !.read = pointer]
  <2>1. r \in Agents /\ r.at \in {"revocations", "remove"}
    BY <1>a, RevocationsRecord, RemoveRecord, Empties
  <2>2. Cycle(c, "rows", r) /\ UNCHANGED bucket
    BY <1>4 DEF RemovalReads
  <2> HIDE DEF r
  <2>3. QED
    BY <2>1, <2>2, <1>a, <1>k
<1>5. CASE RemovalWrites(c)
  <2> DEFINE r == [NoCycle EXCEPT !.at = "revocations"]
  <2>1. r \in Agents /\ r.at = "revocations"
    BY <1>a, RevocationsRecord
  <2>2. Cycle(c, "remove", r) /\ listed' = listed
    BY <1>5 DEF RemovalWrites
  <2>3. pointer' \in Entries
    BY <1>5, <1>a DEF RemovalWrites, Agents, Entries
  <2> HIDE DEF r
  <2>4. QED
    BY <2>1, <2>2, <2>3, <1>a, <1>k
<1>6. CASE RevocationsRead(c)
  <2> DEFINE r == [cycle[c] EXCEPT !.at = "list", !.list = revoked]
  <2>1. r \in Agents /\ r.at = "list" /\ r.list = revoked
    BY <1>a, ListRecord
  <2>2. Cycle(c, "revocations", r) /\ UNCHANGED bucket
    BY <1>6 DEF RevocationsRead
  <2> HIDE DEF r
  <2>3. QED
    BY <2>1, <2>2, <1>a, <1>k
<1>7. CASE RevocationsWritten(c)
  <2>1. Cycle(c, "list", NoCycle) /\ listed' = cycle[c].list /\ pointer' = pointer
    BY <1>7 DEF RevocationsWritten
  <2>2. QED
    BY <2>1, <1>a, <1>k, Empties
<1>8. CASE PointerRead(c)
  <2> DEFINE E == IF cycle[c].rows = Nowhere THEN Nowhere ELSE pointer
             r == [cycle[c] EXCEPT !.at = "rows", !.known = E]
  <2>1. E \in Entries
    BY <1>a, Empties
  <2>2. Cycle(c, "table", r) /\ UNCHANGED bucket
    BY <1>8 DEF PointerRead
  <2> HIDE DEF E
  <2>3. r \in Agents /\ r.at = "rows"
    BY <1>a, <2>1, RowsRecord
  <2> HIDE DEF r
  <2>4. QED
    BY <2>2, <2>3, <1>a, <1>k
<1>9. QED
  BY <1>1, <1>2, <1>3, <1>4, <1>5, <1>6, <1>7, <1>8 DEF CycleStep

\* What a step of a sync writes: its own record, and one file of the device.
LEMMA PullEffect ==
  ASSUME FullType, NEW s \in Syncs, PullStep(s)
  PROVE  /\ UNCHANGED <<channel, history, revoked, pointer, listed, cycle, cli>>
         /\ pull' \in [Syncs -> Pulls] /\ cache' \in Sets /\ faults' \in 0 .. MaxFaults
         /\ \A d \in Syncs \ {s} : pull'[d] = pull[d]
         /\ pull'[s].list \in {pull[s].list, Nothing, listed}
         /\ copy' \in {copy, pull[s].list}
<1>a. /\ pointer \in Entries /\ listed \in Sets /\ cache \in Sets /\ faults \in 0 .. MaxFaults
      /\ pull \in [Syncs -> Pulls] /\ pull[s] \in Pulls
  BY DEF FullType
<1>k. ASSUME NEW at, NEW r \in Pulls, Pull(s, at, r)
      PROVE  /\ UNCHANGED <<channel, history, revoked, pointer, listed, cycle, cli>>
             /\ pull' \in [Syncs -> Pulls] /\ pull'[s] = r
             /\ \A d \in Syncs \ {s} : pull'[d] = pull[d]
  BY <1>k, <1>a, Kept DEF Pull
<1>1. CASE PullPointer(s)
  <2> DEFINE r == [NoPull EXCEPT !.at = "bundles", !.names = pointer]
  <2>1. r \in Pulls /\ r.list = Nothing
    BY <1>a, BundlesRecord
  <2>2. Pull(s, "idle", r) /\ UNCHANGED <<cache, copy, faults>>
    BY <1>1 DEF PullPointer
  <2> HIDE DEF r
  <2>3. QED
    BY <2>1, <2>2, <1>a, <1>k
<1>2. ASSUME NEW b \in Bundles, AdmitReads(s, b)
      PROVE  /\ UNCHANGED <<channel, history, revoked, pointer, listed, cycle, cli>>
             /\ pull' \in [Syncs -> Pulls] /\ UNCHANGED <<cache, copy, faults>>
             /\ \A d \in Syncs \ {s} : pull'[d] = pull[d]
             /\ pull'[s].list = pull[s].list
  <2> DEFINE p == [pull[s] EXCEPT !.names[b] = None]
             q == [pull[s] EXCEPT !.at = "admit", !.bundle = {b}, !.index = cache]
             r == IF pull[s].names[b] \in cache[b] THEN p ELSE q
  <2>0. pull[s].at = "bundles" /\ pull[s].names[b] # None
    BY <1>2 DEF AdmitReads, Pull
  <2>1. p \in Pulls /\ p.list = pull[s].list
    BY <1>a, <2>0, PassedRecord
  <2>2. q \in Pulls /\ q.list = pull[s].list
    BY <1>a, <2>0, AdmitRecord
  <2>3. Pull(s, "bundles", r) /\ UNCHANGED <<cache, copy, faults>>
    BY <1>2 DEF AdmitReads
  <2> HIDE DEF p, q
  <2>4. r \in Pulls /\ r.list = pull[s].list
    BY <2>1, <2>2
  <2> HIDE DEF r
  <2>5. QED
    BY <2>3, <2>4, <1>k
<1>3. CASE AdmitWrites(s)
  <2> DEFINE r == [pull[s] EXCEPT !.at = "bundles", !.bundle = {}, !.index = Nothing,
                 !.names = [b \in Bundles |-> IF b \in pull[s].bundle THEN None ELSE pull[s].names[b]]]
  <2>1. r \in Pulls /\ r.list = pull[s].list
    BY <1>a, AdmittedRecord
  <2>2. Pull(s, "admit", r) /\ UNCHANGED <<copy, faults>>
    BY <1>3 DEF AdmitWrites
  <2>3. cache' \in Sets
    <3>1. ASSUME NEW b \in Bundles PROVE Admitted(s, b) \subseteq Versions
      <4>1. pull[s].index[b] \subseteq Versions
        BY <1>a DEF Pulls, Sets
      <4>2. b \in pull[s].bundle => pull[s].names[b] \in Versions
        BY <1>3, <1>a DEF Pulls, Entries, AdmitWrites, Pull
      <4>3. QED
        BY <4>1, <4>2 DEF Admitted
    <3>2. QED
      BY <1>3, <3>1 DEF AdmitWrites, Sets
  <2> HIDE DEF r
  <2>4. QED
    BY <2>1, <2>2, <2>3, <1>a, <1>k
<1>4. ASSUME NEW b \in Bundles, FetchFails(s, b)
      PROVE  /\ UNCHANGED <<channel, history, revoked, pointer, listed, cycle, cli>>
             /\ pull' \in [Syncs -> Pulls] /\ UNCHANGED <<cache, copy>> /\ faults' \in 0 .. MaxFaults
             /\ \A d \in Syncs \ {s} : pull'[d] = pull[d]
             /\ pull'[s].list = pull[s].list
  <2> DEFINE r == [pull[s] EXCEPT !.names[b] = None]
  <2>0. pull[s].at = "bundles"
    BY <1>4 DEF FetchFails, Pull
  <2>1. r \in Pulls /\ r.list = pull[s].list
    BY <1>a, <2>0, PassedRecord
  <2>2. Pull(s, "bundles", r) /\ UNCHANGED <<cache, copy>> /\ faults < MaxFaults /\ faults' = faults + 1
    BY <1>4 DEF FetchFails
  <2> HIDE DEF r
  <2>3. faults' \in 0 .. MaxFaults
    BY <2>2, <1>a, ReleaseAssumption
  <2>4. QED
    BY <2>1, <2>2, <2>3, <1>k
<1>5. CASE ListReads(s)
  <2> DEFINE q == [pull[s] EXCEPT !.at = "list", !.list = listed]
             r == IF listed = Nothing THEN NoPull ELSE q
  <2>1. q \in Pulls /\ q.list = listed
    BY <1>a, CopyRecord
  <2>2. Pull(s, "bundles", r) /\ UNCHANGED <<cache, copy, faults>>
    BY <1>5 DEF ListReads
  <2> HIDE DEF q
  <2>3. r \in Pulls /\ r.list \in {Nothing, listed}
    BY <2>1, Empties
  <2> HIDE DEF r
  <2>4. QED
    BY <2>2, <2>3, <1>a, <1>k
<1>6. CASE ListWrites(s)
  <2>1. Pull(s, "list", NoPull) /\ copy' = pull[s].list /\ UNCHANGED <<cache, faults>>
    BY <1>6 DEF ListWrites
  <2>2. QED
    BY <2>1, <1>a, <1>k, Empties
<1>7. CASE \E b \in Bundles : AdmitReads(s, b)
  BY <1>a, <1>2, <1>7
<1>8. CASE \E b \in Bundles : FetchFails(s, b)
  BY <1>a, <1>4, <1>8
<1>9. QED
  BY <1>1, <1>3, <1>5, <1>6, <1>7, <1>8 DEF PullStep, PullGoesOn

-----------------------------------------------------------------------------
(* Each operation keeps the invariant. *)

\* A release is of a version that is not revoked.
LEMMA ReleaseKeeps ==
  ASSUME IInv, NEW b \in Bundles, NEW v \in Versions, Release(b, v)
  PROVE  IInv'
<1> USE DEF IInv
<1>1. /\ v \notin revoked[b] /\ Move(b, v)
      /\ UNCHANGED <<revoked, pointer, listed, pull, cache, copy, cycle, faults>>
      /\ UNCHANGED cli \/ cli' = [NoCommand EXCEPT !.at = "read", !.bundle = {b}, !.version = v]
  BY Kept DEF Release
<1>2. /\ channel' \in Entries /\ history' \in [Bundles -> Seq(History)]
      /\ channel'[b] = v /\ \A a \in Bundles \ {b} : channel'[a] = channel[a]
      /\ HistoryInv'
  BY <1>1, MoveEffect
<1>3. cli' \in Commands
  BY <1>1, ReadRecord DEF FullType
<1>4. FullType'
  BY <1>1, <1>2, <1>3 DEF FullType
<1>5. ChannelNotRevoked'
  BY <1>1, <1>2 DEF ChannelNotRevoked
<1>6. OneCycle' /\ ListInv'
  BY <1>1 DEF OneCycle, ListInv
<1>7. QED
  BY <1>2, <1>4, <1>5, <1>6

\* A channel at the revoked version falls back to one that is valid.
LEMMA RevokeKeeps ==
  ASSUME IInv, NEW b \in Bundles, NEW v \in Versions, Revoke(b, v)
  PROVE  IInv'
<1> USE DEF IInv
<1>1. /\ revoked' = [revoked EXCEPT ![b] = @ \cup {v}]
      /\ IF channel[b] = v THEN Move(b, Fallback(b, v, revoked'[b])) ELSE UNCHANGED <<channel, history>>
      /\ UNCHANGED <<pointer, listed, pull, cache, copy, cycle, cli, faults>>
  BY Kept DEF Revoke
<1>2. /\ revoked' \in Sets /\ revoked'[b] = revoked[b] \cup {v}
      /\ \A a \in Bundles \ {b} : revoked'[a] = revoked[a]
      /\ \A a \in Bundles : revoked[a] \subseteq revoked'[a]
  BY <1>1 DEF FullType, Sets
<1>3. /\ channel' \in Entries /\ history' \in [Bundles -> Seq(History)]
      /\ channel'[b] \notin revoked'[b] /\ \A a \in Bundles \ {b} : channel'[a] = channel[a]
      /\ HistoryInv'
  <2>1. CASE channel[b] = v
    <3> DEFINE w == Fallback(b, v, revoked'[b])
    <3>1. w \in (Versions \ revoked'[b]) \cup {None} /\ Move(b, w)
      BY <1>1, <2>1, FallbackValue
    <3>2. w \in Versions \cup {None} /\ w \notin revoked'[b]
      BY <3>1, <1>2 DEF Sets
    <3> HIDE DEF w
    <3>3. QED
      BY <3>1, <3>2, MoveEffect
  <2>2. CASE channel[b] # v
    BY <1>1, <1>2, <2>2 DEF FullType, HistoryInv, ChannelNotRevoked
  <2>3. QED
    BY <2>1, <2>2
<1>4. FullType'
  BY <1>1, <1>2, <1>3 DEF FullType
<1>5. ChannelNotRevoked'
  BY <1>2, <1>3 DEF ChannelNotRevoked
<1>6. ListInv'
  BY <1>1, <1>2 DEF ListInv
<1>7. OneCycle'
  BY <1>1 DEF OneCycle
<1>8. QED
  BY <1>3, <1>4, <1>5, <1>6, <1>7

LEMMA CommandKeeps ==
  ASSUME IInv, CommandStep
  PROVE  IInv'
<1> USE DEF IInv
<1>1. UNCHANGED <<channel, history, revoked, listed, pull, cache, copy, cycle, faults>>
  BY Kept DEF CommandStep, CommandReads, CommandWrites, bucket
<1>2. cli' \in Commands /\ pointer' \in Entries
  <2>1. CASE CommandReads
    BY <2>1, WriteRecord, Kept DEF CommandReads, FullType
  <2>2. CASE CommandWrites
    BY <2>2, Empties DEF CommandWrites, FullType, Commands, Entries
  <2>3. QED
    BY <2>1, <2>2 DEF CommandStep
<1>3. FullType'
  BY <1>1, <1>2 DEF FullType
<1>4. HistoryInv' /\ ChannelNotRevoked' /\ OneCycle' /\ ListInv'
  BY <1>1 DEF HistoryInv, ChannelNotRevoked, OneCycle, ListInv
<1>5. QED
  BY <1>3, <1>4

\* Only the cycle that holds the lock is about to list, and it read what it lists from
\* the table no earlier than the last list was written.
LEMMA CycleKeeps ==
  ASSUME IInv, NEW c \in Cycles, CycleStep(c)
  PROVE  IInv' /\ \A b \in Bundles : listed[b] \subseteq listed'[b]
<1> USE DEF IInv
<1>1. /\ UNCHANGED <<channel, history, revoked, cli, pull, cache, copy, faults>>
      /\ cycle' \in [Cycles -> Agents] /\ pointer' \in Entries
      /\ \A d \in Cycles \ {c} : cycle'[d] = cycle[d]
      /\ cycle[c].at = "idle" => \A d \in Cycles : cycle[d].at = "idle"
      /\ \/ cycle'[c].at # "list" /\ listed' = listed
         \/ cycle'[c].at = "list" /\ cycle'[c].list = revoked /\ listed' = listed
         \/ cycle[c].at = "list" /\ cycle'[c].at = "idle" /\ listed' = cycle[c].list
  BY CycleEffect
<1>2. listed' \in Sets
  BY <1>1 DEF FullType, Agents
<1>3. FullType'
  BY <1>1, <1>2 DEF FullType
<1>4. OneCycle'
  <2>1. \A d \in Cycles \ {c} : cycle[d].at = "idle"
    BY <1>1 DEF OneCycle
  <2>2. QED
    BY <1>1, <2>1 DEF OneCycle
<1>5. \A d \in Cycles \ {c} : cycle'[d].at # "list"
  BY <1>1 DEF OneCycle
<1>6. ListInv' /\ \A b \in Bundles : listed[b] \subseteq listed'[b]
  BY <1>1, <1>5 DEF ListInv
<1>7. HistoryInv' /\ ChannelNotRevoked'
  BY <1>1 DEF HistoryInv, ChannelNotRevoked
<1>8. QED
  BY <1>3, <1>4, <1>6, <1>7

\* A sync writes lists that were listed, and keeps nothing else.
LEMMA PullKeeps ==
  ASSUME IInv, NEW s \in Syncs, PullStep(s)
  PROVE  IInv' /\ UNCHANGED listed
<1> USE DEF IInv
<1>1. /\ UNCHANGED <<channel, history, revoked, pointer, listed, cycle, cli>>
      /\ pull' \in [Syncs -> Pulls] /\ cache' \in Sets /\ faults' \in 0 .. MaxFaults
      /\ \A d \in Syncs \ {s} : pull'[d] = pull[d]
      /\ pull'[s].list \in {pull[s].list, Nothing, listed}
      /\ copy' \in {copy, pull[s].list}
  BY PullEffect
<1>2. copy' \in Sets
  BY <1>1 DEF FullType, Pulls
<1>3. FullType'
  BY <1>1, <1>2 DEF FullType
<1>4. ASSUME NEW b \in Bundles, NEW d \in Syncs PROVE pull'[d].list[b] \subseteq listed'[b]
  BY <1>1 DEF ListInv, Nothing
<1>5. ASSUME NEW b \in Bundles PROVE copy'[b] \subseteq listed'[b]
  BY <1>1 DEF ListInv
<1>6. ListInv'
  BY <1>1, <1>4, <1>5 DEF ListInv
<1>7. HistoryInv' /\ ChannelNotRevoked' /\ OneCycle'
  BY <1>1 DEF HistoryInv, ChannelNotRevoked, OneCycle
<1>8. QED
  BY <1>1, <1>3, <1>6, <1>7

LEMMA DieKeeps ==
  ASSUME IInv, Die
  PROVE  IInv'
<1> USE DEF IInv
<1>1. /\ faults' \in 0 .. MaxFaults
      /\ UNCHANGED <<channel, history, revoked, pointer, listed, cache, copy>>
  BY Kept DEF Die, FullType
<1>2. /\ cli' \in Commands /\ pull' \in [Syncs -> Pulls]
      /\ \A s \in Syncs : pull'[s].list \in {pull[s].list, Nothing}
  BY Empties DEF Die, FullType
<1>3. /\ cycle' \in [Cycles -> Agents]
      /\ \A c \in Cycles : cycle'[c] = cycle[c] \/ cycle'[c].at = "idle"
  BY Empties DEF Die, FullType
<1>4. FullType'
  BY <1>1, <1>2, <1>3 DEF FullType
<1>5. OneCycle' /\ ListInv'
  BY <1>1, <1>2, <1>3 DEF OneCycle, ListInv, Nothing
<1>6. HistoryInv' /\ ChannelNotRevoked'
  BY <1>1 DEF HistoryInv, ChannelNotRevoked
<1>7. QED
  BY <1>4, <1>5, <1>6

LEMMA StepCases ==
  ASSUME Next
  PROVE  \/ \E b \in Bundles, v \in Versions : Release(b, v)
         \/ \E b \in Bundles, v \in Versions : Revoke(b, v)
         \/ CommandStep
         \/ \E c \in Cycles : CycleStep(c)
         \/ \E s \in Syncs : PullStep(s)
         \/ Die
  BY DEF Next

LEMMA IInvInit == Init => IInv
<1> SUFFICES ASSUME Init PROVE IInv
  OBVIOUS
<1>1. FullType
  <2>1. history \in [Bundles -> Seq(History)]
    BY DEF Init
  <2>2. QED
    BY <2>1, Empties DEF Init, FullType
<1>2. HistoryInv /\ ChannelNotRevoked
  BY DEF Init, HistoryInv, ChannelNotRevoked, Nowhere, Nothing
<1>3. OneCycle /\ ListInv
  BY Empties DEF Init, OneCycle, ListInv, Nothing
<1>4. QED
  BY <1>1, <1>2, <1>3 DEF IInv

LEMMA IInvStep == IInv /\ [Next]_vars => IInv'
<1> SUFFICES ASSUME IInv, [Next]_vars PROVE IInv'
  OBVIOUS
<1>1. CASE Next
  BY <1>1, StepCases, ReleaseKeeps, RevokeKeeps, CommandKeeps, CycleKeeps, PullKeeps, DieKeeps
<1>2. CASE UNCHANGED vars
  <2>1. UNCHANGED <<channel, history, revoked, pointer, listed, cycle, cli, pull, cache, copy, faults>>
    BY <1>2, Kept
  <2>2. FullType' /\ HistoryInv' /\ ChannelNotRevoked'
    BY <2>1 DEF IInv, FullType, HistoryInv, ChannelNotRevoked
  <2>3. OneCycle' /\ ListInv'
    BY <2>1 DEF IInv, OneCycle, ListInv
  <2>4. QED
    BY <2>2, <2>3 DEF IInv
<1>3. QED
  BY <1>1, <1>2

\* The inductive invariant holds of every behaviour.
THEOREM ReleaseInvariant == ReleaseSpec => []IInv
<1>1. QED
  BY IInvInit, IInvStep, PTL DEF ReleaseSpec

-----------------------------------------------------------------------------
(* The theorems. *)

\* Every variable has its type, and the history of a bundle is a chain.
THEOREM ReleaseTypeCorrect == ReleaseSpec => []ReleaseTypeOK
<1>1. IInv => ReleaseTypeOK
  <2> SUFFICES ASSUME IInv PROVE ReleaseTypeOK
    OBVIOUS
  <2> USE DEF IInv
  <2>1. ASSUME NEW b \in Bundles, NEW n \in DOMAIN history[b]
        PROVE  /\ history[b][n].from \in Versions \cup {None}
               /\ history[b][n].to \in Versions \cup {None}
               /\ n > 1 => history[b][n].from = history[b][n - 1].to
    <3>1. history[b] \in Seq(History) /\ n \in 1 .. Len(history[b]) /\ history[b][n] \in History
      BY DEF FullType
    <3>2. QED
      BY <3>1 DEF History, HistoryInv
  <2>2. \A c \in Cycles : cycle[c].at \in {"idle", "table", "rows", "publish", "remove", "revocations", "list"}
    BY DEF FullType, Agents
  <2>3. cli.at \in {"idle", "read", "write"}
    BY DEF FullType, Commands
  <2>4. \A s \in Syncs : pull[s].at \in {"idle", "bundles", "admit", "list"}
    BY DEF FullType, Pulls
  <2>5. QED
    BY <2>1, <2>2, <2>3, <2>4 DEF FullType, ReleaseTypeOK
<1>2. QED
  BY ReleaseInvariant, <1>1, PTL

\* Whatever was released and revoked, in whatever order, no channel is at a revoked version.
THEOREM ChannelsAreValid == ReleaseSpec => []ChannelNotRevoked
<1>1. IInv => ChannelNotRevoked
  BY DEF IInv
<1>2. QED
  BY ReleaseInvariant, <1>1, PTL

\* The bucket never forgets a revocation, however cycles overlap and die.
THEOREM RevocationsStay == ReleaseSpec => RevocationsOnlyGrow
<1>1. IInv /\ [Next]_vars => [\A b \in Bundles : listed[b] \subseteq listed'[b]]_vars
  <2> SUFFICES ASSUME IInv, Next
               PROVE  \A b \in Bundles : listed[b] \subseteq listed'[b]
    OBVIOUS
  <2>1. CASE \E c \in Cycles : CycleStep(c)
    BY <2>1, CycleKeeps
  <2>2. CASE \E s \in Syncs : PullStep(s)
    BY <2>2, PullKeeps
  <2>3. CASE \/ \E b \in Bundles, v \in Versions : Release(b, v)
             \/ \E b \in Bundles, v \in Versions : Revoke(b, v)
             \/ CommandStep \/ Die
    <3>1. UNCHANGED listed
      BY <2>3, Kept DEF Release, Revoke, CommandStep, CommandReads, CommandWrites, Die
    <3>2. QED
      BY <3>1
  <2>4. QED
    BY <2>1, <2>2, <2>3, StepCases
<1>2. QED
  BY ReleaseInvariant, <1>1, PTL DEF ReleaseSpec, RevocationsOnlyGrow
================================================================================
