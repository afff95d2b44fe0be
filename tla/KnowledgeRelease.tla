--------------------------- MODULE KnowledgeRelease ---------------------------
(* A publisher releases and revokes versions of knowledge bundles in the       *)
(* service's database. The collector's cycle copies the channel table to the   *)
(* bucket as a signed pointer, and the revocation table as a signed list;      *)
(* publish-channel releases a version and writes the pointer itself. A device  *)
(* pulls what the pointer names into its cache and keeps a copy of the list,   *)
(* and a new run selects the newest cached version that is not on the copy.    *)
(* One channel and one device: channels are separate rows and objects, and      *)
(* devices only read the bucket. The device's agent and the same command run   *)
(* by hand are two syncs that may overlap on its files, with no lock.          *)
EXTENDS Naturals, FiniteSets, FiniteSetsExt, SequencesExt

CONSTANTS
    Bundles,      \* bundle ids
    Versions,     \* uploaded, immutable versions of each
    Cycles,       \* collector agents
    Syncs,        \* device-sync processes of the device
    MaxHistory,   \* bound on the history rows a release may follow
    MaxRevoked,   \* bound on the revoked versions
    MaxFaults     \* bound on processes that die

None == 0   \* no version: no channel row, no pointer entry, the built-in baseline

ASSUME ReleaseAssumption ==
    /\ Versions \subseteq Nat \ {None}
    /\ MaxHistory \in Nat /\ MaxRevoked \in Nat /\ MaxFaults \in Nat

VARIABLES
    channel,   \* the service's channel row of each bundle
    history,   \* its channel_history rows
    revoked,   \* the revocations of each bundle
    pointer,   \* the entries of the bucket's signed channel pointer
    listed,    \* the bucket's signed revocation list
    cycle,     \* each collector agent
    cli,       \* the publish-channel command
    pull,      \* each device-sync
    cache,     \* the index of the device's cache: the versions of each bundle
    copy,      \* the device's copy of the revocation list
    faults

service == <<channel, history, revoked>>
bucket  == <<pointer, listed>>
device  == <<pull, cache, copy>>
vars    == <<service, bucket, cycle, cli, device, faults>>

-------------------------------------------------------------------------------
Entries  == [Bundles -> Versions \cup {None}]
Sets     == [Bundles -> SUBSET Versions]
Nowhere  == [b \in Bundles |-> None]
Nothing  == [b \in Bundles |-> {}]

NoCycle     == [at |-> "idle", rows |-> Nowhere, known |-> Nowhere, read |-> Nowhere, bundle |-> {}, list |-> Nothing]
NoCommand   == [at |-> "idle", bundle |-> {}, version |-> None, read |-> Nowhere]
NoPull      == [at |-> "idle", names |-> Nowhere, bundle |-> {}, index |-> Nothing, list |-> Nothing]

Init ==
    /\ channel = Nowhere /\ history = [b \in Bundles |-> <<>>] /\ revoked = Nothing
    /\ pointer = Nowhere /\ listed = Nothing
    /\ cycle = [c \in Cycles |-> NoCycle] /\ cli = NoCommand
    /\ pull = [s \in Syncs |-> NoPull] /\ cache = Nothing /\ copy = Nothing
    /\ faults = 0

-------------------------------------------------------------------------------
(* The service.                                                                *)

(* The versions v replaced in the channel, the latest first.                   *)
Replaced(b, v) ==
    [n \in DOMAIN SelectSeq(history[b], LAMBDA h : h.to = v) |->
        Reverse(SelectSeq(history[b], LAMBDA h : h.to = v))[n].from]

(* Mutant of Fallback: the version before, revoked or not.                     *)
LastReplaced(b, v, gone) == Replaced(b, v)[1]

(* The version w replaced last, if it was ever released.                       *)
Before(b, w) == IF Replaced(b, w) = <<>> THEN None ELSE Replaced(b, w)[1]

(* From w back, row by row and only over versions that are gone, to end.       *)
WalksTo(b, w, end, gone) ==
    \E n \in 1 .. Cardinality(gone) + 1 : \E walk \in [1 .. n -> gone \cup {end}] :
        /\ walk[1] = w /\ walk[n] = end
        /\ \A i \in 1 .. n - 1 : walk[i] \in gone /\ walk[i + 1] = Before(b, walk[i])

(* revoke_bundle: where the walk from a version v replaced ends at one that is  *)
(* valid, taking the latest row whose walk does; a walk meets no version twice. *)
Fallback(b, v, gone) ==
    LET ends(n) == {w \in Versions \ gone : WalksTo(b, Replaced(b, v)[n], w, gone)}
        latest  == {n \in DOMAIN Replaced(b, v) : \A m \in 1 .. n - 1 : ends(m) = {}}
        found   == UNION {ends(n) : n \in latest}
    IN  IF found = {} THEN None ELSE CHOOSE w \in found : TRUE

(* Mutant of Move: the version before is read when the row has moved.          *)
MoveThenRead(b, v) ==
    /\ channel' = [channel EXCEPT ![b] = v]
    /\ history' = [history EXCEPT ![b] = Append(@, [from |-> v, to |-> v])]

(* The channel row moves, with a history row, in one transaction.              *)
Move(b, v) ==
    /\ channel' = [channel EXCEPT ![b] = v]
    /\ history' = [history EXCEPT ![b] = Append(@, [from |-> channel[b], to |-> v])]

(* service.release, through the API or as the first write of publish-channel.  *)
(* Which rules are eligible is left to the publisher's choice.                 *)
Release(b, v) ==
    /\ v \notin revoked[b] /\ MapThenSumSet(LAMBDA a : Len(history[a]), Bundles) < MaxHistory
    /\ Move(b, v)
    /\ UNCHANGED <<revoked, bucket, device, cycle, faults>>
    /\ \/ UNCHANGED cli
       \/ cli.at = "idle" /\ cli' = [NoCommand EXCEPT !.at = "read", !.bundle = {b}, !.version = v]

(* Every channel row at the version falls back in the same transaction.        *)
Revoke(b, v) ==
    /\ v \notin revoked[b] /\ MapThenSumSet(LAMBDA a : Cardinality(revoked[a]), Bundles) < MaxRevoked
    /\ revoked' = [revoked EXCEPT ![b] = @ \cup {v}]
    /\ IF channel[b] = v THEN Move(b, Fallback(b, v, revoked'[b])) ELSE UNCHANGED <<channel, history>>
    /\ UNCHANGED <<bucket, device, cycle, cli, faults>>

-------------------------------------------------------------------------------
(* The bucket's writers. Publish is read-modify-write of one object, and the   *)
(* command takes no lock.                                                      *)
CommandReads ==
    /\ cli.at = "read"
    /\ cli' = [cli EXCEPT !.at = "write", !.read = pointer]
    /\ UNCHANGED <<service, bucket, device, cycle, faults>>

CommandWrites ==
    /\ cli.at = "write"
    /\ pointer' = [b \in Bundles |-> IF b \in cli.bundle THEN cli.version ELSE cli.read[b]]
    /\ cli' = NoCommand
    /\ UNCHANGED <<service, listed, device, cycle, faults>>

Cycle(c, at, r) ==
    /\ cycle[c].at = at
    /\ cycle' = [cycle EXCEPT ![c] = r]
    /\ UNCHANGED <<service, cli, device, faults>>

(* Mutant of MayStart: the cycle takes no lock.                                *)
StartAnyway(c) == cycle[c].at = "idle"

(* run_cycle: LOCK_EX | LOCK_NB, or SKIPPED_OVERLAP.                           *)
MayStart(c) == \A d \in Cycles : cycle[d].at = "idle"

(* sync_channels reads the channel table once,                                 *)
BeginCycle(c) ==
    /\ MayStart(c)
    /\ Cycle(c, "idle", [NoCycle EXCEPT !.at = "table", !.rows = channel])
    /\ UNCHANGED bucket

(* then the pointer, when there is a row to compare with it.                   *)
PointerRead(c) ==
    /\ Cycle(c, "table", [cycle[c] EXCEPT !.at = "rows",
                            !.known = IF cycle[c].rows = Nowhere THEN Nowhere ELSE pointer])
    /\ UNCHANGED bucket

Differs(c, b) == cycle[c].rows[b] # None /\ cycle[c].known[b] # cycle[c].rows[b]

PublishReads(c, b) ==
    /\ Differs(c, b)
    /\ Cycle(c, "rows", [cycle[c] EXCEPT !.at = "publish", !.bundle = {b}, !.read = pointer])
    /\ UNCHANGED bucket

PublishWrites(c) ==
    LET now == [b \in Bundles |-> IF b \in cycle[c].bundle THEN cycle[c].rows[b] ELSE cycle[c].read[b]]
    IN  /\ Cycle(c, "publish", [cycle[c] EXCEPT !.at = "rows", !.known = now,
                                                !.bundle = {}, !.read = Nowhere])
        /\ pointer' = now
        /\ UNCHANGED listed

(* Mutant of Left: entries that left the table stay in the pointer.            *)
LeftInPlace(c, read) == {}

(* The entries of the pointer the table has no row for.                        *)
Left(c, read) == {b \in Bundles : read[b] # None /\ cycle[c].rows[b] = None}

RemovalReads(c) ==
    /\ \A b \in Bundles : ~Differs(c, b)
    /\ Cycle(c, "rows", IF Left(c, pointer) = {} THEN [NoCycle EXCEPT !.at = "revocations"]
                        ELSE [cycle[c] EXCEPT !.at = "remove", !.known = Nowhere, !.read = pointer])
    /\ UNCHANGED bucket

RemovalWrites(c) ==
    /\ Cycle(c, "remove", [NoCycle EXCEPT !.at = "revocations"])
    /\ pointer' = [b \in Bundles |-> IF b \in Left(c, cycle[c].read) THEN None ELSE cycle[c].read[b]]
    /\ UNCHANGED listed

(* sync_revocations: the table is read, and the list written when it differs.  *)
RevocationsRead(c) ==
    /\ Cycle(c, "revocations", [cycle[c] EXCEPT !.at = "list", !.list = revoked])
    /\ UNCHANGED bucket

RevocationsWritten(c) ==
    /\ Cycle(c, "list", NoCycle)
    /\ listed' = cycle[c].list
    /\ UNCHANGED pointer

-------------------------------------------------------------------------------
(* The device.                                                                 *)

Pull(s, at, r) ==
    /\ pull[s].at = at
    /\ pull' = [pull EXCEPT ![s] = r]
    /\ UNCHANGED <<service, bucket, cycle, cli>>

(* fetch_into_cache reads the pointer once,                                    *)
PullPointer(s) ==
    /\ Pull(s, "idle", [NoPull EXCEPT !.at = "bundles", !.names = pointer])
    /\ UNCHANGED <<cache, copy, faults>>

(* Mutant of AdmitReads: a cache that has an index is not fetched into again.  *)
AdmitReadsOnce(s, b) ==
    /\ pull[s].names[b] # None
    /\ Pull(s, "bundles", IF cache # Nothing THEN [pull[s] EXCEPT !.names[b] = None]
                          ELSE [pull[s] EXCEPT !.at = "admit", !.bundle = {b}, !.index = cache])
    /\ UNCHANGED <<cache, copy, faults>>

(* and admits what it names one after the other: a version that is in the      *)
(* index stays there,                                                          *)
AdmitReads(s, b) ==
    LET v == pull[s].names[b]
    IN  /\ v # None
        /\ Pull(s, "bundles", IF v \in cache[b] THEN [pull[s] EXCEPT !.names[b] = None]
                              ELSE [pull[s] EXCEPT !.at = "admit", !.bundle = {b}, !.index = cache])
        /\ UNCHANGED <<cache, copy, faults>>

(* The index as it was read, with the new entry.                               *)
Admitted(s, b) == pull[s].index[b] \cup (IF b \in pull[s].bundle THEN {pull[s].names[b]} ELSE {})

(* another is appended to the index as it was read before the download.        *)
AdmitWrites(s) ==
    /\ Pull(s, "admit", [pull[s] EXCEPT !.at = "bundles", !.bundle = {}, !.index = Nothing,
            !.names = [b \in Bundles |-> IF b \in pull[s].bundle THEN None ELSE pull[s].names[b]]])
    /\ cache' = [b \in Bundles |-> Admitted(s, b)]
    /\ UNCHANGED <<copy, faults>>

(* A failed download is passed over.                                           *)
FetchFails(s, b) ==
    /\ faults < MaxFaults /\ faults' = faults + 1
    /\ pull[s].names[b] # None
    /\ Pull(s, "bundles", [pull[s] EXCEPT !.names[b] = None])
    /\ UNCHANGED <<cache, copy>>

(* Mutant of ListReads: a copy that is there is not replaced.                  *)
ListReadsOnce(s) ==
    /\ pull[s].names = Nowhere
    /\ Pull(s, "bundles", IF listed = Nothing \/ copy # Nothing THEN NoPull
                          ELSE [pull[s] EXCEPT !.at = "list", !.list = listed])
    /\ UNCHANGED <<cache, copy, faults>>

(* Then the revocation list, if there is one, takes the place of the copy.     *)
ListReads(s) ==
    /\ pull[s].names = Nowhere
    /\ Pull(s, "bundles", IF listed = Nothing THEN NoPull
                          ELSE [pull[s] EXCEPT !.at = "list", !.list = listed])
    /\ UNCHANGED <<cache, copy, faults>>

ListWrites(s) ==
    /\ Pull(s, "list", NoPull)
    /\ copy' = pull[s].list
    /\ UNCHANGED <<cache, faults>>

(* resolve_local: the newest cached version that is not known to be revoked.   *)
Selected(b) == Max({None} \cup (cache[b] \ copy[b]))

-------------------------------------------------------------------------------
(* Any process may die between two of its steps.                               *)
Die ==
    /\ faults < MaxFaults
    /\ faults' = faults + 1
    /\ \/ /\ cli # NoCommand
          /\ cli' = NoCommand
          /\ UNCHANGED <<cycle, pull>>
       \/ \E c \in Cycles :
            /\ cycle[c] # NoCycle
            /\ cycle' = [cycle EXCEPT ![c] = NoCycle]
            /\ UNCHANGED <<cli, pull>>
       \/ \E s \in Syncs :
            /\ pull[s] # NoPull
            /\ pull' = [pull EXCEPT ![s] = NoPull]
            /\ UNCHANGED <<cli, cycle>>
    /\ UNCHANGED <<service, bucket, cache, copy>>

CycleStep(c) ==
    \/ BeginCycle(c)
    \/ PointerRead(c)
    \/ \E b \in Bundles : PublishReads(c, b)
    \/ PublishWrites(c)
    \/ RemovalReads(c)
    \/ RemovalWrites(c)
    \/ RevocationsRead(c)
    \/ RevocationsWritten(c)

CommandStep == CommandReads \/ CommandWrites

(* A sync that has begun.                                                      *)
PullGoesOn(s) ==
    \/ \E b \in Bundles : AdmitReads(s, b)
    \/ AdmitWrites(s)
    \/ ListReads(s)
    \/ ListWrites(s)

PullStep(s) == PullPointer(s) \/ PullGoesOn(s) \/ \E b \in Bundles : FetchFails(s, b)

Next ==
    \/ \E b \in Bundles, v \in Versions : Release(b, v) \/ Revoke(b, v)
    \/ CommandStep
    \/ \E c \in Cycles : CycleStep(c)
    \/ \E s \in Syncs : PullStep(s)
    \/ Die

(* The collector and the device sync are launchd jobs that run again at every  *)
(* interval, and a process that was started goes on. Nothing makes a publisher *)
(* act, or anyone run a sync by hand.                                          *)
Fairness ==
    /\ WF_vars(\E c \in Cycles : CycleStep(c))
    /\ WF_vars(CommandStep)
    /\ WF_vars(\E s \in Syncs : PullPointer(s))
    /\ \A s \in Syncs : WF_vars(PullGoesOn(s))

ReleaseSpec == Init /\ [][Next]_vars /\ Fairness

-------------------------------------------------------------------------------
(* Properties.                                                                 *)

(* Every variable has its type.                                                *)
ReleaseTypeOK ==
    /\ channel \in Entries /\ pointer \in Entries
    /\ revoked \in Sets /\ listed \in Sets /\ cache \in Sets /\ copy \in Sets
    /\ \A b \in Bundles : \A n \in DOMAIN history[b] :
         /\ history[b][n].from \in Versions \cup {None}
         /\ history[b][n].to \in Versions \cup {None}
         /\ n > 1 => history[b][n].from = history[b][n - 1].to
    /\ \A c \in Cycles : cycle[c].at \in {"idle", "table", "rows", "publish", "remove", "revocations", "list"}
    /\ cli.at \in {"idle", "read", "write"}
    /\ \A s \in Syncs : pull[s].at \in {"idle", "bundles", "admit", "list"}
    /\ faults \in 0 .. MaxFaults

(* Whatever was released and revoked before, in whatever order, no channel row *)
(* is at a revoked version (revoke_bundle's walk over the history).            *)
ChannelNotRevoked == \A b \in Bundles : channel[b] \notin revoked[b]

(* Revoking a version moves the channel back to an earlier one that is still   *)
(* valid (service.py:20-22): the row goes only when none is left.              *)
FallsBackToValid ==
    \A b \in Bundles : channel[b] = None =>
        \A n \in DOMAIN history[b] : history[b][n].to \in revoked[b] \cup {None}

(* A revocation that was published is never unpublished in the bucket, however *)
(* cycles of several agents overlap and die (the cycle's flock).               *)
RevocationsOnlyGrow == [][\A b \in Bundles : listed[b] \subseteq listed'[b]]_vars

(* A revoked digest the device has learned of is never selected again          *)
(* (DEPLOYMENT_OPERATIONS.md:109, sync_revocations).                           *)
RevokedStaysUnselected == [][\A b \in Bundles : Selected(b)' \notin copy[b]]_vars

(* Once the publisher rests, the pointer devices read comes to agree with the  *)
(* channel table for good, whatever updates of it were lost, overwritten or    *)
(* left half done on the way (sync_channels, publish-channel).                 *)
BucketFollows == <>[][UNCHANGED channel]_channel => <>[](pointer = channel)

(* Every revocation reaches the device: from some time on, what a new run      *)
(* selects is not revoked, whatever is still in its cache.                     *)
RevokedLeavesDevice == <>[](\A b \in Bundles : Selected(b) \notin revoked[b])

(* Once the publisher rests, the version of each channel row comes to the      *)
(* device's cache for good, although overlapping syncs write back indexes that *)
(* lack what the other one admitted (fetch_into_cache, BundleCache.admit).     *)
DeviceFollows ==
    <>[][UNCHANGED channel]_channel =>
        <>[](\A b \in Bundles : channel[b] # None => channel[b] \in cache[b])

(* A version is also rolled back by pointing the channel at the old one        *)
(* (DEPLOYMENT_OPERATIONS.md:206): new runs come to select it.                 *)
PointingBackRollsBack ==
    <>[][UNCHANGED channel]_channel =>
        <>[](\A b \in Bundles : channel[b] # None => Selected(b) = channel[b])
===============================================================================
