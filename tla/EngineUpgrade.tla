---------------------------- MODULE EngineUpgrade ----------------------------
(* The engine of a host is a symlink to a release directory, its Python        *)
(* environment another symlink. An upgrade switches both and records what it    *)
(* did in three files; runs, heartbeats and the discovery of new releases go    *)
(* on beside it, and any process may die between two writes.                    *)
EXTENDS Naturals, FiniteSets

CONSTANTS Releases,      \* release sequence numbers
          First,         \* the release of the first installation
          NeedsVenv,     \* releases with dependencies_changed
          NeedsPackage,  \* releases of class TALENTHUB_PACKAGE_REQUIRED
          Runs,          \* production runs and heartbeats
          MaxDeaths,     \* bound on deaths of the process that holds the barrier
          None

ASSUME UpgradeAssumption ==
    /\ Releases \subseteq Nat \ {0}
    /\ First \in Releases
    /\ NeedsVenv \subseteq NeedsPackage    \* a dependency change needs the package
    /\ NeedsPackage \subseteq Releases
    /\ MaxDeaths \in Nat
    /\ None \notin Releases

VARIABLES
    engine, venv,    \* the two selectors
    dirs, venvs,     \* release directories and environments on disk
    current,         \* current-release.json
    receipts,        \* upgrade receipts on disk
    trusted,         \* trusted_state.json of the discovery
    journal,         \* the PREPARED journal, or None
    package,         \* the release of the installed TalentHub package
    published,       \* signed stable indexes the network may answer with
    pc, mode,        \* the process that holds the barrier exclusively: where it
    job, left,       \*   is and why, its transaction, what it has yet to undo
    run, code,       \* production runs and the release their code was loaded from
    seen,            \* what a discovery in progress has read, or None
    deaths

selectors == <<engine, venv>>
folders   == <<dirs, venvs>>
records   == <<current, receipts>>
barrier   == <<pc, mode, job, left>>
runs      == <<run, code>>
world     == <<package, published>>
vars      == <<selectors, folders, records, trusted, journal, barrier, runs, seen,
               world, deaths>>

-------------------------------------------------------------------------------
(* Places and orders                                                           *)

(* At place s the upgrade is about to do s; "commit" clears the journal.       *)
DoRank == [candidate |-> 1, venvdir |-> 2, journal |-> 3, venv |-> 4, engine |-> 5,
           receipt |-> 6, current |-> 7, discovery |-> 8, commit |-> 9]
Forward  == DOMAIN DoRank
Undoable == Forward \ {"commit"}

(* recover() and the rollback of an upgrade that raised undo the same things,  *)
(* in orders that differ in one place.                                         *)
RecoverRank  == [engine |-> 1, venv |-> 2, current |-> 3, discovery |-> 4,
                 receipt |-> 5, candidate |-> 6, venvdir |-> 7, journal |-> 8]
RollbackRank == [engine |-> 1, venv |-> 2, discovery |-> 3, current |-> 4,
                 receipt |-> 5, candidate |-> 6, venvdir |-> 7, journal |-> 8]

(* Mutants of UndoRank: the journal goes before what it names is undone, and the *)
(* new release before the selector has left it.                                *)
JournalFirst   == [RecoverRank EXCEPT !.journal = 0]
CandidateFirst == [RecoverRank EXCEPT !.candidate = 0]

UndoRank == IF mode = "rollback" THEN RollbackRank ELSE RecoverRank

(* Mutant of PartsOf: the environment is not put back.                         *)
PartsOfEngine(r) == Undoable \ {"venv", "venvdir"}

(* Parts of an upgrade to r: without dependency changes the environment stays. *)
PartsOf(r) == IF r \in NeedsVenv THEN Undoable ELSE Undoable \ {"venv", "venvdir"}

(* What an upgrade to r has done when it raises at place p: the booleans       *)
(* switched, venv_switched, receipt_written ... of the code.                   *)
DoneBefore(p, r) == {s \in PartsOf(r) : DoRank[s] < DoRank[p]}

Later(a, b) == IF a > b THEN a ELSE b
Running == {p \in Runs : run[p] = "running"}
NoExclusive == pc = "free"
NewVenv(r)  == IF r \in NeedsVenv THEN r ELSE venv

(* What recover() insists on before it touches anything.                       *)
Recoverable(j) ==
    /\ engine \in {j.engine, j.new} \cap dirs
    /\ j.new \in NeedsVenv => venv \in {j.venv, j.new} \cap venvs

-------------------------------------------------------------------------------
Init ==
    /\ engine = First /\ venv = First
    /\ dirs = {First} /\ venvs = {First}
    /\ current = [engine |-> First, venv |-> First, package |-> First]
    /\ receipts = {}
    /\ trusted = None
    /\ journal = None
    /\ package = First
    /\ published = {First}
    /\ pc = "free" /\ mode = None /\ job = None /\ left = {}
    /\ run = [p \in Runs |-> "idle"] /\ code = [p \in Runs |-> First]
    /\ seen = None
    /\ deaths = 0

-------------------------------------------------------------------------------
(* Recovery: recover(), called by an upgrade and by a run that finds a journal *)

TakeBarrier(m) ==
    /\ NoExclusive /\ Running = {}
    /\ journal # None => Recoverable(journal)
    /\ mode' = m
    /\ job' = journal
    /\ pc' = "undo"
    /\ left' = IF journal = None THEN {} ELSE PartsOf(journal.new)

(* upgrade_engine: flock(LOCK_EX | LOCK_NB), recover, then the checks.         *)
BeginUpgrade ==
    /\ TakeBarrier("upgrade")
    /\ UNCHANGED <<selectors, folders, records, trusted, journal, runs, seen, world, deaths>>

(* _production_barrier: the run gives its shared lock back and recovers.       *)
BeginRecovery(p) ==
    /\ run[p] = "loaded"
    /\ journal # None
    /\ TakeBarrier("run")
    /\ run' = [run EXCEPT ![p] = "recovering"]
    /\ UNCHANGED <<selectors, folders, records, trusted, journal, code, seen, world, deaths>>

(* One step of recover() or of the rollback.                                   *)
Undo(s) ==
    /\ pc = "undo"
    /\ s \in left
    /\ \A t \in left : UndoRank[s] <= UndoRank[t]
    /\ left' = left \ {s}
    /\ engine'   = IF s = "engine" THEN job.engine ELSE engine
    /\ venv'     = IF s = "venv" THEN job.venv ELSE venv
    /\ current'  = IF s = "current" THEN job.current ELSE current
    /\ trusted'  = IF s = "discovery" THEN job.trusted ELSE trusted
    /\ receipts' = IF s = "receipt" THEN receipts \ {job.new} ELSE receipts
    /\ dirs'     = IF s = "candidate" THEN dirs \ {job.new} ELSE dirs
    /\ venvs'    = IF s = "venvdir" THEN venvs \ {job.new} ELSE venvs
    /\ journal'  = IF s = "journal" THEN None ELSE journal
    /\ UNCHANGED <<pc, mode, job, runs, seen, world, deaths>>

(* A run that has recovered, or died over it.                                   *)
AfterRecovery(place) == run' = [p \in Runs |-> IF run[p] = "recovering" THEN place ELSE run[p]]

(* Everything is undone: an upgrade goes on with its checks, a run starts its   *)
(* own checks again.                                                           *)
Undone ==
    /\ pc = "undo" /\ left = {}
    /\ pc' = IF mode = "upgrade" THEN "check" ELSE "free"
    /\ mode' = IF mode = "upgrade" THEN mode ELSE None
    /\ job' = None
    /\ AfterRecovery("loaded")
    /\ UNCHANGED <<selectors, folders, records, trusted, journal, left, code, seen, world, deaths>>

Free == pc' = "free" /\ mode' = None /\ job' = None /\ left' = {}

(* The holder of the barrier is killed, or its rollback fails.                 *)
Die ==
    /\ ~NoExclusive
    /\ deaths < MaxDeaths /\ deaths' = deaths + 1
    /\ Free
    /\ AfterRecovery("idle")
    /\ UNCHANGED <<selectors, folders, records, trusted, journal, code, seen, world>>

-------------------------------------------------------------------------------
(* The upgrade itself                                                          *)

(* Mutant of Authorized: without a discovery nothing is compared.              *)
AuthorizedUnlessFound(r) ==
    /\ current.engine = engine
    /\ r > engine
    /\ trusted # None =>
         trusted = [status |-> "AVAILABLE", engine |-> engine, baseline |-> engine, release |-> r]

(* _trusted_upgrade_authority: the discovery must have bound this release to   *)
(* the engine, the package and the sequence that are installed.                *)
Authorized(r) ==
    /\ current.engine = engine
    /\ r > engine
    /\ trusted # None
    /\ trusted = [status |-> "AVAILABLE", engine |-> engine, baseline |-> engine, release |-> r]

Start(r) ==
    /\ pc = "check"
    /\ Authorized(r)
    /\ r \in NeedsPackage => package = r
    /\ r \notin dirs                           \* RELEASE_DIRECTORY_ALREADY_EXISTS
    /\ r \in NeedsVenv => r \notin venvs        \* NEW_VENV_PATH_ALREADY_EXISTS
    /\ job' = [new |-> r, engine |-> engine, venv |-> venv,
               current |-> current, trusted |-> trusted]
    /\ pc' = "candidate"
    /\ UNCHANGED <<selectors, folders, records, trusted, journal, mode, left, runs, seen,
                   world, deaths>>

(* No authority, an episode that is not at a safe stop, nothing newer.         *)
RefuseUpgrade ==
    /\ pc = "check"
    /\ Free
    /\ UNCHANGED <<selectors, folders, records, trusted, journal, runs, seen, world, deaths>>

Forwards(from, to) ==
    /\ pc = from /\ pc' = to
    /\ UNCHANGED <<mode, job, left, runs, seen, world, deaths>>

(* Extraction and wiring in a staging directory, os.replace to its name.       *)
StageCandidate ==
    /\ Forwards("candidate", "venvdir")
    /\ dirs' = dirs \cup {job.new}
    /\ UNCHANGED <<selectors, venvs, records, trusted, journal>>

InstallVenv ==
    /\ Forwards("venvdir", "journal")
    /\ venvs' = IF job.new \in NeedsVenv THEN venvs \cup {job.new} ELSE venvs
    /\ UNCHANGED <<selectors, dirs, records, trusted, journal>>

(* Seal, preflight, write_prepared.                                            *)
WritePrepared ==
    /\ Forwards("journal", "venv")
    /\ journal = None
    /\ journal' = job
    /\ UNCHANGED <<selectors, folders, records, trusted>>

SwitchVenv ==
    /\ Forwards("venv", "engine")
    /\ venv' = NewVenv(job.new)
    /\ UNCHANGED <<engine, folders, records, trusted, journal>>

SwitchEngine ==
    /\ Forwards("engine", "receipt")
    /\ engine' = job.new
    /\ UNCHANGED <<venv, folders, records, trusted, journal>>

WriteReceipt ==
    /\ Forwards("receipt", "current")
    /\ receipts' = receipts \cup {job.new}
    /\ UNCHANGED <<selectors, folders, current, trusted, journal>>

WriteCurrent ==
    /\ Forwards("current", "discovery")
    /\ current' = [engine |-> job.new, venv |-> venv,
                   package |-> IF job.new \in NeedsPackage THEN job.new
                               ELSE job.current.package]
    /\ UNCHANGED <<selectors, folders, receipts, trusted, journal>>

(* The discovery's state is rewritten from what was read at the start.         *)
WriteApplied ==
    /\ Forwards("discovery", "commit")
    /\ trusted' = [status |-> "APPLIED", engine |-> job.new, baseline |-> job.new,
                   release |-> job.trusted.release]
    /\ UNCHANGED <<selectors, folders, records, journal>>

Commit ==
    /\ pc = "commit"
    /\ journal' = None
    /\ Free
    /\ UNCHANGED <<selectors, folders, records, trusted, runs, seen, world, deaths>>

(* An operation raises before it takes effect; the handler undoes the others.  *)
Raise ==
    /\ pc \in Forward
    /\ pc' = "undo" /\ mode' = "rollback"
    /\ left' = DoneBefore(pc, job.new)
    /\ UNCHANGED <<selectors, folders, records, trusted, journal, job, runs, seen, world, deaths>>

Holder ==
    \/ \E s \in Undoable : Undo(s)
    \/ Undone
    \/ \E r \in Releases : Start(r)
    \/ RefuseUpgrade
    \/ StageCandidate \/ InstallVenv \/ WritePrepared \/ SwitchVenv \/ SwitchEngine
    \/ WriteReceipt \/ WriteCurrent \/ WriteApplied \/ Commit
    \/ Raise

-------------------------------------------------------------------------------
(* Production runs and heartbeats                                              *)

(* A process starts from the engine link and keeps the code it has loaded.     *)
Load(p) ==
    /\ run[p] = "idle"
    /\ run' = [run EXCEPT ![p] = "loaded"]
    /\ code' = [code EXCEPT ![p] = engine]
    /\ UNCHANGED <<selectors, folders, records, trusted, journal, barrier, seen, world, deaths>>

(* Mutant of MayRun: the engine is not looked at again under the lock.         *)
MayRunAsLoaded(p) == NoExclusive /\ journal = None

(* Shared lock, no journal, and the engine is still the one it was loaded from. *)
(* The last is checked where NALU_ENGINE_ROOT is set, as an installed host's    *)
(* commands have it; other processes are not production runs here.              *)
MayRun(p) == NoExclusive /\ journal = None /\ code[p] = engine

Enter(p) ==
    /\ run[p] = "loaded"
    /\ MayRun(p)
    /\ run' = [run EXCEPT ![p] = "running"]
    /\ UNCHANGED <<selectors, folders, records, trusted, journal, barrier, code, seen, world, deaths>>

(* BLOCKED: the barrier is held, the engine has changed, or there is a journal  *)
(* that cannot be recovered, or not now because another run has just looked.    *)
Block(p) ==
    /\ run[p] = "loaded"
    /\ ~MayRun(p)
    /\ NoExclusive /\ journal # None =>
         ~Recoverable(journal) \/ \E q \in Runs \ {p} : run[q] = "loaded"
    /\ run' = [run EXCEPT ![p] = "idle"]
    /\ UNCHANGED <<selectors, folders, records, trusted, journal, barrier, code, seen, world, deaths>>

(* The run ends, or is killed: the kernel drops its shared lock.               *)
EndRun(p) ==
    /\ run[p] = "running"
    /\ run' = [run EXCEPT ![p] = "idle"]
    /\ UNCHANGED <<selectors, folders, records, trusted, journal, barrier, code, seen, world, deaths>>

-------------------------------------------------------------------------------
(* Discovery: it has a lock of its own and does not take the barrier           *)

(* The release the installed engine is bound to: that of the package, or the   *)
(* one the trusted state says was applied.                                     *)
InstalledBound ==
    \/ engine = package
    \/ trusted # None /\ trusted.status = "APPLIED" /\ trusted.release = engine

(* Mutant of BeginDiscovery: the baseline is the installed release alone.      *)
BeginDiscoveryFromEngine ==
    /\ seen = None
    /\ current.engine = engine /\ current.package = package
    /\ InstalledBound
    /\ seen' = [engine |-> engine, baseline |-> engine]
    /\ UNCHANGED <<selectors, folders, records, trusted, journal, barrier, runs, world, deaths>>

BeginDiscovery ==
    /\ seen = None
    /\ current.engine = engine /\ current.package = package
    /\ InstalledBound
    /\ seen' = [engine |-> engine,
                baseline |-> IF trusted = None THEN engine ELSE Later(engine, trusted.release)]
    /\ UNCHANGED <<selectors, folders, records, trusted, journal, barrier, runs, world, deaths>>

(* An index older than the baseline is a rollback and is refused.              *)
RecordTrusted(r) ==
    /\ seen # None
    /\ r >= seen.baseline
    /\ trusted' = [status |-> IF r = seen.engine THEN "CURRENT" ELSE "AVAILABLE",
                   engine |-> seen.engine, baseline |-> seen.baseline, release |-> r]
    /\ seen' = None
    /\ UNCHANGED <<selectors, folders, records, journal, barrier, runs, world, deaths>>

AbandonDiscovery ==
    /\ seen # None /\ seen' = None
    /\ UNCHANGED <<selectors, folders, records, trusted, journal, barrier, runs, world, deaths>>

-------------------------------------------------------------------------------
(* The publisher and the user                                                  *)

Publish(r) ==
    /\ \A q \in published : r > q
    /\ published' = published \cup {r}
    /\ UNCHANGED <<selectors, folders, records, trusted, journal, barrier, runs, seen,
                   package, deaths>>

UpdatePackage(r) ==
    /\ r \in published \cap NeedsPackage /\ r > package
    /\ package' = r
    /\ UNCHANGED <<selectors, folders, records, trusted, journal, barrier, runs, seen,
                   published, deaths>>

Process(p) == Load(p) \/ Enter(p) \/ Block(p) \/ BeginRecovery(p)

UpgradeNext ==
    \/ BeginUpgrade \/ Holder \/ Die
    \/ \E p \in Runs : Process(p) \/ EndRun(p)
    \/ BeginDiscovery \/ AbandonDiscovery
    \/ \E r \in published : RecordTrusted(r)
    \/ \E r \in Releases : Publish(r) \/ UpdatePackage(r)

(* A process that holds the barrier works on, and the heartbeat keeps starting *)
(* processes that get past their own checks. Upgrades, discoveries, the        *)
(* publisher and deaths owe nothing.                                           *)
UpgradeFairness ==
    /\ WF_vars(Holder)
    /\ \A p \in Runs : WF_vars(Load(p) \/ Enter(p) \/ Block(p) \/ EndRun(p)) /\ SF_vars(BeginRecovery(p))

UpgradeSpec == Init /\ [][UpgradeNext]_vars /\ UpgradeFairness

-------------------------------------------------------------------------------
(* Properties                                                                  *)

Installations == [engine : Releases, venv : Releases, package : Releases]
TrustedStates == [status : {"CURRENT", "AVAILABLE", "APPLIED"}, engine : Releases,
                  baseline : Releases, release : Releases]
Jobs          == [new : Releases, engine : Releases, venv : Releases,
                  current : Installations, trusted : TrustedStates]

ASSUME NoneAssumption == None \notin Jobs \cup TrustedStates    \* nor is it one of the records

UpgradeTypeOK ==
    /\ engine \in Releases /\ venv \in Releases
    /\ dirs \subseteq Releases /\ venvs \subseteq Releases /\ receipts \subseteq Releases
    /\ current \in Installations
    /\ trusted \in TrustedStates \cup {None}
    /\ journal \in Jobs \cup {None} /\ job \in Jobs \cup {None}
    /\ package \in Releases /\ published \subseteq Releases
    /\ pc \in Forward \cup {"free", "check", "undo"}
    /\ mode \in {"upgrade", "run", "rollback", None}
    /\ left \subseteq Undoable
    /\ run \in [Runs -> {"idle", "loaded", "recovering", "running"}] /\ code \in [Runs -> Releases]
    /\ seen \in [engine : Releases, baseline : Releases] \cup {None}
    /\ deaths \in 0..MaxDeaths

(* The selectors and the three records agree, and what they name is on disk.   *)
Consistent ==
    /\ current.engine = engine /\ current.venv = venv
    /\ engine \in dirs /\ venv \in venvs
    /\ \A r \in receipts : r <= engine

(* Whenever nobody holds the barrier and no journal asks for a recovery, the   *)
(* engine, the environment, the record of the installation and the receipts    *)
(* are those of one release: whatever raised or died, and wherever, nothing is *)
(* left half switched (storyclaw_install.py, the rollback of                   *)
(* _upgrade_engine_locked; storyclaw_upgrade_transaction.py, recover).         *)
NeverHalfSwitched == NoExclusive /\ journal = None => Consistent

(* A production run works, from its first to its last step, with the engine    *)
(* its code was loaded from and with the environment recorded for it: no       *)
(* switch, rollback or recovery happens underneath it                          *)
(* (storyclaw_nalu_runtime.py, _production_barrier).                           *)
RunsKeepTheirEngine ==
    \A p \in Running : Consistent /\ code[p] = engine

(* The trusted sequence never falls behind the installed release, although     *)
(* discovery, upgrade and recovery overwrite it without a common lock: an      *)
(* index older than the installed release is never accepted                    *)
(* (storyclaw_release_discovery.py, the check for STABLE_INDEX_ROLLBACK).      *)
TrustCoversInstalled == trusted # None => trusted.release >= current.engine

(* The upgrade is atomic: seen through the journal, the pair of selectors      *)
(* changes in one step and only forward.                                       *)
Atomic == INSTANCE AtomicUpgrade WITH
    installed <- IF journal = None THEN [engine |-> engine, venv |-> venv]
                 ELSE [engine |-> journal.engine, venv |-> journal.venv]
UpgradesAtomically == Atomic!AtomicSpec

(* An interrupted upgrade is rolled back: a journal does not stay for ever,    *)
(* although recoveries may die as well.                                        *)
InterruptionRecovered == (journal # None) ~> (journal = None)

(* A release recorded as available for the installed engine can be installed:  *)
(* the updater's check of the discovery state accepts it.                      *)
AvailableIsAuthorized ==
    (NoExclusive /\ journal = None /\ trusted # None)
        => (trusted.status = "AVAILABLE" /\ trusted.engine = engine => Authorized(trusted.release))
===============================================================================
