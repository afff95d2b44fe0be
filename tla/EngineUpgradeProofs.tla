-------------------------- MODULE EngineUpgradeProofs --------------------------
(***************************************************************************)
(* Theorems of EngineUpgrade, for any set of releases, any choice of those *)
(* that bring an environment or need a package, any number of runs and any *)
(* bound on the deaths of the process that holds the barrier.              *)
(***************************************************************************)
EXTENDS EngineUpgrade, TLAPS

\* The transaction of the upgrade in progress or of the interrupted one.
Transactions == {job, journal} \ {None}

\* What the process that holds the barrier knows of itself.
HolderInv ==
    /\ pc = "free"    => mode = None /\ job = None /\ left = {}
    /\ pc = "check"   => mode = "upgrade" /\ job = None /\ left = {} /\ journal = None
    /\ pc \in Forward => mode = "upgrade" /\ job # None /\ left = {}
    /\ pc = "undo" /\ job = None => left = {} /\ journal = None
    /\ job # None /\ journal # None => job = journal

\* Runs are on only while there is nothing to undo and nobody who upgrades.
RunInv == Running # {} => NoExclusive /\ journal = None /\ \A p \in Running : code[p] = engine

\* A transaction starts from a consistent installation, and whatever it has done
\* and undone since, every part is as it was before or as the transaction wants it.
Between(j) ==
    /\ j.new > j.engine
    /\ j.current.engine = j.engine /\ j.current.venv = j.venv
    /\ j.engine \in dirs /\ j.venv \in venvs
    /\ j.new \in NeedsVenv => j.venv # j.new
    /\ engine \in {j.engine, j.new}
    /\ venv = j.venv \/ (j.new \in NeedsVenv /\ venv = j.new)
    /\ current.engine \in {j.engine, j.new}
    /\ \A r \in receipts : r <= j.engine \/ r = j.new

\* At each place of an upgrade, what it has done and what it has not.
DoneInv ==
    /\ pc \in Forward \ {"candidate"} => job.new \in dirs
    /\ pc \in Forward \ {"candidate", "venvdir"} /\ job.new \in NeedsVenv => job.new \in venvs
    /\ pc \in {"candidate", "venvdir", "journal"} => journal = None
    /\ pc \in {"venv", "engine", "receipt", "current", "discovery", "commit"} => journal = job
    /\ pc \in {"candidate", "venvdir", "journal", "venv"} => venv = job.venv
    /\ pc \in {"engine", "receipt", "current", "discovery", "commit"} /\ job.new \in NeedsVenv => venv = job.new
    /\ pc \in {"candidate", "venvdir", "journal", "venv", "engine"} => engine = job.engine
    /\ pc \in {"receipt", "current", "discovery", "commit"} => engine = job.new
    /\ pc \in {"candidate", "venvdir", "journal", "venv", "engine", "receipt"} => job.new \notin receipts
    /\ pc \in {"candidate", "venvdir", "journal", "venv", "engine", "receipt", "current"} => current = job.current
    /\ pc \in {"discovery", "commit"} => current.engine = job.new /\ current.venv = venv

\* In a rollback or a recovery, what is not left to undo is as it was before, and
\* the journal stays until nothing it names is left.
UndoInv == pc = "undo" /\ job # None =>
    /\ left \subseteq PartsOf(job.new)
    /\ "engine" \notin left => engine = job.engine
    /\ "venv" \notin left => venv = job.venv
    /\ "current" \notin left => current = job.current
    /\ "receipt" \notin left => job.new \notin receipts
    /\ journal = IF "journal" \in left THEN job ELSE None
    /\ journal = None => left \subseteq {"candidate", "venvdir"}

\* With no transaction under way the installation is consistent.
RestInv == Transactions = {} => Consistent

\* The trusted sequence covers what is being installed as well, and so does the
\* baseline of a discovery in progress.
TrustInv ==
    /\ \A j \in Transactions :
         /\ j.trusted.release = j.new
         /\ trusted # None /\ trusted.release >= j.new
         /\ seen # None => seen.baseline >= j.new
    /\ seen # None =>
         /\ seen.baseline >= current.engine
         /\ trusted # None => seen.baseline >= trusted.release
    /\ TrustCoversInstalled

IInv ==
    /\ UpgradeTypeOK /\ HolderInv /\ RunInv
    /\ \A j \in Transactions : Between(j)
    /\ DoneInv /\ UndoInv /\ RestInv /\ TrustInv

USE UpgradeAssumption, NoneAssumption

-----------------------------------------------------------------------------

\* The places of an upgrade and their order; the journal is undone last.
LEMMA Ranks ==
    /\ Forward = {"candidate", "venvdir", "journal", "venv", "engine", "receipt", "current",
                  "discovery", "commit"}
    /\ DoRank.candidate = 1 /\ DoRank.venvdir = 2 /\ DoRank.journal = 3 /\ DoRank.venv = 4
    /\ DoRank.engine = 5 /\ DoRank.receipt = 6 /\ DoRank.current = 7 /\ DoRank.discovery = 8
    /\ DoRank.commit = 9
  BY DEF Forward, DoRank

\* Releases are ordered as numbers.
LEMMA Ordered == \A r, s \in Releases :
    r \in Nat /\ r >= r /\ (r > s => r # s /\ ~(r <= s) /\ s <= r /\ r >= s)
  OBVIOUS

LEMMA Transitive == \A r, s, t \in Releases : r >= s => (s >= t \/ t <= s => r >= t)
  OBVIOUS

LEMMA LaterIsLater == \A r, s \in Releases : Later(r, s) \in Releases /\ Later(r, s) >= r /\ Later(r, s) >= s
  BY DEF Later

LEMMA JournalIsLast == ASSUME NEW s \in Undoable, s # "journal" PROVE UndoRank[s] < UndoRank["journal"]
  BY DEF Undoable, Forward, DoRank, UndoRank, RecoverRank, RollbackRank

LEMMA JournalAlone ==
  ASSUME UpgradeTypeOK, Undo("journal") PROVE left = {"journal"}
<1>1. ASSUME NEW s \in left, s # "journal" PROVE FALSE
  <2>1. s \in Undoable /\ UndoRank["journal"] <= UndoRank[s]
    BY <1>1 DEF Undo, UpgradeTypeOK
  <2>2. UndoRank[s] < UndoRank["journal"]
    BY <2>1, <1>1, JournalIsLast
  <2>3. UndoRank[s] \in Nat /\ UndoRank["journal"] \in Nat
    BY <2>1 DEF Undoable, Forward, DoRank, UndoRank, RecoverRank, RollbackRank
  <2>4. QED
    BY <2>1, <2>2, <2>3
<1>2. QED
  BY <1>1 DEF Undo

\* What an upgrade to r has done at each of its places.
LEMMA DoneAt ==
  ASSUME NEW p \in Forward, NEW r
  PROVE  /\ DoneBefore(p, r) \subseteq PartsOf(r)
         /\ p \in {"candidate", "venvdir", "journal"} => DoneBefore(p, r) \subseteq {"candidate", "venvdir"}
         /\ p \notin {"candidate", "venvdir", "journal"} => "journal" \in DoneBefore(p, r)
         /\ p \notin {"candidate", "venvdir", "journal", "venv"} /\ r \in NeedsVenv =>
               "venv" \in DoneBefore(p, r)
         /\ p \in {"receipt", "current", "discovery", "commit"} => "engine" \in DoneBefore(p, r)
         /\ p \in {"current", "discovery", "commit"} => "receipt" \in DoneBefore(p, r)
         /\ p \in {"discovery", "commit"} => "current" \in DoneBefore(p, r)
<1>1. DoneBefore(p, r) \subseteq PartsOf(r)
  BY DEF DoneBefore
<1>2. \A s \in PartsOf(r) : s \in DoneBefore(p, r) <=> DoRank[s] < DoRank[p]
  BY DEF DoneBefore
<1>3. /\ {"journal", "engine", "receipt", "current"} \subseteq PartsOf(r)
      /\ r \in NeedsVenv => "venv" \in PartsOf(r)
      /\ \A s \in PartsOf(r) : s \in Undoable
  BY Ranks DEF PartsOf, Undoable
<1>4. p \in {"candidate", "venvdir", "journal"} => DoneBefore(p, r) \subseteq {"candidate", "venvdir"}
  <2>1. ASSUME NEW s \in DoneBefore(p, r), p \in {"candidate", "venvdir", "journal"}
        PROVE  s \in {"candidate", "venvdir"}
    BY <2>1, <1>1, <1>2, <1>3, Ranks DEF Undoable
  <2>2. QED
    BY <2>1
<1>5. p \in Forward
  OBVIOUS
<1>6. QED
  BY <1>1, <1>2, <1>3, <1>4, <1>5, Ranks

-----------------------------------------------------------------------------

LEMMA InitInv == Init => IInv
<1> SUFFICES ASSUME Init PROVE IInv
  OBVIOUS
<1>1. UpgradeTypeOK
  BY DEF Init, UpgradeTypeOK, Installations
<1>2. HolderInv /\ RunInv /\ Transactions = {}
  BY Ranks DEF Init, HolderInv, RunInv, Running, Transactions
<1>3. DoneInv /\ UndoInv /\ RestInv
  BY DEF Init, DoneInv, UndoInv, RestInv, Consistent, Forward, DoRank
<1>4. TrustInv
  BY <1>2 DEF Init, TrustInv, TrustCoversInstalled
<1>5. QED
  BY <1>1, <1>2, <1>3, <1>4 DEF IInv

\* A transaction is a record of the type Jobs, and so are its parts.
LEMMA JobTypes ==
  ASSUME UpgradeTypeOK, NEW j \in Transactions
  PROVE  /\ j \in Jobs /\ j.new \in Releases /\ j.engine \in Releases /\ j.venv \in Releases
         /\ j.current \in Installations /\ j.current.package \in Releases
         /\ j.current.engine \in Releases /\ j.current.venv \in Releases
         /\ j.trusted \in TrustedStates /\ j.trusted.release \in Releases
<1>1. j \in Jobs
  BY DEF UpgradeTypeOK, Transactions
<1>2. QED
  BY <1>1 DEF Jobs, Installations, TrustedStates

\* The process that undoes something, or is on its way forward, has a transaction.
LEMMA HasJob ==
  ASSUME HolderInv, pc \in Forward \/ (pc = "undo" /\ left # {})
  PROVE  job \in Transactions
  BY DEF HolderInv, Transactions

LEMMA TypeStep == IInv /\ [UpgradeNext]_vars => UpgradeTypeOK'
<1> SUFFICES ASSUME IInv, [UpgradeNext]_vars PROVE UpgradeTypeOK'
  OBVIOUS
<1> USE DEF selectors, folders, records, barrier, runs, world
<1>t. UpgradeTypeOK /\ HolderInv
  BY DEF IInv
<1>0. CASE UNCHANGED vars
  BY <1>0, <1>t DEF vars, UpgradeTypeOK
<1>l. ASSUME journal # None PROVE PartsOf(journal.new) \subseteq Undoable
  BY DEF PartsOf
<1>b. ASSUME NEW m \in {"upgrade", "run"}, TakeBarrier(m)
      PROVE  pc' \in {"undo"} /\ mode' = m /\ job' \in Jobs \cup {None} /\ left' \subseteq Undoable
  BY <1>b, <1>t, <1>l DEF TakeBarrier, UpgradeTypeOK
<1>1. CASE BeginUpgrade
  BY <1>1, <1>b, <1>t DEF BeginUpgrade, UpgradeTypeOK
<1>2. ASSUME NEW p \in Runs, BeginRecovery(p) PROVE UpgradeTypeOK'
  BY <1>2, <1>b, <1>t DEF BeginRecovery, UpgradeTypeOK
<1>3. ASSUME NEW s \in Undoable, Undo(s) PROVE UpgradeTypeOK'
  <2>1. job \in Transactions
    BY <1>3, <1>t, HasJob DEF Undo
  <2>2. QED
    BY <1>3, <2>1, <1>t, JobTypes DEF Undo, UpgradeTypeOK
<1>a. ASSUME NEW place \in {"loaded", "idle"}, AfterRecovery(place)
      PROVE  run' \in [Runs -> {"idle", "loaded", "recovering", "running"}]
  BY <1>a, <1>t DEF AfterRecovery, UpgradeTypeOK
<1>4. CASE Undone
  BY <1>4, <1>a, <1>t DEF Undone, UpgradeTypeOK
<1>5. CASE Die
  BY <1>5, <1>a, <1>t DEF Die, Free, UpgradeTypeOK
<1>6. ASSUME NEW r \in Releases, Start(r) PROVE UpgradeTypeOK'
  <2>1. job' \in Jobs
    BY <1>6, <1>t DEF Start, Authorized, Jobs, UpgradeTypeOK
  <2>2. QED
    BY <1>6, <2>1, <1>t, Ranks DEF Start, UpgradeTypeOK
<1>7. CASE RefuseUpgrade
  BY <1>7, <1>t DEF RefuseUpgrade, Free, UpgradeTypeOK
<1>8. CASE Raise
  BY <1>8, <1>t, DoneAt DEF Raise, PartsOf, UpgradeTypeOK
<1>9. CASE StageCandidate \/ InstallVenv \/ WritePrepared \/ SwitchVenv \/ SwitchEngine
           \/ WriteReceipt \/ WriteCurrent \/ WriteApplied \/ Commit
  <2>1. pc \in Forward
    BY <1>9, Ranks DEF Forwards, StageCandidate, InstallVenv, WritePrepared, SwitchVenv,
       SwitchEngine, WriteReceipt, WriteCurrent, WriteApplied, Commit
  <2>2. /\ job \in Jobs /\ job.new \in Releases /\ job.current.package \in Releases
        /\ job.trusted.release \in Releases
    BY <2>1, <1>t, HasJob, JobTypes
  <2> USE DEF Forwards
  <2>3. CASE StageCandidate
    BY <2>3, <2>2, <1>t, Ranks DEF StageCandidate, UpgradeTypeOK
  <2>4. CASE InstallVenv
    BY <2>4, <2>2, <1>t, Ranks DEF InstallVenv, UpgradeTypeOK
  <2>5. CASE WritePrepared
    BY <2>5, <2>2, <1>t, Ranks DEF WritePrepared, UpgradeTypeOK
  <2>6. CASE SwitchVenv
    BY <2>6, <2>2, <1>t, Ranks DEF SwitchVenv, NewVenv, UpgradeTypeOK
  <2>7. CASE SwitchEngine
    BY <2>7, <2>2, <1>t, Ranks DEF SwitchEngine, UpgradeTypeOK
  <2>8. CASE WriteReceipt
    BY <2>8, <2>2, <1>t, Ranks DEF WriteReceipt, UpgradeTypeOK
  <2>9. CASE WriteCurrent
    <3>1. current' \in Installations
      BY <2>9, <2>2, <1>t DEF WriteCurrent, Installations, UpgradeTypeOK
    <3>2. QED
      BY <2>9, <3>1, <1>t, Ranks DEF WriteCurrent, UpgradeTypeOK
  <2>10. CASE WriteApplied
    <3>1. trusted' \in TrustedStates
      BY <2>10, <2>2, <1>t DEF WriteApplied, TrustedStates, UpgradeTypeOK
    <3>2. QED
      BY <2>10, <3>1, <1>t, Ranks DEF WriteApplied, UpgradeTypeOK
  <2>11. CASE Commit
    BY <2>11, <1>t DEF Commit, Free, UpgradeTypeOK
  <2>12. QED
    BY <1>9, <2>3, <2>4, <2>5, <2>6, <2>7, <2>8, <2>9, <2>10, <2>11
<1>10. ASSUME NEW p \in Runs, Load(p) \/ Enter(p) \/ Block(p) \/ EndRun(p) PROVE UpgradeTypeOK'
  BY <1>10, <1>t DEF Load, Enter, Block, EndRun, UpgradeTypeOK
<1>11. CASE BeginDiscovery
  BY <1>11, <1>t DEF BeginDiscovery, Later, UpgradeTypeOK, TrustedStates
<1>12. CASE AbandonDiscovery
  BY <1>12, <1>t DEF AbandonDiscovery, UpgradeTypeOK
<1>13. ASSUME NEW r \in published, RecordTrusted(r) PROVE UpgradeTypeOK'
  <2>1. trusted' \in TrustedStates
    BY <1>13, <1>t DEF RecordTrusted, TrustedStates, UpgradeTypeOK
  <2>2. QED
    BY <1>13, <2>1, <1>t DEF RecordTrusted, UpgradeTypeOK
<1>14. ASSUME NEW r \in Releases, Publish(r) \/ UpdatePackage(r) PROVE UpgradeTypeOK'
  BY <1>14, <1>t DEF Publish, UpdatePackage, UpgradeTypeOK
<1>15. QED
  BY <1>0, <1>1, <1>2, <1>3, <1>4, <1>5, <1>6, <1>7, <1>8, <1>9, <1>10, <1>11, <1>12, <1>13, <1>14
     DEF UpgradeNext, Holder, Process

-----------------------------------------------------------------------------

\* Steps of runs, of a discovery, of the publisher and of the user do not touch
\* the installation or the transaction.
LEMMA QuietSteps ==
  ASSUME IInv, UNCHANGED <<selectors, folders, records, journal, barrier>>
  PROVE  HolderInv' /\ (\A j \in Transactions : Between(j))' /\ DoneInv' /\ UndoInv' /\ RestInv'
<1> USE DEF selectors, folders, records, barrier
<1>1. HolderInv'
  BY DEF IInv, HolderInv
<1>2. Transactions' = Transactions
  BY DEF Transactions
<1>3. (\A j \in Transactions : Between(j))'
  BY <1>2 DEF IInv, Between
<1>4. DoneInv'
  BY DEF IInv, DoneInv
<1>5. UndoInv'
  BY DEF IInv, UndoInv
<1>6. RestInv'
  BY <1>2 DEF IInv, RestInv, Consistent
<1>7. QED
  BY <1>1, <1>3, <1>4, <1>5, <1>6

\* Without a journal the installation is consistent wherever the holder of the
\* barrier is: before the journal is written, and after it is removed, nothing of a
\* transaction but its two directories can be there.
LEMMA ConsistentWithoutJournal == ASSUME IInv, journal = None PROVE Consistent
<1>t. UpgradeTypeOK /\ HolderInv /\ RestInv
  BY DEF IInv
<1>1. CASE job = None
  BY <1>1, <1>t DEF RestInv, Transactions
<1>2. CASE job # None
  <2>1. job \in Transactions /\ Between(job)
    BY <1>2 DEF IInv, Transactions
  <2>2. job.new \in Releases /\ job.engine \in Releases
    BY <2>1, <1>t, JobTypes
  <2>3. pc \in Forward \cup {"undo"}
    BY <1>2, <1>t DEF HolderInv, UpgradeTypeOK
  <2>4. engine = job.engine /\ venv = job.venv /\ current = job.current /\ job.new \notin receipts
    <3>1. CASE pc \in Forward
      <4>1. pc \in {"candidate", "venvdir", "journal"}
        BY <3>1, <1>2, Ranks DEF IInv, DoneInv
      <4>2. QED
        BY <4>1 DEF IInv, DoneInv
    <3>2. CASE pc = "undo"
      BY <3>2, <1>2 DEF IInv, UndoInv
    <3>3. QED
      BY <2>3, <3>1, <3>2
  <2>5. \A r \in receipts : r <= engine
    BY <2>1, <2>4 DEF Between
  <2>6. QED
    BY <2>1, <2>4, <2>5 DEF Consistent, Between
<1>3. QED
  BY <1>1, <1>2

\* Taking the barrier: the transaction is that of the journal, all of it to undo.
LEMMA TakeBarrierStep ==
  ASSUME IInv, NEW m \in {"upgrade", "run"}, TakeBarrier(m),
         UNCHANGED <<selectors, folders, records, journal>>
  PROVE  HolderInv' /\ (\A j \in Transactions : Between(j))' /\ DoneInv' /\ UndoInv' /\ RestInv'
<1> USE DEF selectors, folders, records
<1>t. UpgradeTypeOK /\ HolderInv
  BY DEF IInv
<1>1. pc = "free" /\ pc' = "undo" /\ job' = journal /\ job = None /\ Transactions' = Transactions
  BY <1>t DEF TakeBarrier, NoExclusive, HolderInv, Transactions
<1>2. HolderInv'
  BY <1>1, <1>t, Ranks DEF TakeBarrier, HolderInv
<1>3. (\A j \in Transactions : Between(j))'
  BY <1>1 DEF IInv, Between
<1>4. DoneInv'
  BY <1>1, Ranks DEF DoneInv
<1>5. UndoInv'
  <2>1. SUFFICES ASSUME journal # None PROVE UndoInv'
    BY <1>1 DEF UndoInv
  <2>2. Between(journal)
    BY <2>1 DEF IInv, Transactions
  <2>3. left' = PartsOf(journal.new)
    BY <2>1 DEF TakeBarrier
  <2>4. {"engine", "current", "receipt", "journal"} \subseteq left'
    BY <2>3, Ranks DEF PartsOf, Undoable
  <2>5. "venv" \notin left' => venv = journal.venv
    BY <2>2, <2>3, Ranks DEF PartsOf, Undoable, Between
  <2>6. left' \subseteq PartsOf(job'.new)
    BY <2>3, <1>1
  <2>7. QED
    BY <1>1, <2>1, <2>4, <2>5, <2>6 DEF UndoInv, PartsOf
<1>6. RestInv'
  BY <1>1 DEF IInv, RestInv, Consistent
<1>7. QED
  BY <1>2, <1>3, <1>4, <1>5, <1>6

\* One step of a recovery or of a rollback.
LEMMA UndoStep ==
  ASSUME IInv, NEW s \in Undoable, Undo(s)
  PROVE  HolderInv' /\ (\A j \in Transactions : Between(j))' /\ DoneInv' /\ UndoInv' /\ RestInv'
<1>t. UpgradeTypeOK /\ HolderInv /\ UndoInv
  BY DEF IInv
<1>1. pc = "undo" /\ s \in left /\ left' = left \ {s} /\ pc' = pc /\ job' = job /\ mode' = mode
  BY DEF Undo
<1>2. job \in Transactions /\ job # None /\ Between(job)
  BY <1>1, <1>t, HasJob DEF IInv, Transactions
<1>3. job.new \in Releases /\ job.engine \in Releases /\ job.venv \in Releases
  BY <1>2, <1>t, JobTypes
<1>4. s = "journal" => left' = {}
  BY <1>1, <1>t, JournalAlone
<1>5. HolderInv'
  BY <1>1, <1>2, <1>t, Ranks DEF HolderInv, Undo
<1>6. \A j \in Transactions' : j = job
  BY <1>1, <1>2, <1>t DEF Transactions, Undo, HolderInv
<1>7. Between(job)'
  <2>1. s = "venvdir" => job.new \in NeedsVenv
    BY <1>1, <1>2, <1>t DEF UndoInv, PartsOf
  <2>2. job.engine \in dirs' /\ job.venv \in venvs'
    <3>1. job.engine # job.new /\ (s = "venvdir" => job.venv # job.new)
      <4>1. job.new > job.engine /\ (job.new \in NeedsVenv => job.venv # job.new)
        BY <1>2 DEF Between
      <4>2. QED
        BY <4>1, <1>3, <2>1, Ordered
    <3>2. job.engine \in dirs /\ job.venv \in venvs
      BY <1>2 DEF Between
    <3>3. QED
      BY <3>1, <3>2 DEF Undo
  <2>3. /\ engine' \in {job.engine, job.new}
        /\ venv' = job.venv \/ (job.new \in NeedsVenv /\ venv' = job.new)
        /\ current'.engine \in {job.engine, job.new}
        /\ receipts' \subseteq receipts
    BY <1>2 DEF Undo, Between
  <2>4. QED
    BY <1>1, <1>2, <2>2, <2>3 DEF Between
<1>8. DoneInv'
  BY <1>1, Ranks DEF DoneInv
<1>9. UndoInv'
  <2>1. left' \subseteq PartsOf(job.new)
    BY <1>1, <1>2, <1>t DEF UndoInv
  <2>2. /\ "engine" \notin left' => engine' = job.engine
        /\ "venv" \notin left' => venv' = job.venv
        /\ "current" \notin left' => current' = job.current
        /\ "receipt" \notin left' => job.new \notin receipts'
    BY <1>1, <1>2, <1>t DEF UndoInv, Undo
  <2>3. journal' = IF "journal" \in left' THEN job ELSE None
    BY <1>1, <1>2, <1>t DEF UndoInv, Undo
  <2>4. journal' = None => left' \subseteq {"candidate", "venvdir"}
    <3>1. CASE s = "journal"
      BY <3>1, <1>4
    <3>2. CASE s # "journal"
      BY <3>2, <1>1, <1>2, <1>t DEF UndoInv, Undo
    <3>3. QED
      BY <3>1, <3>2
  <2>5. QED
    BY <1>1, <2>1, <2>2, <2>3, <2>4 DEF UndoInv, PartsOf
<1>10. RestInv'
  BY <1>1, <1>2 DEF RestInv, Transactions
<1>11. (\A j \in Transactions : Between(j))'
  BY <1>1, <1>6, <1>7 DEF Between
<1>12. QED
  BY <1>5, <1>8, <1>9, <1>10, <1>11

\* Everything is undone, or the holder of the barrier has died.
LEMMA UndoneStep ==
  ASSUME IInv, Undone
  PROVE  HolderInv' /\ (\A j \in Transactions : Between(j))' /\ DoneInv' /\ UndoInv' /\ RestInv'
<1> USE DEF selectors, folders, records
<1>t. UpgradeTypeOK /\ HolderInv
  BY DEF IInv
<1>1. journal = None
  BY <1>t DEF IInv, Undone, HolderInv, UndoInv
<1>2. Consistent
  BY <1>1, ConsistentWithoutJournal
<1>3. journal' = None /\ job' = None /\ Transactions' = {} /\ pc' \in {"check", "free"}
  BY <1>1 DEF Undone, Transactions
<1>4. HolderInv'
  BY <1>3, <1>t, Ranks DEF HolderInv, Undone
<1>5. DoneInv'
  BY <1>3, Ranks DEF DoneInv
<1>6. UndoInv' /\ RestInv'
  BY <1>2, <1>3 DEF UndoInv, RestInv, Consistent, Undone
<1>7. QED
  BY <1>3, <1>4, <1>5, <1>6

LEMMA FreeStep ==
  ASSUME IInv, Free, UNCHANGED <<selectors, folders, records, journal>>
  PROVE  HolderInv' /\ (\A j \in Transactions : Between(j))' /\ DoneInv' /\ UndoInv' /\ RestInv'
<1> USE DEF selectors, folders, records
<1>1. pc' = "free" /\ job' = None /\ journal' = journal /\ Transactions' \subseteq Transactions
  BY DEF Free, Transactions
<1>2. HolderInv' /\ DoneInv' /\ UndoInv'
  BY <1>1, Ranks DEF Free, HolderInv, DoneInv, UndoInv
<1>3. (\A j \in Transactions : Between(j))'
  BY <1>1 DEF IInv, Between
<1>4. RestInv'
  <2>1. SUFFICES ASSUME journal = None PROVE RestInv'
    BY <1>1 DEF RestInv, Transactions
  <2>2. Consistent
    BY <2>1, ConsistentWithoutJournal
  <2>3. QED
    BY <2>2 DEF RestInv, Consistent
<1>5. QED
  BY <1>2, <1>3, <1>4

\* A new transaction, for a release that is on no disk yet.
LEMMA StartStep ==
  ASSUME IInv, NEW r \in Releases, Start(r)
  PROVE  HolderInv' /\ (\A j \in Transactions : Between(j))' /\ DoneInv' /\ UndoInv' /\ RestInv'
<1> USE DEF selectors, folders, records
<1>t. UpgradeTypeOK /\ HolderInv
  BY DEF IInv
<1>1. /\ pc' = "candidate" /\ journal' = None /\ journal = None /\ mode' = "upgrade" /\ left' = {}
      /\ job'.new = r /\ job'.engine = engine /\ job'.venv = venv /\ job'.current = current
      /\ job' \in Jobs
  BY <1>t DEF Start, Authorized, HolderInv, UpgradeTypeOK, Jobs
<1>2. job' # None /\ Transactions' = {job'}
  <2>1. job' # None
    BY <1>1
  <2>2. QED
    BY <2>1, <1>1 DEF Transactions
<1>3. Consistent
  BY <1>1, ConsistentWithoutJournal
<1>4. r \notin receipts
  <2>1. r > engine /\ engine \in Releases /\ \A x \in receipts : x <= engine
    BY <1>3, <1>t DEF Consistent, Start, Authorized, UpgradeTypeOK
  <2>2. QED
    BY <2>1, Ordered
<1>5. HolderInv'
  BY <1>1, <1>2, Ranks DEF HolderInv
<1>8. UndoInv' /\ RestInv'
  BY <1>1, <1>2 DEF UndoInv, RestInv
<1>6. DoneInv'
  BY <1>1, <1>4, Ranks DEF DoneInv, Start
<1>7. (\A j \in Transactions : Between(j))'
  BY <1>1, <1>2, <1>3 DEF Between, Consistent, Start, Authorized
<1>9. QED
  BY <1>5, <1>6, <1>7, <1>8

\* The writes of an upgrade on its way forward, one place after the other.
LEMMA ForwardSteps ==
  ASSUME IInv,
         StageCandidate \/ InstallVenv \/ WritePrepared \/ SwitchVenv \/ SwitchEngine
            \/ WriteReceipt \/ WriteCurrent \/ WriteApplied
  PROVE  HolderInv' /\ (\A j \in Transactions : Between(j))' /\ DoneInv' /\ UndoInv' /\ RestInv'
<1> USE DEF selectors, folders, records, Forwards
<1>t. UpgradeTypeOK /\ HolderInv /\ DoneInv
  BY DEF IInv
<1>1. /\ pc \in Forward /\ pc' \in Forward /\ pc # "commit" /\ pc' # "candidate"
      /\ job' = job /\ mode' = mode /\ left' = left
  BY Ranks DEF StageCandidate, InstallVenv, WritePrepared, SwitchVenv, SwitchEngine,
     WriteReceipt, WriteCurrent, WriteApplied
<1>2. job \in Transactions /\ job # None /\ Between(job)
  BY <1>1, <1>t, HasJob DEF IInv, Transactions
<1>3. job.new \in Releases /\ job.engine \in Releases
  BY <1>2, <1>t, JobTypes
<1>4. journal' \in {journal, job}
  BY DEF StageCandidate, InstallVenv, WritePrepared, SwitchVenv, SwitchEngine,
     WriteReceipt, WriteCurrent, WriteApplied
<1>5. HolderInv' /\ UndoInv' /\ RestInv' /\ \A j \in Transactions' : j = job
  <2>1. HolderInv'
    BY <1>1, <1>2, <1>4, <1>t, Ranks DEF HolderInv
  <2>2. UndoInv'
    BY <1>1, Ranks DEF UndoInv
  <2>3. \A j \in Transactions' : j = job
    BY <1>1, <1>2, <1>4, <1>t DEF HolderInv, Transactions
  <2>4. RestInv'
    BY <1>1, <1>2 DEF RestInv, Transactions
  <2>5. QED
    BY <2>1, <2>2, <2>3, <2>4
<1>6. Between(job)'
  <2>1. dirs \subseteq dirs' /\ venvs \subseteq venvs' /\ receipts' \subseteq receipts \cup {job.new}
    BY DEF StageCandidate, InstallVenv, WritePrepared, SwitchVenv, SwitchEngine,
       WriteReceipt, WriteCurrent, WriteApplied
  <2>2. engine' \in {engine, job.new} /\ current'.engine \in {current.engine, job.new}
    BY DEF StageCandidate, InstallVenv, WritePrepared, SwitchVenv, SwitchEngine,
       WriteReceipt, WriteCurrent, WriteApplied
  <2>3. venv' = venv \/ (job.new \in NeedsVenv /\ venv' = job.new)
    BY DEF StageCandidate, InstallVenv, WritePrepared, SwitchVenv, SwitchEngine,
       WriteReceipt, WriteCurrent, WriteApplied, NewVenv
  <2>4. QED
    BY <1>1, <1>2, <2>1, <2>2, <2>3 DEF Between
<1>7. (\A j \in Transactions : Between(j))'
  BY <1>1, <1>5, <1>6 DEF Between
<1>8. DoneInv'
  <2>1. CASE StageCandidate
    BY <2>1, <1>1, <1>t, Ranks DEF DoneInv, StageCandidate
  <2>2. CASE InstallVenv
    BY <2>2, <1>1, <1>t, Ranks DEF DoneInv, InstallVenv
  <2>3. CASE WritePrepared
    BY <2>3, <1>1, <1>t, Ranks DEF DoneInv, WritePrepared
  <2>4. CASE SwitchVenv
    BY <2>4, <1>1, <1>t, Ranks DEF DoneInv, SwitchVenv, NewVenv
  <2>5. CASE SwitchEngine
    BY <2>5, <1>1, <1>t, Ranks DEF DoneInv, SwitchEngine
  <2>6. CASE WriteReceipt
    BY <2>6, <1>1, <1>t, Ranks DEF DoneInv, WriteReceipt
  <2>7. CASE WriteCurrent
    <3>1. current'.engine = job.new /\ current'.venv = venv
      BY <2>7 DEF WriteCurrent
    <3>2. QED
      BY <2>7, <3>1, <1>1, <1>t, Ranks DEF DoneInv, WriteCurrent
  <2>8. CASE WriteApplied
    BY <2>8, <1>1, <1>t, Ranks DEF DoneInv, WriteApplied
  <2>9. QED
    BY <2>1, <2>2, <2>3, <2>4, <2>5, <2>6, <2>7, <2>8
<1>9. QED
  BY <1>5, <1>7, <1>8

\* The journal goes last: what it named is then installed as a whole.
LEMMA CommitStep ==
  ASSUME IInv, Commit
  PROVE  HolderInv' /\ (\A j \in Transactions : Between(j))' /\ DoneInv' /\ UndoInv' /\ RestInv'
<1> USE DEF selectors, folders, records
<1>t. UpgradeTypeOK /\ HolderInv /\ DoneInv
  BY DEF IInv
<1>1. pc \in Forward \ {"candidate", "venvdir"} /\ pc = "commit"
  BY Ranks DEF Commit
<1>2. job \in Transactions /\ Between(job)
  BY <1>1, <1>t, HasJob DEF IInv
<1>3. job.new \in Releases /\ job.engine \in Releases
  BY <1>2, <1>t, JobTypes
<1>4. engine = job.new /\ current.engine = job.new /\ current.venv = venv
  BY <1>1, <1>t DEF DoneInv
<1>5. engine \in dirs /\ venv \in venvs
  BY <1>1, <1>2, <1>4, <1>t DEF DoneInv, Between
<1>6. \A r \in receipts : r <= engine
  <2>1. ASSUME NEW r \in receipts, r <= job.engine PROVE r <= job.new
    <3>1. r \in Nat /\ job.engine \in Nat /\ job.new \in Nat /\ job.engine <= job.new
      BY <1>2, <1>3, <1>t, Ordered DEF Between, UpgradeTypeOK
    <3>2. QED
      BY <2>1, <3>1
  <2>2. QED
    BY <2>1, <1>2, <1>3, <1>4, Ordered DEF Between
<1>7. pc' = "free" /\ job' = None /\ mode' = None /\ left' = {} /\ journal' = None /\ Transactions' = {}
  BY DEF Commit, Free, Transactions
<1>8. HolderInv' /\ DoneInv' /\ UndoInv'
  BY <1>7, Ranks DEF HolderInv, DoneInv, UndoInv
<1>9. RestInv'
  BY <1>4, <1>5, <1>6 DEF RestInv, Consistent, Commit
<1>10. QED
  BY <1>7, <1>8, <1>9

\* An operation raises: what is left to undo is what the upgrade has done.
LEMMA RaiseStep ==
  ASSUME IInv, Raise
  PROVE  HolderInv' /\ (\A j \in Transactions : Between(j))' /\ DoneInv' /\ UndoInv' /\ RestInv'
<1> USE DEF selectors, folders, records
<1>t. UpgradeTypeOK /\ HolderInv /\ DoneInv
  BY DEF IInv
<1>1. /\ pc \in Forward /\ pc' = "undo" /\ job' = job /\ journal' = journal
      /\ left' = DoneBefore(pc, job.new) /\ Transactions' = Transactions
  BY DEF Raise, Transactions
<1>2. job \in Transactions /\ job # None /\ Between(job)
  BY <1>1, <1>t, HasJob DEF IInv, Transactions
<1>3. HolderInv' /\ DoneInv'
  BY <1>1, <1>2, <1>t, Ranks DEF HolderInv, DoneInv
<1>4. (\A j \in Transactions : Between(j))'
  BY <1>1 DEF IInv, Between, Raise
<1>5. RestInv'
  BY <1>1, <1>2 DEF RestInv
<1>6. UndoInv'
  <2>1. left' \subseteq PartsOf(job.new)
    BY <1>1, DoneAt
  <2>2. "engine" \notin left' => engine = job.engine
    BY <1>1, <1>t, DoneAt, Ranks DEF DoneInv
  <2>3. "venv" \notin left' => venv = job.venv
    BY <1>1, <1>2, <1>t, DoneAt, Ranks DEF DoneInv, Between
  <2>4. "current" \notin left' => current = job.current
    BY <1>1, <1>t, DoneAt, Ranks DEF DoneInv
  <2>5. "receipt" \notin left' => job.new \notin receipts
    BY <1>1, <1>t, DoneAt, Ranks DEF DoneInv
  <2>6. /\ journal = IF "journal" \in left' THEN job ELSE None
        /\ journal = None => left' \subseteq {"candidate", "venvdir"}
    <3>1. CASE pc \in {"candidate", "venvdir", "journal"}
      BY <3>1, <1>1, <1>t, DoneAt DEF DoneInv
    <3>2. CASE pc \notin {"candidate", "venvdir", "journal"}
      BY <3>2, <1>1, <1>2, <1>t, DoneAt, Ranks DEF DoneInv
    <3>3. QED
      BY <3>1, <3>2
  <2>7. QED
    BY <1>1, <2>1, <2>2, <2>3, <2>4, <2>5, <2>6 DEF UndoInv, PartsOf, Raise
<1>7. QED
  BY <1>3, <1>4, <1>5, <1>6

\* The transaction and the installation, over every step.
LEMMA InstallationStep ==
  IInv /\ [UpgradeNext]_vars =>
      HolderInv' /\ (\A j \in Transactions : Between(j))' /\ DoneInv' /\ UndoInv' /\ RestInv'
<1> SUFFICES ASSUME IInv, [UpgradeNext]_vars
             PROVE  HolderInv' /\ (\A j \in Transactions : Between(j))' /\ DoneInv' /\ UndoInv' /\ RestInv'
  OBVIOUS
<1>1. CASE BeginUpgrade
  BY <1>1, TakeBarrierStep DEF BeginUpgrade
<1>2. ASSUME NEW p \in Runs, BeginRecovery(p) PROVE TakeBarrier("run") /\ UNCHANGED <<selectors, folders, records, journal>>
  BY <1>2 DEF BeginRecovery
<1>3. ASSUME NEW p \in Runs, BeginRecovery(p)
      PROVE  HolderInv' /\ (\A j \in Transactions : Between(j))' /\ DoneInv' /\ UndoInv' /\ RestInv'
  BY <1>2, <1>3, TakeBarrierStep
<1>4. CASE Die \/ RefuseUpgrade
  BY <1>4, FreeStep DEF Die, RefuseUpgrade
<1>5. CASE StageCandidate \/ InstallVenv \/ WritePrepared \/ SwitchVenv \/ SwitchEngine
            \/ WriteReceipt \/ WriteCurrent \/ WriteApplied
  BY <1>5, ForwardSteps
<1>6. CASE Holder
  BY <1>4, <1>5, <1>6, UndoStep, UndoneStep, StartStep, CommitStep, RaiseStep DEF Holder
<1>7. CASE UNCHANGED <<selectors, folders, records, journal, barrier>>
  BY <1>7, QuietSteps
<1>8. ASSUME NEW p \in Runs, Load(p) \/ Enter(p) \/ Block(p) \/ EndRun(p)
      PROVE  UNCHANGED <<selectors, folders, records, journal, barrier>>
  BY <1>8 DEF Load, Enter, Block, EndRun
<1>9. CASE BeginDiscovery \/ AbandonDiscovery
  BY <1>7, <1>9 DEF BeginDiscovery, AbandonDiscovery
<1>10. ASSUME NEW r, RecordTrusted(r) \/ Publish(r) \/ UpdatePackage(r)
       PROVE  UNCHANGED <<selectors, folders, records, journal, barrier>>
  BY <1>10 DEF RecordTrusted, Publish, UpdatePackage
<1>11. CASE UNCHANGED vars
  BY <1>7, <1>11 DEF vars
<1>12. QED
  BY <1>1, <1>3, <1>4, <1>6, <1>7, <1>8, <1>9, <1>10, <1>11 DEF UpgradeNext, Process

\* While a run works nobody takes the barrier, and nothing it uses is written.
LEMMA RunStep == IInv /\ [UpgradeNext]_vars => RunInv'
<1> SUFFICES ASSUME IInv, [UpgradeNext]_vars PROVE RunInv'
  OBVIOUS
<1> USE DEF selectors, folders, records, barrier, runs, world
<1>t. UpgradeTypeOK /\ HolderInv /\ RunInv
  BY DEF IInv
<1>1. CASE BeginUpgrade
  BY <1>1 DEF BeginUpgrade, TakeBarrier, RunInv, Running
<1>2. ASSUME NEW p \in Runs, BeginRecovery(p) PROVE RunInv'
  BY <1>2, <1>t DEF BeginRecovery, TakeBarrier, RunInv, Running, UpgradeTypeOK
<1>3. ASSUME ~NoExclusive, Running' = Running PROVE RunInv'
  BY <1>3, <1>t DEF RunInv
<1>4. ASSUME NEW place \in {"loaded", "idle"}, AfterRecovery(place) PROVE Running' = Running
  BY <1>4, <1>t DEF AfterRecovery, Running, UpgradeTypeOK
<1>5. CASE Undone \/ Die
  BY <1>3, <1>4, <1>5 DEF Undone, Die, NoExclusive
<1>6. ASSUME NEW s, Undo(s) PROVE RunInv'
  BY <1>3, <1>6 DEF Undo, NoExclusive, Running
<1>7. ASSUME NEW r, Start(r) PROVE RunInv'
  BY <1>3, <1>7 DEF Start, NoExclusive, Running
<1>8. CASE RefuseUpgrade \/ Commit \/ Raise
  BY <1>3, <1>8, Ranks DEF RefuseUpgrade, Commit, Raise, NoExclusive, Running
<1>9. CASE StageCandidate \/ InstallVenv \/ WritePrepared \/ SwitchVenv \/ SwitchEngine
            \/ WriteReceipt \/ WriteCurrent \/ WriteApplied
  BY <1>3, <1>9 DEF StageCandidate, InstallVenv, WritePrepared, SwitchVenv, SwitchEngine,
     WriteReceipt, WriteCurrent, WriteApplied, Forwards, NoExclusive, Running
<1>10. CASE Holder
  BY <1>5, <1>6, <1>7, <1>8, <1>9, <1>10 DEF Holder
<1>11. ASSUME NEW p \in Runs, Load(p) PROVE RunInv'
  BY <1>11, <1>t DEF Load, RunInv, Running, NoExclusive, UpgradeTypeOK
<1>12. ASSUME NEW p \in Runs, Enter(p) PROVE RunInv'
  BY <1>12, <1>t DEF Enter, MayRun, RunInv, Running, NoExclusive, UpgradeTypeOK
<1>13. ASSUME NEW p \in Runs, Block(p) \/ EndRun(p) PROVE RunInv'
  BY <1>13, <1>t DEF Block, EndRun, RunInv, Running, NoExclusive, UpgradeTypeOK
<1>14. CASE BeginDiscovery \/ AbandonDiscovery \/ UNCHANGED vars
  BY <1>14, <1>t DEF BeginDiscovery, AbandonDiscovery, vars, RunInv, Running, NoExclusive
<1>15. ASSUME NEW r, RecordTrusted(r) \/ Publish(r) \/ UpdatePackage(r) PROVE RunInv'
  BY <1>15, <1>t DEF RecordTrusted, Publish, UpdatePackage, RunInv, Running, NoExclusive
<1>16. QED
  BY <1>1, <1>2, <1>5, <1>10, <1>11, <1>12, <1>13, <1>14, <1>15 DEF UpgradeNext, Process

\* No step lets the trusted sequence fall behind what is installed or being installed.
LEMMA TrustStep == IInv /\ [UpgradeNext]_vars => TrustInv'
<1> SUFFICES ASSUME IInv, [UpgradeNext]_vars PROVE TrustInv'
  OBVIOUS
<1> USE DEF selectors, folders, records, barrier, runs, world
<1>t. UpgradeTypeOK /\ HolderInv /\ DoneInv /\ TrustInv
  BY DEF IInv
<1>n. /\ current.engine \in Releases
      /\ trusted # None => trusted.release \in Releases
      /\ seen # None => seen.baseline \in Releases /\ seen.engine \in Releases
      /\ \A j \in Transactions : j.new \in Releases /\ j.engine \in Releases
  BY <1>t, JobTypes DEF UpgradeTypeOK, Installations, TrustedStates
<1>1. ASSUME UNCHANGED <<current, trusted, seen>>, Transactions' \subseteq Transactions PROVE TrustInv'
  BY <1>1, <1>t DEF TrustInv, TrustCoversInstalled
<1>2. ASSUME NEW m, TakeBarrier(m), UNCHANGED <<current, trusted, seen, journal>> PROVE TrustInv'
  BY <1>1, <1>2 DEF TakeBarrier, Transactions
<1>3. CASE BeginUpgrade
  BY <1>2, <1>3 DEF BeginUpgrade
<1>4. ASSUME NEW p \in Runs, BeginRecovery(p) PROVE TrustInv'
  BY <1>2, <1>4 DEF BeginRecovery
<1>5. CASE Undone \/ Die \/ RefuseUpgrade \/ Commit
  BY <1>1, <1>5 DEF Undone, Die, RefuseUpgrade, Commit, Free, Transactions
<1>6. ASSUME NEW s \in Undoable, Undo(s) PROVE TrustInv'
  <2>1. job \in Transactions /\ Between(job)
    BY <1>6, <1>t, HasJob DEF Undo, IInv
  <2>2. Transactions' \subseteq Transactions
    BY <1>6 DEF Undo, Transactions
  <2>3. CASE s = "discovery"
    <3>1. trusted' = job.trusted /\ trusted' # None /\ trusted'.release = job.new
      BY <1>6, <2>1, <2>3, <1>t, JobTypes DEF Undo, TrustInv
    <3>2. current' = current /\ seen' = seen
      BY <1>6, <2>3 DEF Undo
    <3>3. \A j \in Transactions : j = job
      BY <2>1, <1>t DEF HolderInv, Transactions
    <3>4. job.new >= current.engine /\ job.new >= job.new
      BY <2>1, <1>n, Ordered DEF Between
    <3>5. seen # None => seen.baseline >= job.new /\ seen.baseline >= current.engine
      BY <2>1, <1>t DEF TrustInv
    <3>6. \A j \in Transactions' : j.trusted.release = j.new /\ trusted'.release >= j.new
                                     /\ (seen # None => seen.baseline >= j.new)
      BY <3>1, <3>3, <3>4, <3>5, <2>1, <2>2, <1>t DEF TrustInv
    <3>7. QED
      BY <3>1, <3>2, <3>4, <3>5, <3>6 DEF TrustInv, TrustCoversInstalled
  <2>4. CASE s = "current"
    <3>1. current' = job.current /\ trusted' = trusted /\ seen' = seen
      BY <1>6, <2>4 DEF Undo
    <3>2. current'.engine = job.engine /\ job.engine \in Releases /\ job.new \in Releases /\ job.engine <= job.new
      BY <3>1, <2>1, <1>n, Ordered DEF Between
    <3>3. trusted # None /\ trusted.release >= job.new /\ (seen # None => seen.baseline >= job.new)
      BY <2>1, <1>t DEF TrustInv
    <3>4. trusted.release >= job.engine /\ (seen # None => seen.baseline >= job.engine)
      BY <3>2, <3>3, <1>n, Transitive
    <3>5. QED
      BY <3>1, <3>2, <3>4, <2>2, <1>t DEF TrustInv, TrustCoversInstalled
  <2>5. CASE s \notin {"discovery", "current"}
    BY <1>1, <1>6, <2>2, <2>5 DEF Undo
  <2>6. QED
    BY <2>3, <2>4, <2>5
<1>7. ASSUME NEW r \in Releases, Start(r) PROVE TrustInv'
  <2>1. /\ journal = None /\ trusted # None /\ trusted.release = r
        /\ job'.new = r /\ job'.trusted = trusted
        /\ UNCHANGED <<current, trusted, seen, journal>>
    BY <1>7, <1>t DEF Start, Authorized, HolderInv
  <2>2. \A j \in Transactions' : j = job'
    BY <2>1 DEF Transactions
  <2>3. trusted.release >= r /\ (seen # None => seen.baseline >= r)
    BY <2>1, <1>t, Ordered DEF TrustInv
  <2>4. QED
    BY <2>1, <2>2, <2>3, <1>t DEF TrustInv, TrustCoversInstalled
<1>8. CASE Raise \/ StageCandidate \/ InstallVenv \/ SwitchVenv \/ SwitchEngine \/ WriteReceipt \/ WritePrepared
  BY <1>1, <1>8 DEF Raise, StageCandidate, InstallVenv, SwitchVenv, SwitchEngine, WriteReceipt,
     WritePrepared, Forwards, Transactions
<1>9. CASE WriteCurrent \/ WriteApplied
  <2>1. /\ job \in Transactions /\ Transactions' = Transactions /\ seen' = seen
        /\ \A j \in Transactions : j = job
    BY <1>9, <1>t, HasJob, Ranks DEF WriteCurrent, WriteApplied, Forwards, Transactions, HolderInv
  <2>2. /\ job.trusted.release = job.new /\ trusted # None /\ trusted.release >= job.new
        /\ seen # None => seen.baseline >= job.new
    BY <2>1, <1>t DEF TrustInv
  <2>3. CASE WriteCurrent
    <3>1. current'.engine = job.new /\ trusted' = trusted
      BY <2>3 DEF WriteCurrent
    <3>2. QED
      BY <3>1, <2>1, <2>2, <1>t DEF TrustInv, TrustCoversInstalled
  <2>4. CASE WriteApplied
    <3>1. trusted'.release = job.new /\ trusted' # None /\ current' = current
      <4>1. trusted' \in TrustedStates
        BY <2>4, <2>1, <1>t, JobTypes DEF WriteApplied, TrustedStates
      <4>2. QED
        BY <4>1, <2>2, <2>4 DEF WriteApplied
    <3>2. job.new >= job.new /\ current.engine = job.new
      BY <2>1, <2>4, <1>n, <1>t, Ordered DEF DoneInv, WriteApplied, Forwards
    <3>3. QED
      BY <3>1, <3>2, <2>1, <2>2, <1>t DEF TrustInv, TrustCoversInstalled
  <2>5. QED
    BY <1>9, <2>3, <2>4
<1>10. CASE BeginDiscovery
  <2>1. /\ current.engine = engine /\ UNCHANGED <<current, trusted>> /\ Transactions' = Transactions
        /\ seen'.baseline = IF trusted = None THEN engine ELSE Later(engine, trusted.release)
    BY <1>10 DEF BeginDiscovery, Transactions
  <2>2. /\ seen'.baseline >= current.engine
        /\ trusted # None => seen'.baseline >= trusted.release
    <3>1. CASE trusted = None
      BY <2>1, <3>1, <1>n, Ordered
    <3>2. CASE trusted # None
      <4>1. seen'.baseline = Later(current.engine, trusted.release)
        BY <2>1, <3>2
      <4>2. QED
        BY <4>1, <3>2, <1>n, LaterIsLater
    <3>3. QED
      BY <3>1, <3>2
  <2>3. \A j \in Transactions : seen'.baseline >= j.new
    <3>1. ASSUME NEW j \in Transactions PROVE seen'.baseline >= j.new
      <4>1. trusted # None /\ trusted.release >= j.new /\ seen'.baseline >= trusted.release
        BY <2>2, <1>t DEF TrustInv
      <4>2. seen'.baseline \in Releases
        BY <4>1, <2>1, <1>n, <1>t, LaterIsLater DEF UpgradeTypeOK
      <4>3. QED
        BY <4>1, <4>2, <1>n, Transitive
    <3>2. QED
      BY <3>1
  <2>4. QED
    BY <2>1, <2>2, <2>3, <1>t DEF TrustInv, TrustCoversInstalled
<1>11. ASSUME NEW r \in published, RecordTrusted(r) PROVE TrustInv'
  <2>1. /\ seen # None /\ r >= seen.baseline /\ seen' = None /\ trusted'.release = r
        /\ UNCHANGED current /\ Transactions' = Transactions
    BY <1>11 DEF RecordTrusted, Transactions
  <2>2. trusted' # None /\ r \in Releases
    <3>1. trusted' \in TrustedStates
      BY <1>11, <1>t DEF RecordTrusted, TrustedStates, UpgradeTypeOK
    <3>2. QED
      BY <3>1, <1>t DEF UpgradeTypeOK
  <2>3. r >= current.engine
    BY <2>1, <2>2, <1>n, <1>t, Transitive DEF TrustInv
  <2>4. ASSUME NEW j \in Transactions PROVE r >= j.new
    <3>1. seen.baseline >= j.new
      BY <2>1, <1>t DEF TrustInv
    <3>2. QED
      BY <3>1, <2>1, <2>2, <1>n, Transitive
  <2>5. QED
    BY <2>1, <2>2, <2>3, <2>4, <1>t DEF TrustInv, TrustCoversInstalled
<1>12. CASE AbandonDiscovery
  BY <1>12, <1>t DEF AbandonDiscovery, TrustInv, TrustCoversInstalled, Transactions
<1>13. ASSUME NEW p \in Runs, Load(p) \/ Enter(p) \/ Block(p) \/ EndRun(p) PROVE TrustInv'
  BY <1>1, <1>13 DEF Load, Enter, Block, EndRun, Transactions
<1>14. ASSUME NEW r, Publish(r) \/ UpdatePackage(r) PROVE TrustInv'
  BY <1>1, <1>14 DEF Publish, UpdatePackage, Transactions
<1>15. CASE UNCHANGED vars
  BY <1>1, <1>15 DEF vars, Transactions
<1>16. QED
  BY <1>3, <1>4, <1>5, <1>6, <1>7, <1>8, <1>9, <1>10, <1>11, <1>12, <1>13, <1>14, <1>15
     DEF UpgradeNext, Holder, Process

LEMMA Inductive == IInv /\ [UpgradeNext]_vars => IInv'
  BY TypeStep, InstallationStep, RunStep, TrustStep DEF IInv

THEOREM UpgradeInvariant == UpgradeSpec => []IInv
<1>1. Init => IInv
  BY InitInv
<1>2. IInv /\ [UpgradeNext]_vars => IInv'
  BY Inductive
<1>3. QED
  BY <1>1, <1>2, PTL DEF UpgradeSpec

-----------------------------------------------------------------------------

\* Every variable keeps its type, the transaction and the journal included.
THEOREM UpgradeTypeCorrect == UpgradeSpec => []UpgradeTypeOK
<1>1. IInv => UpgradeTypeOK
  BY DEF IInv
<1>2. QED
  BY <1>1, UpgradeInvariant, PTL

\* Whatever raises or dies, and wherever, an installation that asks for no recovery
\* is that of one release: selectors, records and receipts agree
\* (storyclaw_install.py, _upgrade_engine_locked and its rollback, recover).
THEOREM UpgradeNeverHalfSwitches == UpgradeSpec => []NeverHalfSwitched
<1>1. IInv => NeverHalfSwitched
  BY ConsistentWithoutJournal DEF NeverHalfSwitched
<1>2. QED
  BY <1>1, UpgradeInvariant, PTL

\* A production run keeps the engine and the environment it was started with from
\* its first step to its last (storyclaw_nalu_runtime.py, _production_barrier).
THEOREM UpgradeSparesRuns == UpgradeSpec => []RunsKeepTheirEngine
<1>1. IInv => RunsKeepTheirEngine
  BY ConsistentWithoutJournal DEF IInv, RunInv, RunsKeepTheirEngine
<1>2. QED
  BY <1>1, UpgradeInvariant, PTL

\* A discovery, an upgrade and a recovery that overwrite each other's state never
\* make the host accept an index older than what it has installed
\* (storyclaw_release_discovery.py, STABLE_INDEX_ROLLBACK).
THEOREM TrustNeverFallsBehind == UpgradeSpec => []TrustCoversInstalled
<1>1. IInv => TrustCoversInstalled
  BY DEF IInv, TrustInv
<1>2. QED
  BY <1>1, UpgradeInvariant, PTL

-----------------------------------------------------------------------------

\* What a new run would use, seen through the journal.
installedNow == IF journal = None THEN [engine |-> engine, venv |-> venv]
                ELSE [engine |-> journal.engine, venv |-> journal.venv]

\* Only the removal of the journal by a commit changes it: to write the journal, to
\* switch under it and to remove it after a rollback leave it as it is.
LEMMA AtomicStep ==
  IInv /\ [UpgradeNext]_vars => [Atomic!AtomicNext]_installedNow
<1> SUFFICES ASSUME IInv, [UpgradeNext]_vars PROVE [Atomic!AtomicNext]_installedNow
  OBVIOUS
<1> USE DEF selectors, folders, records, barrier, runs, world
<1>t. UpgradeTypeOK /\ HolderInv /\ DoneInv /\ UndoInv
  BY DEF IInv
<1>1. CASE UNCHANGED <<selectors, journal>>
  BY <1>1 DEF installedNow
<1>2. ASSUME journal # None, journal' = journal PROVE UNCHANGED installedNow
  BY <1>2 DEF installedNow
<1>3. CASE BeginUpgrade \/ Undone \/ Die \/ RefuseUpgrade \/ Raise \/ StageCandidate
           \/ InstallVenv \/ WriteReceipt \/ WriteCurrent \/ WriteApplied
           \/ BeginDiscovery \/ AbandonDiscovery
  BY <1>1, <1>3 DEF BeginUpgrade, Undone, Die, RefuseUpgrade, Raise, StageCandidate, InstallVenv,
     WriteReceipt, WriteCurrent, WriteApplied, BeginDiscovery, AbandonDiscovery
<1>4. ASSUME NEW p \in Runs, Process(p) \/ EndRun(p) PROVE UNCHANGED <<selectors, journal>>
  BY <1>4 DEF Process, Load, Enter, Block, BeginRecovery, EndRun
<1>5. ASSUME NEW r, Start(r) \/ RecordTrusted(r) \/ Publish(r) \/ UpdatePackage(r)
      PROVE  UNCHANGED <<selectors, journal>>
  BY <1>5 DEF Start, RecordTrusted, Publish, UpdatePackage
<1>6. ASSUME NEW s \in Undoable, Undo(s) PROVE UNCHANGED installedNow
  <2>1. pc = "undo" /\ s \in left /\ job # None
    BY <1>6, <1>t DEF Undo, HolderInv
  <2>2. CASE s = "journal"
    <3>1. left = {"journal"}
      BY <1>6, <2>2, <1>t, JournalAlone
    <3>2. journal = job /\ engine = job.engine /\ venv = job.venv
      BY <2>1, <3>1, <1>t DEF UndoInv
    <3>3. journal' = None /\ engine' = engine /\ venv' = venv
      BY <1>6, <2>2 DEF Undo
    <3>4. QED
      BY <2>1, <3>2, <3>3 DEF installedNow
  <2>3. CASE s # "journal" /\ journal # None
    BY <1>2, <1>6, <2>3 DEF Undo
  <2>4. CASE s # "journal" /\ journal = None
    <3>1. s \in {"candidate", "venvdir"}
      BY <2>1, <2>4, <1>t DEF UndoInv
    <3>2. QED
      BY <1>6, <2>4, <3>1 DEF Undo, installedNow
  <2>5. QED
    BY <2>2, <2>3, <2>4
<1>7. CASE WritePrepared
  <2>1. job # None /\ journal = None /\ journal' = job /\ engine = job.engine /\ venv = job.venv
    BY <1>7, <1>t, Ranks DEF WritePrepared, Forwards, HolderInv, DoneInv
  <2>2. QED
    BY <2>1 DEF installedNow
<1>8. CASE SwitchVenv \/ SwitchEngine
  <2>1. journal # None /\ journal' = journal
    BY <1>8, <1>t, Ranks DEF SwitchVenv, SwitchEngine, Forwards, HolderInv, DoneInv
  <2>2. QED
    BY <1>2, <2>1
<1>9. CASE Commit
  <2>1. pc = "commit" /\ job # None /\ journal = job
    BY <1>9, <1>t, Ranks DEF Commit, HolderInv, DoneInv
  <2>2. engine = job.new /\ (job.new \in NeedsVenv => venv = job.new)
    BY <2>1, <1>t DEF DoneInv
  <2>3. Between(job) /\ job.new \in Releases
    BY <2>1, <1>t, JobTypes DEF IInv, Transactions
  <2>4. venv = IF job.new \in NeedsVenv THEN job.new ELSE job.venv
    BY <2>2, <2>3 DEF Between
  <2>5. installedNow = [engine |-> job.engine, venv |-> job.venv]
    BY <2>1 DEF installedNow
  <2>6. installedNow' = [engine |-> job.new, venv |-> venv]
    BY <1>9, <2>2 DEF Commit, installedNow
  <2>7. job.new > job.engine
    BY <2>3 DEF Between
  <2>8. Atomic!Install(job.new)
    BY <2>4, <2>5, <2>6, <2>7 DEF Atomic!Install, installedNow
  <2>9. QED
    BY <2>3, <2>8 DEF Atomic!AtomicNext
<1>10. CASE UNCHANGED vars
  BY <1>1, <1>10 DEF vars
<1>11. QED
  BY <1>1, <1>3, <1>4, <1>5, <1>6, <1>7, <1>8, <1>9, <1>10 DEF UpgradeNext, Holder

\* An upgrade is atomic to everything that starts later: engine and environment
\* change together, in one step, and only towards a later release.
THEOREM UpgradeIsAtomic == UpgradeSpec => UpgradesAtomically
<1>1. Init => Atomic!AtomicInit
  BY DEF Init, Atomic!AtomicInit
<1>2. IInv /\ [UpgradeNext]_vars => [Atomic!AtomicNext]_installedNow
  BY AtomicStep
<1>3. QED
  BY <1>1, <1>2, UpgradeInvariant, PTL
     DEF UpgradeSpec, UpgradesAtomically, Atomic!AtomicSpec, installedNow
================================================================================
