---------------------------- MODULE ColdArchive ----------------------------
(***************************************************************************)
(* The archive lifecycle (archive/lifecycle.py, service.py, repository.py) *)
(* beside the research labs that still read the same observations: market  *)
(* observations older than the hot window and named by no decision move to *)
(* the object store in batches, each batch uploaded, read back, registered *)
(* and only then deleted from the table.                                   *)
(*                                                                         *)
(* Abstractions. The digest of a batch names its object, so the object is  *)
(* the set of its rows; an object in the store reads back as written or it *)
(* does not.  The settlement mirrors that follow in the same run touch no  *)
(* observation and are left out.                                           *)
(***************************************************************************)
EXTENDS ShadowPicks

CONSTANTS
    Archiver,    \* processes that may run the lifecycle
    None,        \* nobody holds the lock
    BatchSize,   \* market_batch_size
    MaxBatches   \* market_max_batches

ASSUME ArchiveAssumption ==
    /\ {BatchSize, MaxBatches} \subseteq Nat \ {0}
    /\ None \notin Archiver

VARIABLES
    run,      \* archiver -> its run
    lock,     \* who holds the advisory lock
    store,    \* objects that read back with the digest they are named by
    catalog   \* batches registered in cold_archive_batches

archiveVars == <<run, lock, store, catalog>>
vars == <<shadowVars, faults, archiveVars>>

Greatest(S) == CHOOSE x \in S : \A y \in S : y <= x

NoRun == [pc |-> "off"]

\* Mutant: a run goes on where the catalog ends, like the settlement mirrors.
RunAfterCatalog(cutoff) ==
    [pc |-> "select", cutoff |-> cutoff,
     after |-> IF catalog = {} THEN 0 ELSE Greatest(UNION catalog),
     batches |-> 0, rows |-> {}, doomed |-> {}]

\* The state of archive_cold_market_observations.
NewRun(cutoff) ==
    [pc |-> "select", cutoff |-> cutoff, after |-> 0, batches |-> 0,
     rows |-> {}, doomed |-> {}]

Init ==
    /\ ShadowInit
    /\ run = [a \in Archiver |-> NoRun]
    /\ lock = None
    /\ store = {}
    /\ catalog = {}

-----------------------------------------------------------------------------
(* One run *)

\* exclusive_run: pg_try_advisory_lock; a run that misses it does nothing.
\* The cutoff is fixed here for the whole run.
Start(a) ==
    /\ run[a] = NoRun
    /\ lock = None
    /\ lock' = a
    /\ run' = [run EXCEPT ![a] = NewRun(ColdObs)]
    /\ UNCHANGED <<store, catalog>>

\* _market_unreferenced_sql.
Unreferenced(S) == S \ Referenced

\* market_archive_candidates, before its LIMIT.
ArchiveCandidates(r) == {o \in Unreferenced(hot \cap r.cutoff) : o > r.after}

\* ORDER BY market_observation_id LIMIT.
FirstRows(S) == {o \in S : Cardinality({p \in S : p < o}) < BatchSize}

Select(a) ==
    LET rows == FirstRows(ArchiveCandidates(run[a]))
    IN  /\ run[a].pc = "select"
        /\ run' = [run EXCEPT ![a].rows = rows,
                              ![a].pc = IF rows = {} THEN "done" ELSE "put"]
        /\ UNCHANGED <<lock, store, catalog>>

\* put_bytes: the object arrives as it was sent.
Put(a) ==
    /\ run[a].pc = "put"
    /\ store' = store \cup {run[a].rows}
    /\ run' = [run EXCEPT ![a].pc = "verify"]
    /\ UNCHANGED <<lock, catalog>>

\* The environment: the upload is acknowledged and reads back otherwise.
PutDamaged(a) ==
    /\ run[a].pc = "put"
    /\ store' = store \ {run[a].rows}
    /\ run' = [run EXCEPT ![a].pc = "verify"]
    /\ UNCHANGED <<lock, catalog>>

\* Mutant: the digest of the upload is trusted.
TrustsUpload(rows) == TRUE

ReadsBack(rows) == rows \in store

\* get_bytes and the digest of what it returns; a mismatch ends the run.
Verify(a) ==
    /\ run[a].pc = "verify"
    /\ run' = [run EXCEPT ![a].pc = IF ReadsBack(run[a].rows) THEN "register" ELSE "done"]
    /\ UNCHANGED <<lock, store, catalog>>

\* register_verified_batch: the same rows are the same batch.
Register(a) ==
    /\ run[a].pc = "register"
    /\ catalog' = catalog \cup {run[a].rows}
    /\ run' = [run EXCEPT ![a].pc = "scan"]
    /\ UNCHANGED <<lock, store>>

\* delete_archived_market_observations: the rows its statement selects for
\* deletion, under the statement's snapshot.
Scan(a) ==
    /\ run[a].pc = "scan"
    /\ run' = [run EXCEPT ![a].doomed = Unreferenced(run[a].rows \cap hot),
                          ![a].pc = "delete"]
    /\ UNCHANGED <<lock, store, catalog>>

\* Mutant: no foreign key on the decisions.
NobodyRefuses(rows) == TRUE

\* The foreign keys of decisions committed since: RESTRICT.
ForeignKeysAllow(rows) == rows \cap Referenced = {}

\* ... and its commit. A refused DELETE ends the run.
Delete(a) ==
    LET doomed == run[a].doomed
    IN  /\ run[a].pc = "delete"
        /\ hot' = IF ForeignKeysAllow(doomed) THEN hot \ doomed ELSE hot
        /\ run' = [run EXCEPT ![a].pc =
                     IF ForeignKeysAllow(doomed) THEN "mark" ELSE "done"]
        /\ UNCHANGED <<lock, store, catalog>>

\* mark_deleted_from_hot, and the next turn of the loop.
Mark(a) ==
    LET r == run[a]
        last == Cardinality(r.rows) < BatchSize \/ r.batches + 1 = MaxBatches
    IN  /\ r.pc = "mark"
        /\ run' = [run EXCEPT ![a] =
                     [NewRun(r.cutoff) EXCEPT
                        !.pc = IF last THEN "done" ELSE "select",
                        !.after = Greatest(r.rows),
                        !.batches = r.batches + 1]]
        /\ UNCHANGED <<lock, store, catalog>>

\* pg_advisory_unlock; one whose lock is gone raises and changes nothing.
Finish(a) ==
    /\ run[a].pc = "done"
    /\ lock' = IF lock = a THEN None ELSE lock
    /\ run' = [run EXCEPT ![a] = NoRun]
    /\ UNCHANGED <<store, catalog>>

\* The process dies, and its session with it.
ArchiverCrash(a) ==
    /\ run[a] # NoRun
    /\ run' = [run EXCEPT ![a] = NoRun]
    /\ lock' = IF lock = a THEN None ELSE lock
    /\ UNCHANGED <<store, catalog>>

\* Only the session of the lock dies: the run goes on, another may start.
LoseLock(a) ==
    /\ lock = a
    /\ lock' = None
    /\ UNCHANGED <<run, store, catalog>>

-----------------------------------------------------------------------------
labVars == <<log, cold, picks, passes, bets, work, crashed>>

StartRun(a) == Start(a) /\ UNCHANGED <<labVars, hot, faults>>

RunStep(a) ==
    /\ \/ /\ Select(a) \/ Put(a) \/ Verify(a) \/ Register(a)
             \/ Scan(a) \/ Mark(a) \/ Finish(a)
          /\ UNCHANGED hot
       \/ Delete(a)
    /\ UNCHANGED <<labVars, faults>>

ArchiveFault(a) ==
    /\ faults < MaxFaults
    /\ faults' = faults + 1
    /\ PutDamaged(a) \/ ArchiverCrash(a) \/ LoseLock(a)
    /\ UNCHANGED shadowVars

Next ==
    \/ ShadowNext /\ UNCHANGED archiveVars
    \/ \E a \in Archiver : StartRun(a) \/ RunStep(a) \/ ArchiveFault(a)

Spec == Init /\ [][Next]_vars

\* Cron starts a run again and again, and a run in progress keeps going.
FairSpec ==
    /\ Spec
    /\ WF_vars(\E a \in Archiver : StartRun(a))
    /\ \A a \in Archiver : WF_vars(RunStep(a))

-----------------------------------------------------------------------------
(* Properties *)

(* No observation is lost: a captured row is in the table, or a registered *)
(* batch holds it and its object still reads back.  Faults are damaged     *)
(* uploads, crashed runs and lost lock sessions.                           *)
NothingLost ==
    \A o \in Captured : o \in hot \/ \E batch \in catalog \cap store : o \in batch

(* The evidence of a decision never leaves the table, whichever way the    *)
(* decision and the DELETE interleave.                                     *)
EvidenceStaysHot == Referenced \subseteq hot

(* Every cold observation leaves the table unless a decision comes to name *)
(* it: rows that must stay never use up the batches of every run.          *)
ArchiveDrains ==
    \A o \in Obs : o \in Unreferenced(ColdObs) ~> o \in Referenced \/ o \notin hot
=============================================================================
