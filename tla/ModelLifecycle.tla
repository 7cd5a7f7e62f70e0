--------------------------- MODULE ModelLifecycle ---------------------------
(***************************************************************************)
(* The model_lifecycle job (workers/model_lifecycle.py): which scopes need *)
(* a Dixon-Coles model (persistence/postgres_model_coverage.py), and how a *)
(* trained version becomes the active one (use_cases/model_lifecycle.py,   *)
(* persistence/postgres_model_lifecycle.py).                               *)
(*                                                                         *)
(* A cycle is a row of transactions: recover, refresh, claim, then a scope *)
(* at a time the training, the read of the active model, the swap and the  *)
(* mark. Only the leader begins one; a process that lost the lock ends the *)
(* one it is in, so two of them can train the same scope.                  *)
(*                                                                         *)
(* Abstractions. Time is what it decides: a wait ends, a claim outlives    *)
(* its lease, an active model outlives freshness_days, at any moment. A    *)
(* model version is a number, in the order of trained_at; the generation   *)
(* counts swaps and is left out. What a fit computes is a choice. The      *)
(* failure ladder only lengthens a wait or skips a fit, and ends in        *)
(* TRAINING_FAILED either way. The exception for the fingerprint of the    *)
(* previous trainer, attempt counters and the deletion of item failures    *)
(* of another job by mark_active are left out.                             *)
(***************************************************************************)
EXTENDS Naturals, FiniteSets

CONSTANTS
    Scope,          \* scopes, numbered in the order they were first required
    Process,
    MaxScopes,      \* model_training_max_scopes
    Policies,       \* training policies deployed one after the other
    MaxModels,      \* bound on the versions trained
    MaxFaults       \* bound on crashes and lost leaderships

ASSUME LifecycleConstants ==
    /\ Scope \subseteq Nat \ {0}
    /\ IsFiniteSet(Scope)
    /\ {MaxScopes, Policies} \subseteq Nat \ {0}
    /\ MaxModels \in Nat

VARIABLES
    coverage,       \* model_coverage_scopes
    active,         \* dixon_coles_active_models
    models,         \* number of rows of dixon_coles_model_versions
    leader,
    proc,           \* what each process is doing
    deployed,       \* policy of the processes that start now
    disowned,       \* scopes whose claim was taken from a live trainer, or
                    \* overtaken by a change of policy (history)
    outrun,         \* scopes recovered while another process stood between
                    \* its refresh and its claim (history)
    faults

history == <<disowned, outrun>>
vars == <<coverage, active, models, leader, proc, deployed, history, faults>>

NoModel == 0
NoScope == 0

Queued == {"TRAINING_REQUIRED", "RETRAIN_REQUIRED", "STALE",
           "TRAINING_FAILED", "INSUFFICIENT_DATA"}

Status == Queued \cup {"ABSENT", "MISSING", "ACTIVE", "TRAINING_PENDING"}

Idle(policy) == [step |-> "idle", policy |-> policy, todo |-> {}, scope |-> NoScope,
                 model |-> NoModel, expected |-> NoModel]

-----------------------------------------------------------------------------
(* Rows of the coverage table *)

Pending(s) == coverage[s].status = "TRAINING_PENDING"
Holds(p, s) == s \in proc[p].todo \/ proc[p].scope = s
Trainers(s) == {p \in Process : Holds(p, s)}

Requeued(row) == [row EXCEPT !.status = "TRAINING_REQUIRED", !.due = TRUE]

\* Mutant: a recovered scope waits for its model before it is offered again.
WithFreshPointer(row, s) ==
    IF row.status = "ACTIVE" /\ active[s].model # NoModel
    THEN [row EXCEPT !.status = IF active[s].fresh THEN "ACTIVE" ELSE "STALE",
                     !.pointer = active[s].model, !.due = TRUE]
    ELSE row

\* refresh_inventory, first update: the active pointers are authoritative.
WithPointer(row, s) ==
    IF row.status \notin {"TRAINING_FAILED", "INSUFFICIENT_DATA", "TRAINING_PENDING"}
       /\ active[s].model # NoModel
    THEN [row EXCEPT !.status = IF active[s].fresh THEN "ACTIVE" ELSE "STALE",
                     !.pointer = active[s].model, !.due = TRUE]
    ELSE row

\* refresh_inventory, second update: a missing scope is queued, and a change
\* of policy requires a retrain whatever the state.
Scheduled(row, policy) ==
    [row EXCEPT
        !.status = IF @ = "MISSING" THEN "TRAINING_REQUIRED"
                   ELSE IF row.policy # policy THEN "RETRAIN_REQUIRED" ELSE @,
        !.due = @ \/ row.status = "MISSING" \/ row.policy # policy,
        !.policy = policy]

\* INSERT of a newly required scope.
Inserted(row, policy) ==
    IF row.status = "ABSENT" THEN [row EXCEPT !.status = "MISSING", !.due = TRUE,
                                              !.policy = policy]
                             ELSE row

\* Mutant: claims that are still pending are offered too.
ClaimableOrPending == {s \in Scope : /\ coverage[s].eligible /\ coverage[s].due
                                     /\ coverage[s].status \in Queued \cup {"TRAINING_PENDING"}}

Claimable == {s \in Scope : /\ coverage[s].eligible /\ coverage[s].due
                            /\ coverage[s].status \in Queued}

-----------------------------------------------------------------------------
Init ==
    /\ coverage = [s \in Scope |->
           [status |-> "ABSENT", eligible |-> FALSE, due |-> FALSE,
            expired |-> FALSE, policy |-> 1, pointer |-> NoModel]]
    /\ active = [s \in Scope |-> [model |-> NoModel, fresh |-> TRUE]]
    /\ models = 0
    /\ leader \in Process
    /\ proc = [p \in Process |-> Idle(1)]
    /\ deployed = 1
    /\ disowned = {} /\ outrun = {}
    /\ faults = 0

At(p, step) == proc[p].step = step
Goes(p, next) == proc' = [proc EXCEPT ![p] = next]

\* Mutant: only claims of eligible scopes are recovered.
RecoverEligible(p) ==
    LET abandoned == {s \in Scope : /\ Pending(s) /\ coverage[s].expired
                                    /\ coverage[s].eligible}
    IN /\ leader = p /\ At(p, "idle")
       /\ coverage' = [s \in Scope |-> IF s \in abandoned THEN Requeued(coverage[s])
                                                          ELSE coverage[s]]
       /\ disowned' = disowned \cup {s \in abandoned : Trainers(s) # {}}
       /\ outrun' = outrun \cup {s \in abandoned : \E q \in Process : At(q, "claim")}
       /\ Goes(p, [proc[p] EXCEPT !.step = "refresh"])
       /\ UNCHANGED <<active, models, leader, deployed, faults>>

\* recover_abandoned_claims: claims older than the lease, eligible or not.
Recover(p) ==
    LET abandoned == {s \in Scope : Pending(s) /\ coverage[s].expired}
    IN /\ leader = p /\ At(p, "idle")
       /\ coverage' = [s \in Scope |-> IF s \in abandoned THEN Requeued(coverage[s])
                                                          ELSE coverage[s]]
       /\ disowned' = disowned \cup {s \in abandoned : Trainers(s) # {}}
       /\ outrun' = outrun \cup {s \in abandoned : \E q \in Process : At(q, "claim")}
       /\ Goes(p, [proc[p] EXCEPT !.step = "refresh"])
       /\ UNCHANGED <<active, models, leader, deployed, faults>>

\* refresh_inventory, one transaction, for the scopes of future fixtures.
Refresh(p) ==
    /\ At(p, "refresh")
    /\ \E required \in SUBSET Scope :
          /\ coverage' = [s \in Scope |->
                 IF s \notin required THEN [coverage[s] EXCEPT !.eligible = FALSE]
                 ELSE Scheduled(WithPointer([Inserted(coverage[s], proc[p].policy)
                                                 EXCEPT !.eligible = TRUE], s),
                                proc[p].policy)]
          /\ disowned' = disowned \cup
                 {s \in required : Pending(s) /\ coverage'[s].status # "TRAINING_PENDING"}
    /\ Goes(p, [proc[p] EXCEPT !.step = "claim"])
    /\ UNCHANGED <<active, models, leader, deployed, outrun, faults>>

\* claim_training_scopes: the due scopes first required, at most MaxScopes.
Claim(p) ==
    /\ At(p, "claim")
    /\ \E claimed \in SUBSET Claimable :
          /\ Cardinality(claimed) <= MaxScopes
          /\ Cardinality(claimed) = MaxScopes \/ claimed = Claimable
          /\ \A s \in claimed, r \in Claimable \ claimed : s < r
          /\ coverage' = [s \in Scope |->
                 IF s \in claimed
                 THEN [coverage[s] EXCEPT !.status = "TRAINING_PENDING", !.expired = FALSE]
                 ELSE coverage[s]]
          /\ Goes(p, [proc[p] EXCEPT !.step = "next", !.todo = claimed])
    /\ UNCHANGED <<active, models, leader, deployed, history, faults>>

\* The next claimed scope.
Begin(p) ==
    /\ At(p, "next")
    /\ \E s \in proc[p].todo : Goes(p, [proc[p] EXCEPT !.step = "train", !.scope = s,
                                                       !.todo = @ \ {s}])
    /\ UNCHANGED <<coverage, active, models, leader, deployed, history, faults>>

Proceeds(p) == [proc[p] EXCEPT !.step = "next", !.scope = NoScope, !.model = NoModel,
                               !.expected = NoModel]
Breaks(p) == [Proceeds(p) EXCEPT !.step = "end"]

\* release_pending, on a shutdown before or during the fit and on a spent wall
\* budget before it: only a claim that is still pending is released.
Release(p) ==
    /\ At(p, "train")
    /\ coverage' = [coverage EXCEPT ![proc[p].scope] =
                        IF @.status = "TRAINING_PENDING" THEN Requeued(@) ELSE @]
    /\ Goes(p, Breaks(p))
    /\ UNCHANGED <<active, models, leader, deployed, history, faults>>

\* mark_insufficient and mark_failed (fit, data, budget or wall clock), which
\* overwrite whatever state the row is in. A spent budget ends the cycle.
Fail(p) ==
    /\ At(p, "train")
    /\ \E status \in {"TRAINING_FAILED", "INSUFFICIENT_DATA"} :
          coverage' = [coverage EXCEPT ![proc[p].scope] =
                           [@ EXCEPT !.status = status, !.due = FALSE]]
    /\ Goes(p, Proceeds(p)) \/ Goes(p, Breaks(p))
    /\ UNCHANGED <<active, models, leader, deployed, history, faults>>

\* Mutant: the version is written to the coverage row when it is stored.
TrainAndMark(p) ==
    /\ At(p, "train") /\ models < MaxModels
    /\ models' = models + 1
    /\ coverage' = [coverage EXCEPT ![proc[p].scope].pointer = models + 1]
    /\ Goes(p, [proc[p] EXCEPT !.step = "trained", !.model = models + 1])
    /\ UNCHANGED <<active, leader, deployed, history, faults>>

\* trainer.execute and _validate: a version that passes the activation gate.
Train(p) ==
    /\ At(p, "train") /\ models < MaxModels
    /\ models' = models + 1
    /\ Goes(p, [proc[p] EXCEPT !.step = "trained", !.model = models + 1])
    /\ UNCHANGED <<coverage, active, leader, deployed, history, faults>>

\* The expected version is read after the training.
ReadActive(p) ==
    /\ At(p, "trained")
    /\ Goes(p, [proc[p] EXCEPT !.step = "swap", !.expected = active[proc[p].scope].model])
    /\ UNCHANGED <<coverage, active, models, leader, deployed, history, faults>>

\* compare_and_swap: INSERT of the first pointer, or UPDATE of the expected
\* one; a pointer that changed meanwhile is a failed training.
Swap(p) ==
    LET s == proc[p].scope
    IN /\ At(p, "swap")
       /\ \/ /\ active[s].model = proc[p].expected
             /\ active' = [active EXCEPT ![s] = [model |-> proc[p].model, fresh |-> TRUE]]
             /\ Goes(p, [proc[p] EXCEPT !.step = "activated"])
             /\ UNCHANGED coverage
          \/ /\ active[s].model # proc[p].expected
             /\ coverage' = [coverage EXCEPT ![s] = [@ EXCEPT !.status = "TRAINING_FAILED",
                                                              !.due = FALSE]]
             /\ Goes(p, Proceeds(p))
             /\ UNCHANGED active
       /\ UNCHANGED <<models, leader, deployed, history, faults>>

\* mark_active: unconditional as well.
MarkActive(p) ==
    /\ At(p, "activated")
    /\ coverage' = [coverage EXCEPT ![proc[p].scope] =
           [@ EXCEPT !.status = "ACTIVE", !.due = TRUE, !.pointer = proc[p].model]]
    /\ Goes(p, Proceeds(p))
    /\ UNCHANGED <<active, models, leader, deployed, history, faults>>

\* The end of run_once: claimed scopes it did not come to are released.
End(p) ==
    /\ At(p, "end") \/ (At(p, "next") /\ proc[p].todo = {})
    /\ coverage' = [s \in Scope |-> IF s \in proc[p].todo /\ Pending(s)
                                    THEN Requeued(coverage[s]) ELSE coverage[s]]
    /\ Goes(p, Idle(proc[p].policy))
    /\ UNCHANGED <<active, models, leader, deployed, history, faults>>

Cycle(p) == \/ Recover(p) \/ Refresh(p) \/ Claim(p) \/ Begin(p) \/ Release(p)
            \/ Fail(p) \/ Train(p) \/ ReadActive(p) \/ Swap(p) \/ MarkActive(p) \/ End(p)

-----------------------------------------------------------------------------
(* Time, deployments and faults *)

\* next_attempt_at is reached.
Elapse(s) ==
    /\ ~coverage[s].due /\ coverage[s].status # "ABSENT"
    /\ coverage' = [coverage EXCEPT ![s].due = TRUE]
    /\ UNCHANGED <<active, models, leader, proc, deployed, history, faults>>

\* training_started_at is older than the lease.
Expire(s) ==
    /\ Pending(s) /\ ~coverage[s].expired
    /\ coverage' = [coverage EXCEPT ![s].expired = TRUE]
    /\ UNCHANGED <<active, models, leader, proc, deployed, history, faults>>

\* The active model is older than freshness_days.
Age(s) ==
    /\ active[s].model # NoModel /\ active[s].fresh
    /\ active' = [active EXCEPT ![s].fresh = FALSE]
    /\ UNCHANGED <<coverage, models, leader, proc, deployed, history, faults>>

\* A release with another policy; processes take it up when they start.
Deploy ==
    /\ deployed < Policies
    /\ deployed' = deployed + 1
    /\ UNCHANGED <<coverage, active, models, leader, proc, history, faults>>

Restart(p) ==
    /\ At(p, "idle") /\ proc[p].policy # deployed
    /\ Goes(p, Idle(deployed))
    /\ UNCHANGED <<coverage, active, models, leader, deployed, history, faults>>

LoseLeadership(p) ==
    /\ leader # p /\ faults < MaxFaults
    /\ leader' = p /\ faults' = faults + 1
    /\ UNCHANGED <<coverage, active, models, proc, deployed, history>>

\* A process dies at any step and starts again.
Crash(p) ==
    /\ ~At(p, "idle") /\ faults < MaxFaults
    /\ Goes(p, Idle(deployed))
    /\ faults' = faults + 1
    /\ UNCHANGED <<coverage, active, models, leader, deployed, history>>

Next ==
    \/ \E p \in Process : Cycle(p) \/ Restart(p) \/ LoseLeadership(p) \/ Crash(p)
    \/ \E s \in Scope : Elapse(s) \/ Expire(s) \/ Age(s)
    \/ Deploy

Spec == Init /\ [][Next]_vars

\* Processes work, waits end, and a claim nobody finishes outlives its lease.
FairSpec ==
    /\ Spec
    /\ \A p \in Process : WF_vars(Cycle(p))
    /\ \A s \in Scope : WF_vars(Elapse(s)) /\ WF_vars(Expire(s))

-----------------------------------------------------------------------------
(* Properties *)

TypeOK ==
    /\ coverage \in [Scope -> [status : Status \ {"MISSING"}, eligible : BOOLEAN,
                               due : BOOLEAN, expired : BOOLEAN, policy : 1 .. Policies,
                               pointer : 0 .. MaxModels]]
    /\ active \in [Scope -> [model : 0 .. MaxModels, fresh : BOOLEAN]]
    /\ \A p \in Process :
           /\ At(p, "idle") => proc[p] = Idle(proc[p].policy)
           /\ proc[p].step \in {"train", "trained", "swap", "activated"}
                  <=> proc[p].scope \in Scope
           /\ Cardinality(proc[p].todo) <= MaxScopes

\* Two processes train one scope only when a claim was taken from a live
\* trainer, by its lease or by a change of policy (claim_training_scopes,
\* recover_abandoned_claims): every other interleaving, two leaders at once
\* included, gives a scope to one of them.
OneTrainer == \A s \in Scope \ disowned : Cardinality(Trainers(s)) <= 1

\* And until then no trainer replaces an active model by one that was trained
\* earlier, although the expected version is read after the training and the
\* swap therefore always finds what it expects (run_once, compare_and_swap).
ModelsMoveForward ==
    [][\A s \in Scope \ disowned : active'[s].model >= active[s].model]_vars

\* A row that is settled names the active model, and no row is ahead of it: a
\* pointer is missed only while a claim is open, or was just recovered, so
\* that the next refresh copies it (mark_active, refresh_inventory). A process
\* that has refreshed before the recovery and claims after it takes the scope
\* without that copy: if its fit fails, the failed row hides the model.
CoverageNamesActive ==
    \A s \in Scope \ (disowned \cup outrun) :
        \/ coverage[s].pointer = active[s].model
        \/ /\ coverage[s].pointer < active[s].model
           /\ coverage[s].status \in {"TRAINING_PENDING", "TRAINING_REQUIRED"}

\* No scope stays claimed for ever: whatever crashed, the lease frees it, also
\* when the scope is not required any more (recover_abandoned_claims).
ClaimsEnd == \A s \in Scope : Pending(s) ~> ~Pending(s)

\* An active model is offered to the opportunity pass: a crash between the
\* swap and the mark is healed by a later refresh of a required scope. Not so
\* when the policy changed before that refresh: the scope is retrained first,
\* and if the fit fails the model stays hidden (opportunity_status,
\* refresh_inventory); nor when an overlapping process outran that refresh.
ModelIsOffered ==
    \A s \in Scope : <>[](coverage[s].eligible) =>
        (active[s].model # NoModel ~>
             coverage[s].pointer # NoModel \/ s \in disowned \cup outrun)

\* "policy changes force a safe retrain" (refresh_inventory): a scope that
\* must be retrained leaves that state for a training only.
RetrainIsForced ==
    [][\A s \in Scope : coverage[s].status = "RETRAIN_REQUIRED" =>
           coverage'[s].status \in Queued \cup {"TRAINING_PENDING"}]_vars
=============================================================================
