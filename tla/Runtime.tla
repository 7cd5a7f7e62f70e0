------------------------------- MODULE Runtime -------------------------------
(***************************************************************************)
(* The production engine: processes that compete for the leader lock (a    *)
(* session-level advisory lock), and the leader's scheduler, which runs    *)
(* the jobs in rounds, each when it is due. What the jobs do is modelled   *)
(* in the other modules; here a job sends provider requests of its         *)
(* category through the shared budget and ends, or fails.                  *)
(*                                                                         *)
(* The lock is checked once per round: a leader that lost its session goes *)
(* on to the end of the round, while another process may already lead.     *)
(***************************************************************************)
EXTENDS ApiBudget, Sequences

CONSTANTS
    Job,            \* the scheduled jobs, a sequence in the order of a round
    CategoryOf,     \* the request category of each job
    Interval,       \* interval_seconds of each job
    MaxFaults       \* bound: crashes, lost sessions and shutdowns

ASSUME RuntimeAssumption ==
    /\ Job \in Seq(DOMAIN CategoryOf)
    /\ CategoryOf \in [DOMAIN CategoryOf -> Category] /\ Interval \in [DOMAIN CategoryOf -> Nat]
    /\ MaxFaults \in Nat

VARIABLES
    holder,     \* whose session owns the advisory lock
    phase,      \* where each process is
    position,   \* the job of the round each leader is at
    nextDue,    \* _next_due, in the leader's memory
    stopping,   \* the stop event of each process
    unled,      \* history: jobs begun since the leader lost its session
    faults      \* how many faults have happened

leaderVars == <<holder, phase, position, nextDue, stopping, unled, faults>>
vars == <<budgetVars, leaderVars>>

Instance == Client
Jobs == 1 .. Len(Job)
Leading == {"round", "jobs", "working"}
Never == [j \in Jobs |-> 0]

\* Mutant: the session, and with it the lock, outlives the leadership.
RetireKeepsLock(i, next) ==
    /\ phase' = [phase EXCEPT ![i] = next]
    /\ position' = [position EXCEPT ![i] = 1]
    /\ nextDue' = [nextDue EXCEPT ![i] = Never]
    /\ unled' = [unled EXCEPT ![i] = {}]
    /\ UNCHANGED holder

\* A process that does not lead keeps nothing of the scheduler.
Retire(i, next) ==
    /\ phase' = [phase EXCEPT ![i] = next]
    /\ position' = [position EXCEPT ![i] = 1]
    /\ nextDue' = [nextDue EXCEPT ![i] = Never]
    /\ unled' = [unled EXCEPT ![i] = {}]
    /\ holder' = IF holder = i THEN NoClient ELSE holder

-----------------------------------------------------------------------------
(* main: standby, leadership, and the way out.                             *)

Boot(i) ==
    /\ phase[i] = "down"
    /\ phase' = [phase EXCEPT ![i] = "standby"]
    /\ stopping' = [stopping EXCEPT ![i] = FALSE]
    /\ UNCHANGED <<budgetVars, holder, position, nextDue, unled, faults>>

TryAcquire(i) ==
    /\ phase[i] = "standby" /\ ~stopping[i]
    /\ holder = NoClient
    /\ holder' = i
    /\ phase' = [phase EXCEPT ![i] = "prepare"]
    /\ UNCHANGED <<budgetVars, position, nextDue, stopping, unled, faults>>

\* Bankroll verified, reconciliations made: every job is due at once.
Prepare(i) ==
    /\ phase[i] = "prepare"
    /\ phase' = [phase EXCEPT ![i] = "round"]
    /\ nextDue' = [nextDue EXCEPT ![i] = [j \in Jobs |-> clock]]
    /\ UNCHANGED <<budgetVars, holder, position, stopping, unled, faults>>

\* A conflict with durable state while preparing, a fatal error of a job, or
\* the end of a requested shutdown
Exit(i) ==
    /\ \/ phase[i] \in {"prepare", "working"}
       \/ phase[i] \in {"standby", "round"} /\ stopping[i]
    /\ call[i].step = "none"
    /\ Retire(i, "down")
    /\ UNCHANGED <<budgetVars, stopping, faults>>

\* Mutant: the leader trusts what it acquired.
HealthyOnceAcquired(i) == TRUE

\* SELECT 1 on the session that took the lock
Healthy(i) == holder = i

LoseLeadership(i) ==
    /\ phase[i] = "round" /\ ~stopping[i]
    /\ ~Healthy(i)
    /\ Retire(i, "standby")
    /\ UNCHANGED <<budgetVars, stopping, faults>>

-----------------------------------------------------------------------------
(* run_forever.                                                            *)

\* A round with no job due skips every job: one step.
IdleRound(i) ==
    /\ phase[i] = "round" /\ ~stopping[i]
    /\ Healthy(i)
    /\ \A j \in Jobs : nextDue[i][j] > clock
    /\ UNCHANGED vars

BeginRound(i) ==
    /\ phase[i] = "round" /\ ~stopping[i]
    /\ Healthy(i)
    /\ \E j \in Jobs : nextDue[i][j] <= clock
    /\ phase' = [phase EXCEPT ![i] = "jobs"]
    /\ UNCHANGED <<budgetVars, holder, position, nextDue, stopping, unled, faults>>

Due(i) == position[i] \in Jobs /\ nextDue[i][position[i]] <= clock

BeginJob(i) ==
    /\ phase[i] = "jobs" /\ ~stopping[i]
    /\ Due(i)
    /\ phase' = [phase EXCEPT ![i] = "working"]
    /\ unled' = IF holder = i THEN unled
                ELSE [unled EXCEPT ![i] = @ \cup {position[i]}]
    /\ UNCHANGED <<budgetVars, holder, position, nextDue, stopping, faults>>

SkipJob(i) ==
    /\ phase[i] = "jobs" /\ ~stopping[i]
    /\ position[i] \in Jobs /\ ~Due(i)
    /\ position' = [position EXCEPT ![i] = @ + 1]
    /\ UNCHANGED <<budgetVars, holder, phase, nextDue, stopping, unled, faults>>

EndRound(i) ==
    /\ phase[i] = "jobs"
    /\ stopping[i] \/ position[i] \notin Jobs
    /\ phase' = [phase EXCEPT ![i] = "round"]
    /\ position' = [position EXCEPT ![i] = 1]
    /\ UNCHANGED <<budgetVars, holder, nextDue, stopping, unled, faults>>

Request(i) == phase[i] = "working" /\ Ask(i, CategoryOf[Job[position[i]]])

\* The job's cycle is over, and the next one is due at time t.
Reschedule(i, t) ==
    /\ phase' = [phase EXCEPT ![i] = "jobs"]
    /\ nextDue' = [nextDue EXCEPT ![i][position[i]] = t]
    /\ position' = [position EXCEPT ![i] = @ + 1]
    /\ UNCHANGED <<holder, stopping, unled, faults>>

\* Mutant: pending work is drained before the round goes on.
FinishJobDraining(i) ==
    /\ phase[i] = "working"
    /\ call[i].step \in {"none", "refused"}
    /\ \/ UNCHANGED leaderVars
       \/ Reschedule(i, clock + Interval[Job[position[i]]])
    /\ EndCall(i)

\* Success or a transient failure; pending work makes the job due at once.
\* A refusal the job itself handles ends here too.
FinishJob(i) ==
    /\ phase[i] = "working"
    /\ call[i].step \in {"none", "refused"}
    /\ \E t \in {clock, clock + Interval[Job[position[i]]]} : Reschedule(i, t)
    /\ EndCall(i)

\* Midnight after the failure, on the leader's clock
Tomorrow(i) == (Today + 1) * DayLength

DeferJob(i) ==
    /\ phase[i] = "working"
    /\ call[i].step = "refused"
    /\ Reschedule(i, Tomorrow(i))
    /\ EndCall(i)

-----------------------------------------------------------------------------
(* Faults.                                                                 *)

Fault == faults < MaxFaults /\ faults' = faults + 1

Crash(i) ==
    /\ phase[i] # "down" /\ Fault
    /\ Retire(i, "down")
    /\ EndCall(i)
    /\ UNCHANGED stopping

\* PostgreSQL ends the session and frees the lock; the process cannot know.
LoseSession ==
    /\ holder # NoClient /\ Fault
    /\ holder' = NoClient
    /\ UNCHANGED <<budgetVars, phase, position, nextDue, stopping, unled>>

RequestShutdown(i) ==
    /\ phase[i] # "down" /\ ~stopping[i] /\ Fault
    /\ stopping' = [stopping EXCEPT ![i] = TRUE]
    /\ UNCHANGED <<budgetVars, holder, phase, position, nextDue, unled>>

Init ==
    /\ BudgetInit
    /\ holder = NoClient
    /\ phase = [i \in Instance |-> "down"]
    /\ position = [i \in Instance |-> 1]
    /\ nextDue = [i \in Instance |-> Never]
    /\ stopping = [i \in Instance |-> FALSE]
    /\ unled = [i \in Instance |-> {}]
    /\ faults = 0

Call(i) == (Request(i) \/ CallStep(i)) /\ UNCHANGED leaderVars

Step(i) ==
    \/ TryAcquire(i) \/ Prepare(i) \/ LoseLeadership(i)
    \/ IdleRound(i) \/ BeginRound(i) \/ BeginJob(i) \/ SkipJob(i) \/ EndRound(i)
    \/ FinishJob(i) \/ DeferJob(i)

Next ==
    \/ \E i \in Instance :
          Boot(i) \/ Step(i) \/ Call(i) \/ Exit(i) \/ Crash(i) \/ RequestShutdown(i)
    \/ LoseSession
    \/ Tick /\ UNCHANGED leaderVars

Spec == Init /\ [][Next]_vars

\* A process that runs keeps taking steps, its calls end (the transport has a
\* timeout) and so do its jobs. A wait for an advisory lock is a queue: every
\* process comes to its turn. Whether a process that ended is started again is
\* the platform's business, and nothing is assumed of it.
FairSpec ==
    /\ Spec
    /\ \A i \in Instance :
          /\ WF_vars(Step(i))
          /\ WF_vars(CallStep(i) /\ UNCHANGED leaderVars)
          /\ SF_vars((Allow(i) \/ Refuse(i)) /\ UNCHANGED leaderVars)
          /\ WF_vars(FinishJob(i))
          /\ WF_vars(phase[i] \in {"standby", "round"} /\ Exit(i))

-----------------------------------------------------------------------------
(* Properties.                                                             *)

\* A worker calls the provider only inside a job, and only the processes of
\* the scheduler have a schedule.
TypeOK ==
    /\ BudgetTypeOK
    /\ holder \in Instance \cup {NoClient}
    /\ phase \in [Instance -> {"down", "standby", "prepare"} \cup Leading]
    /\ position \in [Instance -> 1 .. Len(Job) + 1]
    /\ nextDue \in [Instance -> [Jobs -> Nat]]
    /\ stopping \in [Instance -> BOOLEAN]
    /\ unled \in [Instance -> SUBSET Jobs]
    /\ faults \in 0 .. MaxFaults
    /\ \A i \in Instance : call[i].step # "none" => phase[i] = "working"
    /\ \A i \in Instance : holder = i => phase[i] \notin {"down", "standby"}

\* "the single active leader": a process whose session is gone begins no job
\* a second time, so two processes run the same job at the same time only
\* while the first one ends the round in which it lost the lock.
UnledRoundEnds ==
    [][\A i \in Instance :
         phase[i] # "working" /\ phase'[i] = "working" => position[i] \notin unled[i]]_vars

Led == \E i \in Instance : holder = i /\ phase[i] \in {"prepare"} \cup Leading

\* A vacant leadership is taken again, as long as a process is there for it:
\* the lock ends up with a process that works, never with one that left.
LeadershipRecovers ==
    ~Led ~> Led \/ \A i \in Instance : phase[i] = "down" \/ stopping[i]

\* "independent cadence": no other job's pending work keeps a due job from
\* its turn, while its process leads.
DueJobsRun ==
    \A i \in Instance : \A j \in Jobs :
        phase[i] \in Leading /\ nextDue[i][j] <= clock ~>
            \/ phase[i] = "working" /\ position[i] = j
            \/ phase[i] \notin Leading \/ stopping[i]

=============================================================================
