---------------------------- MODULE ShadowPicks ----------------------------
(***************************************************************************)
(* The research labs of QuantLab on one fixture: market observations are   *)
(* captured, an engine run reads the newest complete pair of every line,   *)
(* commits a decision for each that names the observation, and for the one *)
(* PICK of the run, in a second transaction, a shadow bet.  Several runs   *)
(* may overlap: the cron collector holds a lock but the loop of            *)
(* quantlab/entrypoint.py takes none.                                      *)
(*                                                                         *)
(* Ledgers, advisory locks and unique indexes are all per fixture, so one  *)
(* fixture is enough.  Prices, probabilities and thresholds are one choice *)
(* of the engine: an observation is worth a PICK or not.                   *)
(***************************************************************************)
EXTENDS Naturals, FiniteSets, Sequences, SequencesExt

CONSTANTS
    Lab,        \* the labs switched on: "GOAL", "CORNER", "CARD", "H2H"
    Obs,        \* identities of market observations, ordered as the text ids
    LineOf(_),  \* the line an observation quotes
    Worker,     \* the processes that may run a QuantLab cycle
    MaxFaults   \* bound: how many faults the environment may inject

ASSUME LabAssumption == Lab \subseteq {"GOAL", "CORNER", "CARD", "H2H"}
ASSUME ObsAssumption == Obs \subseteq Nat \ {0}
ASSUME MaxFaultsAssumption == MaxFaults \in Nat

VARIABLES
    log,       \* observations in the order they were captured
    cold,      \* how many of them are older than the hot window
    hot,       \* rows of quantlab_market_observations
    picks,     \* lab -> observations with a committed PICK decision
    passes,    \* observations some committed PASS decision names
    bets,      \* lab -> observations with a shadow bet (or a GoalLab pick)
    work,      \* worker -> what its engine run is doing
    crashed,   \* history: labs in which a run died between decision and bet
    faults

shadowVars == <<log, cold, hot, picks, passes, bets, work, crashed>>

NoPick == 0
Idle == [pc |-> "idle"]
Deciding(lab, todo, pick) == [pc |-> "decide", lab |-> lab, todo |-> todo, pick |-> pick]

Captured == ToSet(log)
ColdObs == {log[i] : i \in 1..cold}
Referenced == passes \cup UNION {picks[lab] : lab \in Lab}

ShadowInit ==
    /\ log = <<>>
    /\ cold = 0
    /\ hot = {}
    /\ picks = [lab \in Lab |-> {}]
    /\ passes = {}
    /\ bets = [lab \in Lab |-> {}]
    /\ work = [w \in Worker |-> Idle]
    /\ crashed = {}
    /\ faults = 0

-----------------------------------------------------------------------------
(* save_market_observations: one committed row of a capture.               *)
Capture(o) ==
    /\ o \notin Captured
    /\ log' = Append(log, o)
    /\ hot' = hot \cup {o}
    /\ UNCHANGED <<cold, picks, passes, bets, work, crashed>>

(* Time passes: the oldest observation of the hot window falls out of it.  *)
Age ==
    /\ cold < Len(log)
    /\ cold' = cold + 1
    /\ UNCHANGED <<log, hot, picks, passes, bets, work, crashed>>

(* goal_market_pairs and total_market_pairs: the newest row of each line.  *)
NewestOfLine ==
    {o \in hot : \A i, j \in DOMAIN log :
        log[i] = o /\ i < j /\ log[j] \in hot => LineOf(log[j]) # LineOf(o)}

\* CardLab alone does not look whether the fixture carries a bet, and may form
\* another PICK, for another line, after it.
FormsPick(lab) == lab = "CARD" \/ bets[lab] = {}

(* run_fixture up to its first write: the engine reads the market and      *)
(* settles on at most one PICK among the lines; the others get a PASS.  A  *)
(* stale quote is never worth a PICK.                                      *)
Evaluate(w, lab) ==
    /\ work[w] = Idle
    /\ NewestOfLine # {}
    /\ \E pick \in (NewestOfLine \ ColdObs) \cup {NoPick} :
        /\ pick # NoPick => FormsPick(lab)
        /\ work' = [work EXCEPT ![w] = Deciding(lab, NewestOfLine, pick)]
    /\ UNCHANGED <<log, cold, hot, picks, passes, bets, crashed>>

(* The partial unique indexes on PICK decisions: one per fixture for       *)
(* GoalLab and H2HLab, one per line for CornerLab and CardLab.             *)
ClashingPicks(lab, o) ==
    {p \in picks[lab] : lab \in {"GOAL", "H2H"} \/ LineOf(p) = LineOf(o)}

\* Only GoalLab goes on to its pick when ON CONFLICT dropped the decision.
\* Mutant: every lab goes on.
AlwaysBetsOn(lab, inserted) == TRUE

BetsOn(lab, inserted) == inserted \/ lab = "GOAL"

\* The next decision of the run, or its end.
Continue(t, todo) == IF todo = {} THEN Idle ELSE Deciding(t.lab, todo, t.pick)

(* save_goal_decision, save_context_market_decision, save_h2h_decision, in *)
(* the order of the evaluated lines.  The foreign key refuses a row that   *)
(* names an observation that has left the table, and the run gives up.     *)
Decide(w) ==
    LET t == work[w]
    IN  /\ t.pc = "decide"
        /\ \E o \in t.todo :
            LET isPick == o = t.pick
                inserted == ~isPick \/ ClashingPicks(t.lab, o) = {}
                refused == inserted /\ o \notin hot
            IN  /\ picks' = IF isPick /\ inserted /\ ~refused
                            THEN [picks EXCEPT ![t.lab] = @ \cup {o}] ELSE picks
                /\ passes' = IF ~isPick /\ ~refused THEN passes \cup {o} ELSE passes
                /\ work' = [work EXCEPT ![w] =
                      IF refused THEN Idle
                      ELSE IF isPick /\ BetsOn(t.lab, inserted)
                           THEN [t EXCEPT !.pc = "bet", !.todo = @ \ {o}]
                           ELSE Continue(t, t.todo \ {o})]
    /\ UNCHANGED <<log, cold, hot, bets, crashed>>

\* Mutant: the engine has looked before, so the save does not look again.
BetsUnchecked(lab, o) == lab = "GOAL" => o \in picks[lab] /\ bets[lab] = {}

\* Mutant: the save looks for a decision of the fixture instead of a bet.
BetsOnFirstPick(lab, o) == picks[lab] = {o} /\ bets[lab] = {}

\* save_goal_pick insists on its own persisted PICK decision, and its unique
\* key is one pick per fixture and policy; the other labs look for any bet of
\* the fixture under the fixture's advisory lock.
MayBet(lab, o) ==
    /\ lab = "GOAL" => o \in picks[lab]
    /\ bets[lab] = {}

(* save_goal_pick, save_context_shadow_bet: one transaction.  A GoalLab    *)
(* pick without its decision raises and ends the run.                      *)
Bet(w) ==
    LET t == work[w]
    IN  /\ t.pc = "bet"
        /\ bets' = IF MayBet(t.lab, t.pick)
                     THEN [bets EXCEPT ![t.lab] = @ \cup {t.pick}] ELSE bets
        /\ work' = [work EXCEPT ![w] = IF t.lab = "GOAL" /\ t.pick \notin picks[t.lab]
                                         THEN Idle ELSE Continue(t, t.todo)]
        /\ UNCHANGED <<log, cold, hot, picks, passes, crashed>>

(* The process dies; what it had committed stays.                          *)
WorkerCrash(w) ==
    /\ work[w] # Idle
    /\ crashed' = IF work[w].pc = "bet" THEN crashed \cup {work[w].lab} ELSE crashed
    /\ work' = [work EXCEPT ![w] = Idle]
    /\ UNCHANGED <<log, cold, hot, picks, passes, bets>>

ShadowNext ==
    \/ /\ \/ \E o \in Obs : Capture(o)
          \/ Age
          \/ \E w \in Worker, lab \in Lab : Evaluate(w, lab)
          \/ \E w \in Worker : Decide(w) \/ Bet(w)
       /\ UNCHANGED faults
    \/ \E w \in Worker : WorkerCrash(w) /\ faults < MaxFaults /\ faults' = faults + 1

ShadowSpec == ShadowInit /\ [][ShadowNext]_<<shadowVars, faults>>

-----------------------------------------------------------------------------
(* A fixture never carries two bets of one lab, however many runs overlap. *)
OneBetPerFixture == \A lab \in Lab : Cardinality(bets[lab]) <= 1

(* Every bet has its own decision in the ledger: the audit trail of a bet  *)
(* never names another run's decision, or none.                            *)
BetsHaveDecisions == \A lab \in Lab : bets[lab] \subseteq picks[lab]

(* A fixture with a PICK decision gets its bet, or some run is still about *)
(* to write it, or a run died exactly in between.  The last case is real:  *)
(* the unique indexes then refuse every later PICK and the bet never comes.*)
PickedFixtureHasBet ==
    \A lab \in Lab \ crashed :
        picks[lab] # {} =>
            \/ bets[lab] # {}
            \/ \E w \in Worker : work[w].pc = "bet" /\ work[w].lab = lab
=============================================================================
