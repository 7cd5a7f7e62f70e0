----------------------------- MODULE FinalQuote -----------------------------
(***************************************************************************)
(* From a value candidate to a registered pick: the passes the opportunity *)
(* worker makes over one fixture. A pass fetches odds, predicts with the   *)
(* active model, evaluates each bookmaker line, and for a candidate that   *)
(* passes the preliminary gate claims the mandatory final verification,    *)
(* fetches the line once more, evaluates the fresh quote and registers.    *)
(*                                                                         *)
(* One worker is the rule (the leader lock), but a leader that lost its    *)
(* session finishes its pass while its successor starts. A pass may stop   *)
(* anywhere (an exception, a shutdown, a lost process), and the next one   *)
(* finds what it left. Each repository call is one transaction, one step.  *)
(*                                                                         *)
(* Data kept abstract: an evaluation is identified, as in the code, by its *)
(* prediction and its quote snapshot. A prediction is the generation of    *)
(* the active model: a new observation of the fixture changes it likewise; *)
(* a verification and a registration request by the preliminary evaluation *)
(* they are about. Whether a price qualifies, and risk, are inputs; what   *)
(* registration does to money is Bankroll's.                               *)
(***************************************************************************)
EXTENDS Integers

CONSTANTS
    Worker,         \* processes that run the opportunity worker
    Line,           \* (bookmaker, market, selection) triples of the fixture
    ClaimTimeout,   \* the 5 minutes after which a claim may be taken over
    MaxQuote,       \* bound: quotes published per line
    MaxGeneration,  \* bound: generations of the active model
    MaxClock        \* bound: the last instant of the modelled time

ASSUME FinalQuoteAssumption ==
    /\ ClaimTimeout \in Nat \ {0}
    /\ MaxQuote \in Nat \ {0} /\ MaxGeneration \in Nat \ {0} /\ MaxClock \in Nat

VARIABLES
    published,  \* the snapshot of each line the provider shows (0: none)
    latest,     \* the newest persisted snapshot of each line
    model,      \* the active generation, and whether its scope is covered
    claims,     \* table final_quote_verifications, by preliminary evaluation
    decisions,  \* table pick_decisions, by preliminary evaluation
    clock,      \* the present
    pc,         \* where each worker is in its pass
    work        \* what each pass carries along

vars == <<published, latest, model, claims, decisions, clock, pc, work>>

Quote == 1 .. MaxQuote
Generation == 1 .. MaxGeneration
Evaluation == [line : Line, generation : Generation, quote : Quote]
NoEvaluation == [line |-> "none"]

NoClaim == [status |-> "NONE", requested |-> 0, final |-> NoEvaluation, shown |-> 0,
            takenOver |-> FALSE]
NoDecision == [outcome |-> "NONE", evaluation |-> NoEvaluation]
NoWork == [todo |-> {}, current |-> NoEvaluation, final |-> NoEvaluation, claimed |-> 0]

\* EXISTS (SELECT 1 FROM registered_picks WHERE fixture_id = ...)
FixtureTaken == \E e \in Evaluation : decisions[e].outcome = "APPROVED"

Go(w, next) == pc' = [pc EXCEPT ![w] = next]

\* On to the next candidate ("next"), or out of the pass
Leave(w, next) ==
    /\ Go(w, next)
    /\ work' = [work EXCEPT ![w] =
                   IF next = "next" THEN [NoWork EXCEPT !.todo = work[w].todo] ELSE NoWork]

-----------------------------------------------------------------------------
(* The pass: odds, prediction, preliminary evaluations, the gate.          *)

\* The provider may answer for some lines only: the others are evaluated on
\* their persisted quote. Candidates the gate rejects are never chosen.
StartPass(w) ==
    /\ pc[w] = "idle"
    /\ model.covered
    /\ \E fetched \in SUBSET Line :
          latest' = [l \in Line |-> IF l \in fetched THEN published[l] ELSE latest[l]]
    /\ work' = [work EXCEPT ![w].todo =
          {[line |-> l, generation |-> model.generation, quote |-> latest'[l]] :
              l \in {x \in Line : latest'[x] # 0}}]
    /\ Go(w, "next")
    /\ UNCHANGED <<published, model, claims, decisions, clock>>

\* preliminary_rejection_codes lets the candidate through.
Choose(w) ==
    /\ pc[w] = "next"
    /\ ~FixtureTaken
    /\ \E e \in work[w].todo :
          work' = [work EXCEPT ![w].todo = @ \ {e}, ![w].current = e]
    /\ Go(w, "claim")
    /\ UNCHANGED <<published, latest, model, claims, decisions, clock>>

-----------------------------------------------------------------------------
(* begin_final_quote_verification, under the advisory lock of the id.      *)

ClaimNew(w) ==
    LET e == work[w].current IN
    /\ pc[w] = "claim"
    /\ claims[e].status = "NONE"
    /\ claims' = [claims EXCEPT ![e].status = "REQUESTED", ![e].requested = clock,
                                ![e].shown = published[e.line]]
    /\ work' = [work EXCEPT ![w].claimed = clock]
    /\ Go(w, "fetch")
    /\ UNCHANGED <<published, latest, model, decisions, clock>>

\* requested_at <= now - 5 minutes
Expired(e) == claims[e].status = "REQUESTED" /\ claims[e].requested + ClaimTimeout <= clock

ClaimTakeOver(w) ==
    LET e == work[w].current IN
    /\ pc[w] = "claim"
    /\ Expired(e)
    /\ claims' = [claims EXCEPT ![e].requested = clock, ![e].takenOver = TRUE]
    /\ work' = [work EXCEPT ![w].claimed = clock]
    /\ Go(w, "fetch")
    /\ UNCHANGED <<published, latest, model, decisions, clock>>

\* Mutant: the claim of another worker is fetched for as well.
FetchAnyway(w) ==
    /\ pc[w] = "claim"
    /\ claims[work[w].current].status = "REQUESTED"
    /\ Go(w, "fetch")
    /\ UNCHANGED <<published, latest, model, claims, decisions, clock, work>>

\* "duplicate final quote verification suppressed", or already rejected
ClaimSuppressed(w) ==
    LET e == work[w].current IN
    /\ pc[w] = "claim"
    /\ claims[e].status \in {"REQUESTED", "REJECTED"}
    /\ ~Expired(e)
    /\ Leave(w, "next")
    /\ UNCHANGED <<published, latest, model, claims, decisions, clock>>

\* An interrupted registration is resumed with the verified evaluation.
ClaimReady(w) ==
    /\ pc[w] = "claim"
    /\ claims[work[w].current].status = "READY"
    /\ work' = [work EXCEPT ![w].final = claims[work[w].current].final]
    /\ Go(w, "register")
    /\ UNCHANGED <<published, latest, model, claims, decisions, clock>>

-----------------------------------------------------------------------------
(* The final fetch and its verdict.                                        *)

\* The evaluation of the pass's prediction on the market of this response
Final(e) == [e EXCEPT !.quote = published[e.line]]

Fetch(w) ==
    LET e == work[w].current IN
    /\ pc[w] = "fetch"
    /\ latest' = [latest EXCEPT ![e.line] = published[e.line]]
    /\ work' = [work EXCEPT ![w].final = Final(e)]
    /\ Go(w, "check")
    /\ UNCHANGED <<published, model, claims, decisions, clock>>

\* Provider error, incomplete market or too old a quote; or no budget left.
FetchFails(w) ==
    /\ pc[w] = "fetch"
    /\ \E next \in {"reject", "deny"} : Go(w, next)
    /\ UNCHANGED <<published, latest, model, claims, decisions, clock, work>>

\* "Model lifecycle may change during the network request."
CheckModel(w) ==
    /\ pc[w] = "check"
    /\ Go(w, IF model.covered THEN "complete" ELSE "reject")
    /\ UNCHANGED <<published, latest, model, claims, decisions, clock, work>>

\* reject_final_quote_verification; a refused budget ends the pass.
Reject(w) ==
    LET e == work[w].current IN
    /\ pc[w] \in {"reject", "deny"}
    /\ claims' = [claims EXCEPT ![e].status = IF @ = "REQUESTED" THEN "REJECTED" ELSE @]
    /\ Leave(w, IF pc[w] = "reject" THEN "next" ELSE "idle")
    /\ UNCHANGED <<published, latest, model, decisions, clock>>

\* final_evaluation_id TEXT UNIQUE
Verified(final) == \E e \in Evaluation : claims[e].final = final

\* Mutant: a verification already decided is completed again.
CompleteAgain(w) ==
    LET e == work[w].current IN
    /\ pc[w] = "complete" /\ ~Verified(work[w].final)
    /\ claims' = [claims EXCEPT ![e].status = "READY", ![e].final = work[w].final]
    /\ Go(w, "register")
    /\ UNCHANGED <<published, latest, model, decisions, clock, work>>

Complete(w) ==
    LET e == work[w].current IN
    /\ pc[w] = "complete"
    /\ claims[e].status = "REQUESTED"
    /\ ~Verified(work[w].final)
    /\ claims' = [claims EXCEPT ![e].status = "READY", ![e].final = work[w].final]
    /\ Go(w, "register")
    /\ UNCHANGED <<published, latest, model, decisions, clock, work>>

\* The stored verdict is returned, and the pass goes on with its own evaluation.
CompleteLate(w) ==
    /\ pc[w] = "complete"
    /\ claims[work[w].current].status # "REQUESTED"
    /\ Go(w, "register")
    /\ UNCHANGED <<published, latest, model, claims, decisions, clock, work>>

\* UniqueViolation, an integrity error: fatal to the process.
CompleteFails(w) ==
    /\ pc[w] = "complete"
    /\ claims[work[w].current].status = "REQUESTED"
    /\ Verified(work[w].final)
    /\ Leave(w, "failed")
    /\ UNCHANGED <<published, latest, model, claims, decisions, clock>>

-----------------------------------------------------------------------------
(* register, with registration_request_id(preliminary.evaluation_id).      *)

\* Mutant: any READY verification will do.
ReadyIsEnough(e, final) == claims[e].status = "READY"

\* _valid_final_verification
ValidFinal(e, final) == claims[e].status = "READY" /\ claims[e].final = final

Register(w) ==
    LET e == work[w].current IN
    /\ pc[w] = "register"
    /\ decisions[e].outcome = "NONE"
    /\ \E outcome \in {"APPROVED", "REJECTED"} :
          /\ outcome = "APPROVED" => ~FixtureTaken /\ ValidFinal(e, work[w].final)
          /\ decisions' = [decisions EXCEPT ![e] =
                              [outcome |-> outcome, evaluation |-> work[w].final]]
          /\ Leave(w, IF outcome = "APPROVED" THEN "idle" ELSE "next")
    /\ UNCHANGED <<published, latest, model, claims, clock>>

\* The stored decision again, or RegistrationPersistenceConflictError.
RegisterReplay(w) ==
    LET e == work[w].current IN
    /\ pc[w] = "register"
    /\ decisions[e].outcome # "NONE"
    /\ Leave(w, IF decisions[e].evaluation # work[w].final THEN "failed"
                ELSE IF decisions[e].outcome = "APPROVED" THEN "idle" ELSE "next")
    /\ UNCHANGED <<published, latest, model, claims, decisions, clock>>

-----------------------------------------------------------------------------
(* The rest of the world.                                                  *)

\* The candidates are used up, or the pass stops: exception, shutdown, crash.
EndPass(w) ==
    /\ pc[w] # "idle"
    /\ Leave(w, "idle")
    /\ UNCHANGED <<published, latest, model, claims, decisions, clock>>

Publish(l) ==
    /\ published[l] < MaxQuote
    /\ published' = [published EXCEPT ![l] = @ + 1]
    /\ UNCHANGED <<latest, model, claims, decisions, clock, pc, work>>

\* The model lifecycle worker activates a generation.
Activate ==
    /\ model.generation < MaxGeneration
    /\ model' = [model EXCEPT !.generation = @ + 1]
    /\ UNCHANGED <<published, latest, claims, decisions, clock, pc, work>>

\* The coverage scope leaves ACTIVE, or comes back.
SwitchCoverage ==
    /\ model' = [model EXCEPT !.covered = ~@]
    /\ UNCHANGED <<published, latest, claims, decisions, clock, pc, work>>

Tick ==
    /\ clock < MaxClock
    /\ clock' = clock + 1
    /\ UNCHANGED <<published, latest, model, claims, decisions, pc, work>>

Init ==
    /\ published = [l \in Line |-> 1]
    /\ latest = [l \in Line |-> 0]
    /\ model = [generation |-> 1, covered |-> TRUE]
    /\ claims = [e \in Evaluation |-> NoClaim]
    /\ decisions = [e \in Evaluation |-> NoDecision]
    /\ clock = 0
    /\ pc = [w \in Worker |-> "idle"]
    /\ work = [w \in Worker |-> NoWork]

Next ==
    \/ \E w \in Worker :
          \/ StartPass(w) \/ Choose(w)
          \/ ClaimNew(w) \/ ClaimTakeOver(w) \/ ClaimSuppressed(w) \/ ClaimReady(w)
          \/ Fetch(w) \/ FetchFails(w) \/ CheckModel(w) \/ Reject(w)
          \/ Complete(w) \/ CompleteLate(w) \/ CompleteFails(w)
          \/ Register(w) \/ RegisterReplay(w) \/ EndPass(w)
    \/ \E l \in Line : Publish(l)
    \/ Activate \/ SwitchCoverage \/ Tick

Spec == Init /\ [][Next]_vars

-----------------------------------------------------------------------------
(* Properties.                                                             *)

Time == 0 .. MaxClock
MaybeEvaluation == Evaluation \cup {NoEvaluation}

\* Rows keep migration 012's CHECK (a verification names its final evaluation
\* exactly when it is READY), and a worker past the gate has a candidate.
TypeOK ==
    /\ published \in [Line -> 0 .. MaxQuote] /\ latest \in [Line -> 0 .. MaxQuote]
    /\ model \in [generation : Generation, covered : BOOLEAN]
    /\ claims \in [Evaluation -> [status : {"NONE", "REQUESTED", "READY", "REJECTED"},
                                  requested : Time, final : MaybeEvaluation,
                                  shown : 0 .. MaxQuote, takenOver : BOOLEAN]]
    /\ \A e \in Evaluation : claims[e].status = "READY" <=> claims[e].final # NoEvaluation
    /\ decisions \in [Evaluation -> [outcome : {"NONE", "APPROVED", "REJECTED"},
                                     evaluation : MaybeEvaluation]]
    /\ clock \in Time
    /\ pc \in [Worker -> {"idle", "next", "claim", "fetch", "check", "reject", "deny",
                          "complete", "register", "failed"}]
    /\ work \in [Worker -> [todo : SUBSET Evaluation, current : MaybeEvaluation,
                            final : MaybeEvaluation, claimed : Time]]
    /\ \A w \in Worker : pc[w] \notin {"idle", "next", "failed"} => work[w].current # NoEvaluation
    /\ \A w \in Worker : pc[w] \in {"check", "complete", "register"} =>
          work[w].final # NoEvaluation

\* PUBLICATION_LIFECYCLE: "A preliminary candidate can never be accepted
\* directly": a pick was evaluated on the quote and with the prediction its
\* own READY verification names, and that quote is at least as new as the one
\* the provider showed when the verification was first requested.
PicksAreVerified ==
    \A e \in Evaluation : decisions[e].outcome = "APPROVED" =>
        /\ claims[e].status = "READY" /\ claims[e].final = decisions[e].evaluation
        /\ decisions[e].evaluation.line = e.line
        /\ decisions[e].evaluation.generation = e.generation
        /\ decisions[e].evaluation.quote >= claims[e].shown

\* A verdict is given once: neither a slow worker whose claim was taken over
\* nor a replay changes a verification that is READY or REJECTED.
VerdictsAreFinal ==
    [][\A e \in Evaluation :
         claims[e].status \in {"READY", "REJECTED"} => claims'[e] = claims[e]]_vars

\* A registration that contradicts the stored decision (fatal to the process)
\* comes from a claim that was taken over while its first owner still ran.
ConflictsNeedTakeOver ==
    \A w \in Worker :
        /\ pc[w] = "register" /\ decisions[work[w].current].outcome # "NONE"
        /\ decisions[work[w].current].evaluation # work[w].final
        => claims[work[w].current].takenOver

\* "repeat model, kickoff, price, duplicate, exposure, and risk validation":
\* a pick is registered only on a prediction of the model active by then.
PicksOfActiveModel ==
    [][\A e \in Evaluation :
         decisions[e].outcome # "APPROVED" /\ decisions'[e].outcome = "APPROVED" =>
             e.generation = model.generation /\ model.covered]_vars

\* "replay-safe production opportunity processing": no interruption of a pass
\* makes a later one fail on what the first had stored.
PassesAreReplaySafe == \A w \in Worker : pc[w] # "failed"

=============================================================================
