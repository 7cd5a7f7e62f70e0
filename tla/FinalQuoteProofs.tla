--------------------------- MODULE FinalQuoteProofs ---------------------------
(***************************************************************************)
(* Proofs about FinalQuote, for any number of workers, lines, quotes and   *)
(* generations. A pass carries its evaluation in memory between one        *)
(* transaction and the next; the invariant says what that evaluation still *)
(* has to do with the stored verification when it is used.                 *)
(***************************************************************************)
EXTENDS FinalQuote, TLAPS

-----------------------------------------------------------------------------
(* The inductive invariant.                                                *)

\* Workers that may still give a verdict on the verification they carry.
Owns(w) == pc[w] \in {"fetch", "check", "complete", "reject", "deny"}
Carries(w) == Owns(w) \/ pc[w] = "register"

\* f is e, on a quote at least as new as the one shown at the first claim.
Matches(e, f) ==
    /\ f \in Evaluation /\ f.line = e.line /\ f.generation = e.generation
    /\ f.quote >= claims[e].shown

WorkerOK(w) ==
    LET e == work[w].current
        f == work[w].final
    IN  /\ Carries(w) => e \in Evaluation /\ claims[e].status # "NONE"
        /\ pc[w] \in {"check", "complete", "register"} => Matches(e, f)
        /\ Owns(w) /\ ~claims[e].takenOver => claims[e].status = "REQUESTED"
        /\ pc[w] = "register" /\ ~claims[e].takenOver =>
               claims[e].status = "READY" /\ claims[e].final = f

\* Until it is taken over, a verification has one worker.
OneOwner ==
    \A w, u \in Worker :
        Owns(w) /\ Owns(u) /\ work[w].current = work[u].current
            /\ ~claims[work[w].current].takenOver => w = u

ClaimOK(e) ==
    /\ claims[e].status = "NONE" => ~claims[e].takenOver
    /\ claims[e].shown <= published[e.line]
    /\ claims[e].status = "READY" => Matches(e, claims[e].final)
    /\ decisions[e].outcome # "NONE" /\ ~claims[e].takenOver =>
           claims[e].status = "READY" /\ claims[e].final = decisions[e].evaluation
    /\ decisions[e].outcome = "APPROVED" =>
           claims[e].status = "READY" /\ claims[e].final = decisions[e].evaluation

Shown == \A l \in Line : published[l] >= 1

QuoteInv ==
    /\ TypeOK /\ Shown /\ OneOwner
    /\ \A w \in Worker : WorkerOK(w)
    /\ \A e \in Evaluation : ClaimOK(e)

-----------------------------------------------------------------------------
(* Types.                                                                  *)

ClaimRow == [status : {"NONE", "REQUESTED", "READY", "REJECTED"}, requested : Time,
             final : MaybeEvaluation, shown : 0 .. MaxQuote, takenOver : BOOLEAN]
WorkRow == [todo : SUBSET Evaluation, current : MaybeEvaluation, final : MaybeEvaluation,
            claimed : Time]

LEMMA Constants ==
    /\ NoEvaluation \notin Evaluation /\ NoEvaluation \in MaybeEvaluation
    /\ 0 \in Time /\ 0 \in 0 .. MaxQuote
    /\ NoWork \in WorkRow /\ NoWork.current = NoEvaluation
  <1>1. NoEvaluation \notin Evaluation BY DEF NoEvaluation, Evaluation
  <1>2. 0 \in Time /\ 0 \in 0 .. MaxQuote BY FinalQuoteAssumption DEF Time
  <1> QED BY <1>1, <1>2 DEF NoWork, WorkRow, MaybeEvaluation

\* What a worker does to itself only.
LEMMA LocalStep ==
    ASSUME QuoteInv, NEW w \in Worker, NEW next, NEW row \in WorkRow,
           next \in {"idle", "next", "claim", "fetch", "check", "reject", "deny",
                     "complete", "register", "failed"},
           pc' = [pc EXCEPT ![w] = next], work' = [work EXCEPT ![w] = row],
           UNCHANGED <<published, model, claims, decisions, clock>>,
           latest' \in [Line -> 0 .. MaxQuote],
           next \notin {"idle", "next", "failed"} => row.current # NoEvaluation,
           next \in {"check", "complete", "register"} => Matches(row.current, row.final),
           next \in {"fetch", "check", "complete", "reject", "deny"} =>
               Owns(w) /\ row.current = work[w].current,
           next = "register" =>
               /\ row.current \in Evaluation /\ claims[row.current].status # "NONE"
               /\ ~claims[row.current].takenOver =>
                      claims[row.current].status = "READY"
                      /\ claims[row.current].final = row.final
    PROVE  QuoteInv'
  <1>0. TypeOK /\ WorkerOK(w) BY DEF QuoteInv
  <1>1. /\ pc'[w] = next /\ work'[w] = row
        /\ \A u \in Worker : u # w => pc'[u] = pc[u] /\ work'[u] = work[u]
    BY <1>0 DEF TypeOK
  <1>2. /\ work' \in [Worker -> WorkRow]
        /\ pc' \in [Worker -> {"idle", "next", "claim", "fetch", "check", "reject", "deny",
                               "complete", "register", "failed"}]
    BY <1>0 DEF TypeOK, WorkRow
  <1>3. \A u \in Worker :
          /\ pc'[u] \notin {"idle", "next", "failed"} => work'[u].current # NoEvaluation
          /\ pc'[u] \in {"check", "complete", "register"} => work'[u].final # NoEvaluation
    BY <1>0, <1>1, Constants DEF TypeOK, Matches
  <1>4. TypeOK' BY <1>0, <1>2, <1>3 DEF TypeOK, WorkRow
  <1>5. Shown' BY DEF QuoteInv, Shown
  <1>6. \A e \in Evaluation : ClaimOK(e)' BY DEF QuoteInv, ClaimOK, Matches
  <1>7. ASSUME NEW u \in Worker PROVE WorkerOK(u)'
    <2>1. CASE u # w
      <3>1. WorkerOK(u) BY DEF QuoteInv
      <3> QED BY <2>1, <3>1, <1>1 DEF WorkerOK, Carries, Owns, Matches
    <2>2. CASE u = w BY <2>2, <1>0, <1>1 DEF WorkerOK, Carries, Owns, Matches
    <2> QED BY <2>1, <2>2
  <1>8. OneOwner' BY <1>1 DEF QuoteInv, OneOwner, Owns
  <1> QED BY <1>4, <1>5, <1>6, <1>7, <1>8 DEF QuoteInv

LEMMA LeaveStep ==
    ASSUME QuoteInv, NEW w \in Worker, NEW next, next \in {"idle", "next", "failed"},
           Leave(w, next),
           UNCHANGED <<published, latest, model, claims, decisions, clock>>
    PROVE  QuoteInv'
  <1>0. TypeOK BY DEF QuoteInv
  <1>1. work[w].todo \subseteq Evaluation /\ latest \in [Line -> 0 .. MaxQuote]
    BY <1>0 DEF TypeOK
  <1>2. PICK row \in WorkRow : work' = [work EXCEPT ![w] = row]
    <2>1. NoWork \in WorkRow /\ [NoWork EXCEPT !.todo = work[w].todo] \in WorkRow
      BY <1>1, Constants DEF WorkRow
    <2> QED BY <2>1 DEF Leave
  <1> QED BY <1>1, <1>2, LocalStep DEF Leave, Go

-----------------------------------------------------------------------------
(* Steps of a pass that write no claim and no decision.                    *)

LEMMA StartKeeps ==
    ASSUME QuoteInv, NEW w \in Worker, StartPass(w)
    PROVE  QuoteInv'
  <1>0. TypeOK BY DEF QuoteInv
  <1>1. latest' \in [Line -> 0 .. MaxQuote] BY <1>0 DEF StartPass, TypeOK
  <1> DEFINE todo == {[line |-> l, generation |-> model.generation, quote |-> latest'[l]] :
                         l \in {x \in Line : latest'[x] # 0}}
             row == [work[w] EXCEPT !.todo = todo]
  <1>2. todo \subseteq Evaluation
    <2>1. \A l \in Line : latest'[l] # 0 => latest'[l] \in Quote
      BY <1>1, FinalQuoteAssumption DEF Quote
    <2>2. model.generation \in Generation BY <1>0 DEF TypeOK
    <2> QED BY <2>1, <2>2 DEF Evaluation
  <1>3. work' = [work EXCEPT ![w] = row] BY <1>0 DEF StartPass, TypeOK
  <1> HIDE DEF todo
  <1>4. row \in WorkRow BY <1>0, <1>2 DEF TypeOK, WorkRow
  <1>5. /\ pc' = [pc EXCEPT ![w] = "next"]
        /\ UNCHANGED <<published, model, claims, decisions, clock>>
    BY DEF StartPass, Go
  <1> HIDE DEF row
  <1> QED BY <1>1, <1>3, <1>4, <1>5, LocalStep

LEMMA ChooseKeeps ==
    ASSUME QuoteInv, NEW w \in Worker, Choose(w)
    PROVE  QuoteInv'
  <1>0. TypeOK /\ latest \in [Line -> 0 .. MaxQuote] BY DEF QuoteInv, TypeOK
  <1>1. PICK e \in work[w].todo :
          work' = [work EXCEPT ![w].todo = @ \ {e}, ![w].current = e]
    BY DEF Choose
  <1> DEFINE row == [work[w] EXCEPT !.todo = @ \ {e}, !.current = e]
  <1>2. e \in Evaluation BY <1>0 DEF TypeOK
  <1>3. work' = [work EXCEPT ![w] = row] BY <1>0, <1>1 DEF TypeOK
  <1>4. row \in WorkRow /\ row.current = e
    BY <1>0, <1>2 DEF TypeOK, WorkRow, MaybeEvaluation
  <1> HIDE DEF row
  <1> QED BY <1>0, <1>2, <1>3, <1>4, Constants, LocalStep DEF Choose, Go

LEMMA ReadyKeeps ==
    ASSUME QuoteInv, NEW w \in Worker, ClaimReady(w)
    PROVE  QuoteInv'
  <1>0. /\ TypeOK /\ latest \in [Line -> 0 .. MaxQuote]
        /\ work[w] \in WorkRow /\ work[w].current \in Evaluation
    BY Constants DEF QuoteInv, TypeOK, ClaimReady, WorkRow, MaybeEvaluation
  <1> DEFINE e == work[w].current
             row == [work[w] EXCEPT !.final = claims[e].final]
  <1>1. claims[e].status = "READY" /\ ClaimOK(e) BY <1>0 DEF ClaimReady, QuoteInv
  <1>2. Matches(e, claims[e].final) BY <1>1 DEF ClaimOK
  <1>3. work' = [work EXCEPT ![w] = row] BY <1>0 DEF ClaimReady, TypeOK
  <1>4. row \in WorkRow /\ row.current = e /\ row.final = claims[e].final
    BY <1>0, <1>2 DEF WorkRow, Matches, MaybeEvaluation
  <1>5. /\ pc' = [pc EXCEPT ![w] = "register"]
        /\ UNCHANGED <<published, latest, model, claims, decisions, clock>>
    BY DEF ClaimReady, Go
  <1>6. "register" \notin {"fetch", "check", "complete", "reject", "deny"} OBVIOUS
  <1>7. row.current # NoEvaluation /\ Matches(row.current, row.final)
    BY <1>0, <1>2, <1>4, Constants
  <1>8. /\ row.current \in Evaluation /\ claims[row.current].status = "READY"
        /\ claims[row.current].final = row.final
    BY <1>0, <1>1, <1>4
  <1> HIDE DEF row, e
  <1> QED BY <1>0, <1>3, <1>4, <1>5, <1>6, <1>7, <1>8, LocalStep

\* The fetched quote is at least as new as the one shown at the claim.
LEMMA FetchKeeps ==
    ASSUME QuoteInv, NEW w \in Worker, Fetch(w)
    PROVE  QuoteInv'
  <1>0. /\ TypeOK /\ work[w] \in WorkRow /\ WorkerOK(w)
        /\ work[w].current \in Evaluation /\ Owns(w)
    BY DEF QuoteInv, TypeOK, WorkRow, Fetch, WorkerOK, Carries, Owns
  <1> DEFINE e == work[w].current
             row == [work[w] EXCEPT !.final = Final(e)]
  <1>1. /\ e.line \in Line /\ published[e.line] \in Quote
        /\ latest' \in [Line -> 0 .. MaxQuote]
    <2>1. e.line \in Line BY <1>0 DEF Evaluation
    <2>2. published[e.line] \in 0 .. MaxQuote /\ published[e.line] >= 1
      BY <1>0, <2>1 DEF QuoteInv, TypeOK, Shown
    <2>3. latest' = [latest EXCEPT ![e.line] = published[e.line]] BY DEF Fetch
    <2> QED BY <1>0, <2>1, <2>2, <2>3, FinalQuoteAssumption DEF TypeOK, Quote
  <1>2. Matches(e, Final(e))
    <2>1. /\ Final(e) \in Evaluation /\ Final(e).line = e.line
          /\ Final(e).generation = e.generation /\ Final(e).quote = published[e.line]
      BY <1>0, <1>1 DEF Final, Evaluation
    <2>2. claims[e].shown <= published[e.line] BY <1>0 DEF QuoteInv, ClaimOK
    <2>3. claims[e].shown \in Int /\ published[e.line] \in Int
      BY <1>0, <1>1 DEF TypeOK, Quote
    <2> QED BY <2>1, <2>2, <2>3 DEF Matches
  <1>3. work' = [work EXCEPT ![w] = row] BY <1>0 DEF Fetch, TypeOK
  <1>4. row \in WorkRow /\ row.current = e /\ row.final = Final(e)
    BY <1>0, <1>2 DEF WorkRow, Matches, MaybeEvaluation
  <1> HIDE DEF row
  <1> QED BY <1>0, <1>1, <1>2, <1>3, <1>4, Constants, LocalStep DEF Fetch, Go

\* Steps that move on with what the pass carries.
LEMMA MoveKeeps ==
    ASSUME QuoteInv, NEW w \in Worker, FetchFails(w) \/ CheckModel(w) \/ CompleteLate(w)
    PROVE  QuoteInv'
  <1>0. /\ TypeOK /\ latest \in [Line -> 0 .. MaxQuote]
        /\ work[w] \in WorkRow /\ WorkerOK(w) /\ Owns(w)
    BY DEF QuoteInv, TypeOK, WorkRow, FetchFails, CheckModel, CompleteLate, Owns
  <1>1. /\ work' = [work EXCEPT ![w] = work[w]]
        /\ work[w].current \in Evaluation /\ claims[work[w].current].status # "NONE"
        /\ UNCHANGED <<published, latest, model, claims, decisions, clock>>
    BY <1>0 DEF TypeOK, FetchFails, CheckModel, CompleteLate, WorkerOK, Carries
  <1>2. PICK next \in {"reject", "deny", "complete", "register"} :
          /\ pc' = [pc EXCEPT ![w] = next]
          /\ next \in {"complete", "register"} => pc[w] \in {"check", "complete"}
          /\ next = "register" => claims[work[w].current].status # "REQUESTED"
    BY DEF FetchFails, CheckModel, CompleteLate, Go
  <1>3. next \in {"complete", "register"} => Matches(work[w].current, work[w].final)
    BY <1>0, <1>2 DEF WorkerOK
  <1>4. next = "register" => claims[work[w].current].takenOver
    BY <1>0, <1>2 DEF WorkerOK
  <1>5. work[w].current # NoEvaluation BY <1>1, Constants
  <1> QED BY <1>0, <1>1, <1>2, <1>3, <1>4, <1>5, LocalStep

LEMMA EndKeeps ==
    ASSUME QuoteInv, NEW w \in Worker,
           ClaimSuppressed(w) \/ CompleteFails(w) \/ RegisterReplay(w) \/ EndPass(w)
    PROVE  QuoteInv'
  BY LeaveStep DEF ClaimSuppressed, CompleteFails, RegisterReplay, EndPass

-----------------------------------------------------------------------------
(* Steps that write a claim.                                               *)

\* What a worker may do to the verification it carries or claims: the verdict
\* is not given yet, the first quote shown stays, a take-over is for good.
LEMMA ClaimStep ==
    ASSUME QuoteInv, NEW w \in Worker, NEW e \in Evaluation, e = work[w].current,
           NEW claim \in ClaimRow, NEW next, NEW row \in WorkRow,
           next \in {"idle", "next", "fetch", "register"},
           claims' = [claims EXCEPT ![e] = claim],
           pc' = [pc EXCEPT ![w] = next], work' = [work EXCEPT ![w] = row],
           UNCHANGED <<published, latest, model, decisions, clock>>,
           claims[e].status \in {"NONE", "REQUESTED"}, claim.status # "NONE",
           claim.status = "READY" <=> claim.final # NoEvaluation,
           next \notin {"idle", "next"} => row.current = e,
           next = "fetch" => claim.status = "REQUESTED",
           next = "fetch" => claims[e].status = "NONE" \/ claim.takenOver,
           claims[e].status = "NONE" => claim.shown <= published[e.line],
           claims[e].status = "REQUESTED" =>
               claim.shown = claims[e].shown /\ (claims[e].takenOver => claim.takenOver),
           next # "fetch" => Owns(w),
           next = "register" =>
               /\ claim.status = "READY" /\ claim.final = row.final
               /\ Matches(e, row.final)
           ,
           claim.status = "READY" => next = "register"
    PROVE  QuoteInv'
  <1>0. TypeOK BY DEF QuoteInv
  <1>1. /\ pc'[w] = next /\ work'[w] = row /\ claims'[e] = claim
        /\ \A u \in Worker : u # w => pc'[u] = pc[u] /\ work'[u] = work[u]
        /\ \A d \in Evaluation : d # e => claims'[d] = claims[d]
    BY <1>0 DEF TypeOK
  <1>2. e # NoEvaluation BY Constants
  <1>3. ASSUME claims[e].status = "NONE", NEW u \in Worker PROVE ~Carries(u) \/ work[u].current # e
    BY <1>3 DEF QuoteInv, WorkerOK
  <1>4. claims[e].status = "REQUESTED" \/ next = "fetch"
    BY <1>3 DEF Carries
  <1>5. \A f : Matches(e, f) /\ claims[e].status = "REQUESTED" => Matches(e, f)'
    BY <1>1 DEF Matches
  <1>6. TypeOK'
    <2>1. claims' \in [Evaluation -> ClaimRow] BY <1>0 DEF TypeOK, ClaimRow
    <2>2. \A d \in Evaluation : claims'[d].status = "READY" <=> claims'[d].final # NoEvaluation
      BY <1>0, <1>1 DEF TypeOK
    <2>3. work' \in [Worker -> WorkRow] BY <1>0 DEF TypeOK, WorkRow
    <2>4. pc' \in [Worker -> {"idle", "next", "claim", "fetch", "check", "reject", "deny",
                               "complete", "register", "failed"}]
      BY <1>0 DEF TypeOK
    <2>5. \A u \in Worker :
            /\ pc'[u] \notin {"idle", "next", "failed"} => work'[u].current # NoEvaluation
            /\ pc'[u] \in {"check", "complete", "register"} => work'[u].final # NoEvaluation
      BY <1>0, <1>1, <1>2, Constants DEF TypeOK, Matches
    <2> QED BY <1>0, <2>1, <2>2, <2>3, <2>4, <2>5 DEF TypeOK, ClaimRow, WorkRow
  <1>7. Shown' BY DEF QuoteInv, Shown
  <1>8. ASSUME NEW d \in Evaluation PROVE ClaimOK(d)'
    <2>0. ClaimOK(d) BY DEF QuoteInv
    <2>1. CASE d # e BY <2>0, <2>1, <1>1 DEF ClaimOK, Matches
    <2>2. CASE d = e
      <3>1. claim.shown <= published[e.line] BY <2>0, <2>2 DEF ClaimOK
      <3>2. claim.status = "READY" => Matches(e, claim.final)'
        BY <1>4, <1>5
      <3>3. decisions[e].outcome = "NONE" \/ claims[e].takenOver
        BY <2>0, <2>2 DEF ClaimOK
      <3>4. decisions[e].outcome # "APPROVED" BY <2>0, <2>2 DEF ClaimOK
      <3>5. decisions[e].outcome # "NONE" => claim.takenOver
        <4>1. CASE claims[e].status = "REQUESTED" BY <4>1, <3>3
        <4>2. CASE claims[e].status = "NONE" BY <4>2, <3>3, <2>0, <2>2 DEF ClaimOK
        <4> QED BY <4>1, <4>2
      <3> QED BY <3>1, <3>2, <3>4, <3>5, <2>2, <1>1 DEF ClaimOK
    <2> QED BY <2>1, <2>2
  <1>9. ASSUME NEW u \in Worker PROVE WorkerOK(u)'
    <2>0. WorkerOK(u) BY DEF QuoteInv
    <2>1. CASE u = w
      <3>1. next = "register" => Matches(e, row.final)' BY <1>4, <1>5
      <3> QED BY <2>1, <3>1, <1>1 DEF WorkerOK, Carries, Owns
    <2>2. CASE u # w /\ work[u].current # e
      BY <2>0, <2>2, <1>1 DEF WorkerOK, Carries, Owns, Matches
    <2>3. CASE u # w /\ work[u].current = e /\ ~Carries(u)
      BY <2>3, <1>1 DEF WorkerOK, Carries, Owns
    <2>4. CASE u # w /\ work[u].current = e /\ Carries(u)
      <3>1. claims[e].status = "REQUESTED" BY <2>4, <1>3
      <3>2. claim.takenOver
        <4>1. CASE claims[e].takenOver BY <4>1, <3>1
        <4>2. CASE ~claims[e].takenOver
          <5>1. pc[u] # "register" BY <4>2, <3>1, <2>0, <2>4 DEF WorkerOK
          <5>2. Owns(u) BY <5>1, <2>4 DEF Carries
          <5>3. ~Owns(w) BY <5>2, <4>2, <2>4 DEF QuoteInv, OneOwner
          <5> QED BY <5>3, <3>1
        <4> QED BY <4>1, <4>2
      <3>3. pc'[u] \in {"check", "complete", "register"} => Matches(e, work[u].final)'
        BY <2>0, <2>4, <3>1, <1>1, <1>5 DEF WorkerOK
      <3> QED BY <2>4, <3>2, <3>3, <1>1 DEF WorkerOK, Carries, Owns
    <2> QED BY <2>1, <2>2, <2>3, <2>4
  <1>10. OneOwner'
    <2> SUFFICES ASSUME NEW u \in Worker, NEW v \in Worker, u # v, Owns(u)', Owns(v)',
                        work'[u].current = work'[v].current,
                        ~claims'[work'[u].current].takenOver
                 PROVE  FALSE
      BY DEF OneOwner
    <2>1. ASSUME NEW x \in Worker, NEW y \in Worker, x = w, y # w, Owns(x)', Owns(y)',
                 work'[x].current = work'[y].current, ~claims'[work'[x].current].takenOver
          PROVE  FALSE
      <3>1. next = "fetch" /\ row.current = e BY <2>1, <1>1 DEF Owns
      <3>2. ~claim.takenOver BY <2>1, <3>1, <1>1
      <3>3. claims[e].status = "NONE" BY <3>1, <3>2
      <3>4. Owns(y) /\ work[y].current = e BY <2>1, <3>1, <1>1 DEF Owns
      <3> QED BY <3>3, <3>4, <1>3 DEF Carries
    <2>2. u # w /\ v # w BY <2>1
    <2>3. Owns(u) /\ Owns(v) /\ work[u].current = work[v].current
      BY <2>2, <1>1 DEF Owns
    <2>4. claims[work[u].current].takenOver BY <2>3 DEF QuoteInv, OneOwner
    <2>5. work[u].current = e BY <2>2, <2>3, <2>4, <1>1 DEF QuoteInv, WorkerOK, Carries
    <2> QED BY <2>2, <2>3, <2>4, <2>5, <1>1, <1>3 DEF Carries
  <1> QED BY <1>6, <1>7, <1>8, <1>9, <1>10 DEF QuoteInv

LEMMA NewClaimKeeps ==
    ASSUME QuoteInv, NEW w \in Worker, ClaimNew(w) \/ ClaimTakeOver(w)
    PROVE  QuoteInv'
  <1>0. /\ TypeOK /\ work[w] \in WorkRow /\ clock \in Time
        /\ work[w].current \in Evaluation
    BY DEF QuoteInv, TypeOK, WorkRow, ClaimNew, ClaimTakeOver, MaybeEvaluation
  <1>1. PICK e \in Evaluation : e = work[w].current BY <1>0
  <1> DEFINE row == [work[w] EXCEPT !.claimed = clock]
             new == [claims[e] EXCEPT !.status = "REQUESTED", !.requested = clock,
                                      !.shown = published[e.line]]
             again == [claims[e] EXCEPT !.requested = clock, !.takenOver = TRUE]
  <1>2. claims[e] \in ClaimRow /\ claims[e].final \in MaybeEvaluation
    BY <1>0 DEF TypeOK, ClaimRow
  <1>3. published[e.line] \in 0 .. MaxQuote BY <1>0 DEF TypeOK, Evaluation
  <1>4. row \in WorkRow /\ row.current = e BY <1>0, <1>1 DEF WorkRow
  <1>5. work' = [work EXCEPT ![w] = row]
    BY <1>0 DEF ClaimNew, ClaimTakeOver, TypeOK
  <1>6. claims[e].status # "READY" => claims[e].final = NoEvaluation BY <1>0 DEF TypeOK
  <1>7. /\ pc' = [pc EXCEPT ![w] = "fetch"]
        /\ UNCHANGED <<published, latest, model, decisions, clock>>
    BY DEF ClaimNew, ClaimTakeOver, Go
  <1>8. /\ new \in ClaimRow /\ new.status = "REQUESTED" /\ new.final = claims[e].final
        /\ new.shown = published[e.line]
    BY <1>0, <1>2, <1>3 DEF ClaimRow
  <1>9. /\ again \in ClaimRow /\ again.status = claims[e].status
        /\ again.final = claims[e].final /\ again.shown = claims[e].shown /\ again.takenOver
    BY <1>0, <1>2 DEF ClaimRow
  <1>10. CASE ClaimNew(w)
    <2>1. claims' = [claims EXCEPT ![e] = new] BY <1>10, <1>1, <1>0 DEF ClaimNew, TypeOK
    <2>2. claims[e].status = "NONE" BY <1>10, <1>1 DEF ClaimNew
    <2>3. published[e.line] <= published[e.line] BY <1>3
    <2> HIDE DEF row, new
    <2> QED BY <1>1, <1>4, <1>5, <1>6, <1>7, <1>8, <2>1, <2>2, <2>3, ClaimStep
  <1>11. CASE ClaimTakeOver(w)
    <2>1. claims' = [claims EXCEPT ![e] = again]
      BY <1>11, <1>1, <1>0 DEF ClaimTakeOver, TypeOK
    <2>2. claims[e].status = "REQUESTED" BY <1>11, <1>1 DEF ClaimTakeOver, Expired
    <2> HIDE DEF row, again
    <2> QED BY <1>1, <1>4, <1>5, <1>6, <1>7, <1>9, <2>1, <2>2, ClaimStep
  <1> QED BY <1>10, <1>11

\* A verdict: REJECTED, or READY with the evaluation of the final fetch.
LEMMA VerdictKeeps ==
    ASSUME QuoteInv, NEW w \in Worker, Reject(w) \/ Complete(w)
    PROVE  QuoteInv'
  <1>0. /\ TypeOK /\ work[w] \in WorkRow /\ Owns(w) /\ WorkerOK(w)
        /\ work[w].current \in Evaluation
    BY DEF QuoteInv, TypeOK, WorkRow, Reject, Complete, Owns, Carries, WorkerOK
  <1>1. PICK e \in Evaluation : e = work[w].current BY <1>0
  <1>2. claims[e] \in ClaimRow /\ claims[e].status # "NONE"
    BY <1>0, <1>1 DEF TypeOK, ClaimRow, WorkerOK, Carries
  <1>3. claims[e].status # "READY" => claims[e].final = NoEvaluation BY <1>0 DEF TypeOK
  <1>4. CASE Reject(w) /\ claims[e].status # "REQUESTED"
    <2>1. claims' = claims BY <1>4, <1>1, <1>2, <1>0 DEF Reject, TypeOK, ClaimRow
    <2> QED BY <1>4, <2>1, LeaveStep DEF Reject
  <1>5. CASE Reject(w) /\ claims[e].status = "REQUESTED"
    <2> DEFINE claim == [claims[e] EXCEPT !.status = "REJECTED"]
    <2>1. claims' = [claims EXCEPT ![e] = claim] BY <1>5, <1>1, <1>0 DEF Reject, TypeOK
    <2>2. /\ claim \in ClaimRow /\ claim.status = "REJECTED" /\ claim.final = claims[e].final
          /\ claim.shown = claims[e].shown /\ claim.takenOver = claims[e].takenOver
      BY <1>2 DEF ClaimRow
    <2>3. PICK next \in {"idle", "next"} : Leave(w, next) BY <1>5 DEF Reject
    <2>4. PICK row \in WorkRow : work' = [work EXCEPT ![w] = row]
      <3>1. work[w].todo \subseteq Evaluation BY <1>0 DEF WorkRow
      <3>2. NoWork \in WorkRow /\ [NoWork EXCEPT !.todo = work[w].todo] \in WorkRow
        BY <3>1, Constants DEF WorkRow
      <3> QED BY <2>3, <3>2 DEF Leave
    <2>5. /\ pc' = [pc EXCEPT ![w] = next]
          /\ UNCHANGED <<published, latest, model, decisions, clock>>
      BY <2>3, <1>5 DEF Leave, Go, Reject
    <2> HIDE DEF claim
    <2> QED BY <1>0, <1>1, <1>3, <1>5, <2>1, <2>2, <2>4, <2>5, ClaimStep
  <1>6. CASE Complete(w)
    <2> DEFINE final == work[w].final
               claim == [claims[e] EXCEPT !.status = "READY", !.final = final]
    <2>0. Matches(e, final) /\ final \in Evaluation /\ final # NoEvaluation
      BY <1>0, <1>1, <1>6, Constants DEF Complete, WorkerOK, Matches
    <2>1. claims' = [claims EXCEPT ![e] = claim] BY <1>6, <1>1, <1>0 DEF Complete, TypeOK
    <2>2. /\ claim \in ClaimRow /\ claim.status = "READY" /\ claim.final = final
          /\ claim.shown = claims[e].shown /\ claim.takenOver = claims[e].takenOver
      BY <1>2, <2>0 DEF ClaimRow, MaybeEvaluation
    <2>3. /\ claims[e].status = "REQUESTED"
          /\ pc' = [pc EXCEPT ![w] = "register"]
          /\ work' = [work EXCEPT ![w] = work[w]]
          /\ UNCHANGED <<published, latest, model, decisions, clock>>
      BY <1>6, <1>1, <1>0 DEF Complete, Go, TypeOK
    <2> HIDE DEF claim
    <2> QED BY <1>0, <1>1, <2>0, <2>1, <2>2, <2>3, ClaimStep
  <1> QED BY <1>4, <1>5, <1>6

-----------------------------------------------------------------------------
(* Registration, and the rest of the world.                                *)

LEMMA RegisterKeeps ==
    ASSUME QuoteInv, NEW w \in Worker, Register(w)
    PROVE  QuoteInv'
  <1>0. /\ TypeOK /\ work[w] \in WorkRow /\ WorkerOK(w) /\ pc[w] = "register"
        /\ work[w].current \in Evaluation
    BY DEF QuoteInv, TypeOK, WorkRow, Register, WorkerOK, Carries
  <1>1. PICK e \in Evaluation : e = work[w].current BY <1>0
  <1> DEFINE final == work[w].final
  <1>2. Matches(e, final) /\ final \in MaybeEvaluation
    BY <1>0, <1>1 DEF WorkerOK, Matches, MaybeEvaluation
  <1>3. PICK outcome \in {"APPROVED", "REJECTED"} :
          /\ outcome = "APPROVED" => ValidFinal(e, final)
          /\ decisions' = [decisions EXCEPT ![e] = [outcome |-> outcome, evaluation |-> final]]
          /\ Leave(w, IF outcome = "APPROVED" THEN "idle" ELSE "next")
    BY <1>1 DEF Register
  <1>4. UNCHANGED <<published, latest, model, claims, clock>> BY DEF Register
  <1>5. PICK next \in {"idle", "next"} : pc' = [pc EXCEPT ![w] = next]
    BY <1>3 DEF Leave, Go
  <1>6. PICK row \in WorkRow : work' = [work EXCEPT ![w] = row]
    <2>1. work[w].todo \subseteq Evaluation BY <1>0 DEF WorkRow
    <2>2. NoWork \in WorkRow /\ [NoWork EXCEPT !.todo = work[w].todo] \in WorkRow
      BY <2>1, Constants DEF WorkRow
    <2> QED BY <1>3, <2>2 DEF Leave
  <1>7. /\ pc'[w] = next /\ work'[w] = row
        /\ \A u \in Worker : u # w => pc'[u] = pc[u] /\ work'[u] = work[u]
    BY <1>0, <1>5, <1>6 DEF TypeOK
  <1>8. TypeOK'
    <2>1. decisions' \in [Evaluation -> [outcome : {"NONE", "APPROVED", "REJECTED"},
                                         evaluation : MaybeEvaluation]]
      BY <1>0, <1>2, <1>3 DEF TypeOK
    <2>2. work' \in [Worker -> WorkRow] BY <1>0, <1>6 DEF TypeOK, WorkRow
    <2>3. pc' \in [Worker -> {"idle", "next", "claim", "fetch", "check", "reject", "deny",
                              "complete", "register", "failed"}]
      BY <1>0, <1>5 DEF TypeOK
    <2>4. \A u \in Worker :
            /\ pc'[u] \notin {"idle", "next", "failed"} => work'[u].current # NoEvaluation
            /\ pc'[u] \in {"check", "complete", "register"} => work'[u].final # NoEvaluation
      BY <1>0, <1>7 DEF TypeOK
    <2> QED BY <1>0, <1>4, <2>1, <2>2, <2>3, <2>4 DEF TypeOK, WorkRow
  <1>9. Shown' BY <1>4 DEF QuoteInv, Shown
  <1>10. OneOwner' BY <1>4, <1>7 DEF QuoteInv, OneOwner, Owns
  <1>11. ASSUME NEW u \in Worker PROVE WorkerOK(u)'
    <2>1. WorkerOK(u) BY DEF QuoteInv
    <2> QED BY <2>1, <1>4, <1>7 DEF WorkerOK, Carries, Owns, Matches
  <1>12. ASSUME NEW d \in Evaluation PROVE ClaimOK(d)'
    <2>0. ClaimOK(d) BY DEF QuoteInv
    <2>1. CASE d # e
      <3>1. decisions'[d] = decisions[d] BY <2>1, <1>0, <1>3 DEF TypeOK
      <3> QED BY <2>0, <3>1, <1>4 DEF ClaimOK, Matches
    <2>2. CASE d = e
      <3>1. decisions'[e].outcome = outcome /\ decisions'[e].evaluation = final
        BY <1>0, <1>3 DEF TypeOK
      <3>2. outcome = "APPROVED" => claims[e].status = "READY" /\ claims[e].final = final
        BY <1>3 DEF ValidFinal
      <3>3. ~claims[e].takenOver => claims[e].status = "READY" /\ claims[e].final = final
        BY <1>0, <1>1 DEF WorkerOK
      <3> QED BY <2>0, <2>2, <3>1, <3>2, <3>3, <1>4 DEF ClaimOK, Matches
    <2> QED BY <2>1, <2>2
  <1> QED BY <1>8, <1>9, <1>10, <1>11, <1>12 DEF QuoteInv

LEMMA WorldKeeps ==
    ASSUME QuoteInv, (\E l \in Line : Publish(l)) \/ Activate \/ SwitchCoverage \/ Tick
    PROVE  QuoteInv'
  <1>0. TypeOK BY DEF QuoteInv
  <1>1. UNCHANGED <<latest, claims, decisions, pc, work>>
    BY DEF Publish, Activate, SwitchCoverage, Tick
  <1>2. /\ published' \in [Line -> 0 .. MaxQuote]
        /\ \A l \in Line : published'[l] \in Int /\ published'[l] >= published[l]
    BY <1>0, FinalQuoteAssumption DEF TypeOK, Publish, Activate, SwitchCoverage, Tick
  <1>3. model' \in [generation : Generation, covered : BOOLEAN]
    <2>0. model \in [generation : Generation, covered : BOOLEAN] BY <1>0 DEF TypeOK
    <2>1. CASE Activate
      <3>1. model.generation + 1 \in Generation
        BY <2>0, <2>1, FinalQuoteAssumption DEF Generation, Activate
      <3> QED BY <2>0, <2>1, <3>1 DEF Activate
    <2>2. CASE SwitchCoverage
      <3>1. model' = [model EXCEPT !.covered = ~model.covered] BY <2>2 DEF SwitchCoverage
      <3>2. (~model.covered) \in BOOLEAN BY Zenon
      <3> QED BY <2>0, <3>1, <3>2
    <2>3. CASE (\E l \in Line : Publish(l)) \/ Tick
      BY <2>0, <2>3 DEF Publish, Tick
    <2> QED BY <2>1, <2>2, <2>3
  <1>4. clock' \in Time
    BY <1>0, FinalQuoteAssumption DEF TypeOK, Time, Publish, Activate, SwitchCoverage, Tick
  <1>5. TypeOK' BY <1>0, <1>1, <1>2, <1>3, <1>4 DEF TypeOK
  <1>6. Shown'
    <2>1. \A l \in Line : published[l] \in Int /\ published[l] >= 1
      BY <1>0 DEF TypeOK, QuoteInv, Shown
    <2> QED BY <2>1, <1>2 DEF Shown
  <1>7. OneOwner' BY <1>1 DEF QuoteInv, OneOwner, Owns
  <1>8. ASSUME NEW u \in Worker PROVE WorkerOK(u)'
    <2>1. WorkerOK(u) BY DEF QuoteInv
    <2> QED BY <2>1, <1>1 DEF WorkerOK, Carries, Owns, Matches
  <1>9. ASSUME NEW e \in Evaluation PROVE ClaimOK(e)'
    <2>1. ClaimOK(e) BY DEF QuoteInv
    <2>2. claims[e].shown \in Int /\ e.line \in Line
      <3>1. claims[e].shown \in 0 .. MaxQuote BY <1>0 DEF TypeOK
      <3>2. e.line \in Line BY DEF Evaluation
      <3> QED BY <3>1, <3>2, FinalQuoteAssumption
    <2>3. published[e.line] \in Int BY <1>0, <2>2 DEF TypeOK
    <2> QED BY <2>1, <2>2, <2>3, <1>1, <1>2 DEF ClaimOK, Matches
  <1> QED BY <1>5, <1>6, <1>7, <1>8, <1>9 DEF QuoteInv

-----------------------------------------------------------------------------
(* The theorems.                                                           *)

LEMMA QuoteInvInit == Init => QuoteInv
  <1> SUFFICES ASSUME Init PROVE QuoteInv OBVIOUS
  <1>1. NoClaim \in ClaimRow /\ NoClaim.status = "NONE" /\ ~NoClaim.takenOver
        /\ NoClaim.final = NoEvaluation /\ NoClaim.shown = 0
    BY Constants DEF NoClaim, ClaimRow
  <1>2. /\ NoDecision \in [outcome : {"NONE", "APPROVED", "REJECTED"},
                            evaluation : MaybeEvaluation]
        /\ NoDecision.outcome = "NONE"
    BY Constants DEF NoDecision
  <1>3. model \in [generation : Generation, covered : BOOLEAN]
    BY FinalQuoteAssumption DEF Init, Generation
  <1>4. clock \in Time BY Constants DEF Init
  <1>5. published \in [Line -> 0 .. MaxQuote] /\ latest \in [Line -> 0 .. MaxQuote]
    BY FinalQuoteAssumption DEF Init
  <1>6. /\ claims \in [Evaluation -> ClaimRow] /\ \A e \in Evaluation : claims[e] = NoClaim
        /\ \A e \in Evaluation : decisions[e] = NoDecision
        /\ decisions \in [Evaluation -> [outcome : {"NONE", "APPROVED", "REJECTED"},
                                        evaluation : MaybeEvaluation]]
    BY <1>1, <1>2 DEF Init
  <1>7. work \in [Worker -> WorkRow] /\ \A w \in Worker : pc[w] = "idle"
    BY Constants DEF Init
  <1>8. pc \in [Worker -> {"idle", "next", "claim", "fetch", "check", "reject", "deny",
                           "complete", "register", "failed"}]
    BY DEF Init
  <1>9. TypeOK
    BY <1>1, <1>3, <1>4, <1>5, <1>6, <1>7, <1>8 DEF TypeOK, ClaimRow, WorkRow
  <1>10. Shown BY DEF Init, Shown
  <1>11. OneOwner /\ \A w \in Worker : WorkerOK(w)
    BY <1>7 DEF OneOwner, WorkerOK, Carries, Owns
  <1>12. ASSUME NEW e \in Evaluation PROVE ClaimOK(e)
    <2>1. published[e.line] = 1 BY DEF Init, Evaluation
    <2> QED BY <2>1, <1>1, <1>2, <1>6 DEF ClaimOK
  <1> QED BY <1>9, <1>10, <1>11, <1>12 DEF QuoteInv

LEMMA QuoteInvStep ==
    ASSUME QuoteInv, [Next]_vars
    PROVE  QuoteInv'
  <1>1. CASE UNCHANGED vars
    BY <1>1 DEF vars, QuoteInv, TypeOK, Shown, OneOwner, WorkerOK, ClaimOK, Carries, Owns,
                Matches
  <1>2. CASE \E w \in Worker : StartPass(w) BY <1>2, StartKeeps
  <1>3. CASE \E w \in Worker : Choose(w) BY <1>3, ChooseKeeps
  <1>4. CASE \E w \in Worker : ClaimNew(w) \/ ClaimTakeOver(w) BY <1>4, NewClaimKeeps
  <1>5. CASE \E w \in Worker : ClaimReady(w) BY <1>5, ReadyKeeps
  <1>6. CASE \E w \in Worker : Fetch(w) BY <1>6, FetchKeeps
  <1>7. CASE \E w \in Worker : FetchFails(w) \/ CheckModel(w) \/ CompleteLate(w)
    BY <1>7, MoveKeeps
  <1>8. CASE \E w \in Worker : Reject(w) \/ Complete(w) BY <1>8, VerdictKeeps
  <1>9. CASE \E w \in Worker : ClaimSuppressed(w) \/ CompleteFails(w) \/ RegisterReplay(w)
                                \/ EndPass(w)
    BY <1>9, EndKeeps
  <1>10. CASE \E w \in Worker : Register(w) BY <1>10, RegisterKeeps
  <1>11. CASE (\E l \in Line : Publish(l)) \/ Activate \/ SwitchCoverage \/ Tick
    BY <1>11, WorldKeeps
  <1> QED BY <1>1, <1>2, <1>3, <1>4, <1>5, <1>6, <1>7, <1>8, <1>9, <1>10, <1>11 DEF Next

\* The tables keep their rows' types, and what a pass carries still agrees with
\* the stored verification until that verification is taken over.
THEOREM QuoteInvariance == Spec => []QuoteInv
  <1>1. QuoteInv /\ [Next]_vars => QuoteInv' BY QuoteInvStep
  <1> QED BY QuoteInvInit, <1>1, PTL DEF Spec

\* Verifications keep the CHECK of migration 012 and passes their candidates.
THEOREM PassesTyped == Spec => []TypeOK
  <1>1. QuoteInv => TypeOK BY DEF QuoteInv
  <1> QED BY <1>1, QuoteInvariance, PTL

\* No candidate becomes a pick but on the quote and the prediction of its own
\* READY verification, however passes interleave, stop or are taken over.
THEOREM PicksStandVerified == Spec => []PicksAreVerified
  <1>1. QuoteInv => PicksAreVerified
    <2> SUFFICES ASSUME QuoteInv, NEW e \in Evaluation, decisions[e].outcome = "APPROVED"
                 PROVE  /\ claims[e].status = "READY"
                        /\ claims[e].final = decisions[e].evaluation
                        /\ decisions[e].evaluation.line = e.line
                        /\ decisions[e].evaluation.generation = e.generation
                        /\ decisions[e].evaluation.quote >= claims[e].shown
      BY DEF PicksAreVerified
    <2>1. ClaimOK(e) BY DEF QuoteInv
    <2> QED BY <2>1 DEF ClaimOK, Matches
  <1> QED BY <1>1, QuoteInvariance, PTL

\* The registration conflict that stops the process takes a slow first owner:
\* a claim nobody took over is never registered twice with different evaluations.
THEOREM ConflictsOnlyAfterTakeOver == Spec => []ConflictsNeedTakeOver
  <1>1. QuoteInv => ConflictsNeedTakeOver
    <2> SUFFICES ASSUME QuoteInv, NEW w \in Worker, pc[w] = "register",
                        decisions[work[w].current].outcome # "NONE",
                        decisions[work[w].current].evaluation # work[w].final,
                        ~claims[work[w].current].takenOver
                 PROVE  FALSE
      BY DEF ConflictsNeedTakeOver, QuoteInv, TypeOK
    <2>1. WorkerOK(w) BY DEF QuoteInv
    <2>2. work[w].current \in Evaluation /\ claims[work[w].current].final = work[w].final
      BY <2>1 DEF WorkerOK, Carries
    <2>3. ClaimOK(work[w].current) BY <2>2 DEF QuoteInv
    <2> QED BY <2>2, <2>3 DEF ClaimOK
  <1> QED BY <1>1, QuoteInvariance, PTL

\* A READY or REJECTED verification never changes again: not by the slow worker
\* whose claim was taken over, nor by a replay.
THEOREM VerdictsStay == Spec => VerdictsAreFinal
  <1> DEFINE Final1 == \A e \in Evaluation :
                         claims[e].status \in {"READY", "REJECTED"} => claims'[e] = claims[e]
  <1>1. QuoteInv /\ [Next]_vars => Final1
    <2> SUFFICES ASSUME QuoteInv, [Next]_vars PROVE Final1 OBVIOUS
    <2>0. TypeOK BY DEF QuoteInv
    <2>1. CASE UNCHANGED claims BY <2>1
    <2>2. ASSUME NEW w \in Worker,
                 ClaimNew(w) \/ ClaimTakeOver(w) \/ Reject(w) \/ Complete(w)
          PROVE  Final1
      <3>1. ASSUME NEW e \in Evaluation, claims[e].status \in {"READY", "REJECTED"}
            PROVE  claims'[e] = claims[e]
        <4>1. CASE e # work[w].current
          BY <4>1, <2>0, <2>2 DEF TypeOK, ClaimNew, ClaimTakeOver, Reject, Complete
        <4>2. CASE e = work[w].current
          <5>1. Reject(w) BY <3>1, <4>2, <2>2 DEF ClaimNew, ClaimTakeOver, Expired, Complete
          <5>2. claims[e] = [claims[e] EXCEPT !.status = claims[e].status]
            BY <2>0 DEF TypeOK
          <5> QED BY <5>1, <5>2, <4>2, <3>1, <2>0 DEF Reject, TypeOK
        <4> QED BY <4>1, <4>2
      <3> QED BY <3>1
    <2>3. UNCHANGED claims \/ \E w \in Worker :
             ClaimNew(w) \/ ClaimTakeOver(w) \/ Reject(w) \/ Complete(w)
      BY DEF Next, vars, StartPass, Choose, ClaimSuppressed, ClaimReady, Fetch, FetchFails,
             CheckModel, CompleteLate, CompleteFails, Register, RegisterReplay, EndPass,
             Publish, Activate, SwitchCoverage, Tick
    <2> QED BY <2>1, <2>2, <2>3
  <1>2. QuoteInv /\ [Next]_vars => [Final1]_vars BY <1>1
  <1> QED BY <1>2, QuoteInvariance, PTL DEF Spec, VerdictsAreFinal

=============================================================================
