------------------------- MODULE ModelLifecycleProofs -------------------------
(***************************************************************************)
(* Proofs about ModelLifecycle, for any finite set of scopes, any          *)
(* processes, policies, number of models and number of faults. A claim is  *)
(* a row in TRAINING_PENDING and nothing else: neither the marks nor the   *)
(* swap ask who made it. The invariant says how far the rows still tell    *)
(* who works on a scope, as long as its claim was not taken from anyone.   *)
(***************************************************************************)
EXTENDS ModelLifecycle, FiniteSetTheorems, TLAPS

-----------------------------------------------------------------------------
(* The inductive invariant.                                                *)

Working == {"train", "trained", "swap", "activated"}
Steps == Working \cup {"idle", "refresh", "claim", "next", "end"}

Row == [status : Status \ {"MISSING"}, eligible : BOOLEAN, due : BOOLEAN,
        expired : BOOLEAN, policy : 1 .. Policies, pointer : 0 .. MaxModels]
AnyRow == [status : Status, eligible : BOOLEAN, due : BOOLEAN,
           expired : BOOLEAN, policy : 1 .. Policies, pointer : 0 .. MaxModels]
ProcRow == [step : Steps, policy : 1 .. Policies, todo : SUBSET Scope,
            scope : Scope \cup {NoScope}, model : 0 .. MaxModels,
            expected : 0 .. MaxModels]

LifeTypes ==
    /\ coverage \in [Scope -> Row]
    /\ active \in [Scope -> [model : 0 .. MaxModels, fresh : BOOLEAN]]
    /\ proc \in [Process -> ProcRow]
    /\ models \in 0 .. MaxModels /\ deployed \in 1 .. Policies

\* What a process carries at each step of its cycle.
Shape(p) ==
    /\ proc[p].scope \notin proc[p].todo
    /\ proc[p].step \in Working <=> proc[p].scope # NoScope
    /\ proc[p].step \in {"idle", "refresh", "claim"} =>
           /\ proc[p].todo = {} /\ proc[p].model = NoModel
           /\ proc[p].expected = NoModel
    /\ Cardinality(proc[p].todo) <= MaxScopes
    /\ proc[p].model <= models

\* A scope a process works on, or will come to, is claimed and its own.
Claimed(s) ==
    /\ \A p \in Process : Holds(p, s) => Pending(s)
    /\ \A p, q \in Process : Holds(p, s) /\ Holds(q, s) => p = q

\* The version of the one trainer is newer than the active one, or is it.
Newest(s) ==
    \A p \in Process : proc[p].scope = s =>
        /\ At(p, "trained") \/ At(p, "swap") => active[s].model < proc[p].model
        /\ At(p, "activated") => active[s].model = proc[p].model

Marking(p, s) == proc[p].scope = s /\ At(p, "activated")

\* The pointer of a row is missed by nobody but a process between its swap
\* and its mark, or by a claim whose process is gone; once such a claim is
\* recovered it is out of reach of every process that refreshed before.
PointerFollows(s) ==
    /\ coverage[s].pointer <= active[s].model
    /\ coverage[s].pointer = active[s].model
           \/ Pending(s)
           \/ /\ coverage[s].status = "TRAINING_REQUIRED"
              /\ coverage[s].eligible => \A p \in Process : ~At(p, "claim")
    /\ \A p \in Process :
           Holds(p, s) /\ ~Marking(p, s) => coverage[s].pointer = active[s].model

LifeInv ==
    /\ LifeTypes
    /\ \A p \in Process : Shape(p)
    /\ \A s \in Scope : active[s].model <= models
    /\ \A s \in Scope \ disowned : Claimed(s) /\ Newest(s)
    /\ \A s \in Scope \ (disowned \cup outrun) : PointerFollows(s)

-----------------------------------------------------------------------------
(* Constants and shapes.                                                   *)

LEMMA Bounds ==
    /\ NoScope \notin Scope
    /\ Policies \in Nat /\ Policies >= 1 /\ MaxScopes \in Nat /\ MaxScopes >= 1
    /\ MaxModels \in Nat /\ IsFiniteSet(Scope)
  BY LifecycleConstants DEF NoScope

\* A process that carries nothing has the shape of its step.
LEMMA EmptyHanded ==
    ASSUME NEW policy \in 1 .. Policies
    PROVE  /\ Idle(policy) \in ProcRow
           /\ Idle(policy).step = "idle" /\ Idle(policy).policy = policy
           /\ Idle(policy).todo = {} /\ Idle(policy).scope = NoScope
           /\ Idle(policy).model = 0 /\ Idle(policy).expected = 0
           /\ Cardinality(Idle(policy).todo) <= MaxScopes
  BY Bounds, FS_EmptySet DEF Idle, ProcRow, Steps, Working, NoScope, NoModel

LEMMA InitHolds == Init => LifeInv
  <1> SUFFICES ASSUME Init PROVE LifeInv OBVIOUS
  <1>1. LifeTypes
    BY Bounds, EmptyHanded DEF Init, LifeTypes, Row, Status, Queued, NoModel
  <1>2. \A p \in Process : Shape(p)
    <2> SUFFICES ASSUME NEW p \in Process PROVE Shape(p) OBVIOUS
    <2>1. proc[p] = Idle(1) /\ 1 \in 1 .. Policies /\ models = 0 BY Bounds DEF Init
    <2> QED BY <2>1, EmptyHanded DEF Shape, Working, NoScope, NoModel
  <1>3. \A s \in Scope : active[s].model <= models
    BY DEF Init, NoModel
  <1>4. \A p \in Process, s \in Scope : ~Holds(p, s)
    BY Bounds DEF Init, Holds, Idle, NoScope
  <1>5. \A s \in Scope : Newest(s)
    BY Bounds DEF Init, Newest, Idle, NoScope
  <1>6. \A s \in Scope : PointerFollows(s)
    BY <1>4 DEF Init, PointerFollows, NoModel
  <1> QED BY <1>1, <1>2, <1>3, <1>4, <1>5, <1>6 DEF LifeInv, Claimed

-----------------------------------------------------------------------------
(* One lemma for each action.                                              *)

\* A step of p to the record next, seen from the table of processes.
LEMMA Turn ==
    ASSUME LifeTypes, NEW p \in Process, NEW next \in ProcRow, Goes(p, next)
    PROVE  /\ proc' \in [Process -> ProcRow] /\ proc'[p] = next
           /\ \A q \in Process \ {p} : proc'[q] = proc[q]
  BY DEF LifeTypes, Goes

LEMMA RecoverKeeps ==
    ASSUME LifeInv, NEW p \in Process, Recover(p)
    PROVE  LifeInv'
  <1> DEFINE next == [proc[p] EXCEPT !.step = "refresh"]
             abandoned == {s \in Scope : Pending(s) /\ coverage[s].expired}
  <1>1. proc[p] \in ProcRow /\ Shape(p) /\ At(p, "idle") /\ LifeTypes
    BY DEF LifeInv, LifeTypes, Recover
  <1>2. /\ next \in ProcRow /\ next.step = "refresh"
        /\ next.todo = proc[p].todo /\ next.scope = proc[p].scope
        /\ next.model = proc[p].model /\ next.expected = proc[p].expected
    BY <1>1 DEF ProcRow, Steps
  <1> HIDE DEF next
  <1>3. /\ proc' \in [Process -> ProcRow] /\ proc'[p] = next
        /\ \A q \in Process \ {p} : proc'[q] = proc[q]
    BY <1>1, <1>2, Turn DEF Recover, next
  <1>4. /\ coverage' = [s \in Scope |-> IF s \in abandoned THEN Requeued(coverage[s])
                                                           ELSE coverage[s]]
        /\ disowned' = disowned \cup {s \in abandoned : Trainers(s) # {}}
        /\ outrun' = outrun \cup {s \in abandoned : \E q \in Process : At(q, "claim")}
        /\ UNCHANGED <<active, models, deployed>>
    BY DEF Recover
  <1>5. \A s \in Scope : coverage[s] \in Row BY <1>1 DEF LifeTypes
  <1>6. \A s \in Scope : /\ Requeued(coverage[s]) \in Row
                         /\ Requeued(coverage[s]).status = "TRAINING_REQUIRED"
                         /\ Requeued(coverage[s]).eligible = coverage[s].eligible
                         /\ Requeued(coverage[s]).pointer = coverage[s].pointer
    BY <1>5 DEF Requeued, Row, Status, Queued
  <1>7. \A q \in Process, s \in Scope : Holds(q, s)' <=> Holds(q, s)
    BY <1>2, <1>3 DEF Holds
  <1>8. LifeTypes' BY <1>1, <1>3, <1>4, <1>5, <1>6 DEF LifeTypes
  <1>9. \A q \in Process : Shape(q)'
    BY <1>1, <1>2, <1>3, <1>4 DEF LifeInv, Shape, At, Working
  <1>10. ASSUME NEW s \in Scope \ disowned' PROVE Claimed(s)' /\ Newest(s)'
    <2>1. s \notin disowned /\ Claimed(s) /\ Newest(s) BY <1>4 DEF LifeInv
    <2>2. (\E q \in Process : Holds(q, s)) => Pending(s)'
      BY <1>4, <1>10, <2>1 DEF Claimed, Trainers, Pending
    <2>3. Claimed(s)' BY <1>7, <2>1, <2>2 DEF Claimed
    <2>4. Newest(s)' BY <1>1, <1>2, <1>3, <1>4, <2>1 DEF Newest, At
    <2> QED BY <2>3, <2>4
  <1>11. ASSUME NEW s \in Scope \ (disowned \cup outrun)' PROVE PointerFollows(s)'
    <2>1. s \notin disowned /\ PointerFollows(s) /\ Claimed(s) BY <1>4 DEF LifeInv
    <2>2. \A q \in Process : At(q, "claim")' <=> At(q, "claim")
      BY <1>1, <1>2, <1>3 DEF At
    <2>3. \A q \in Process : Marking(q, s)' <=> Marking(q, s)
      BY <1>1, <1>2, <1>3 DEF At, Marking
    <2>4. CASE s \in abandoned
      <3>1. \A q \in Process : ~Holds(q, s) /\ ~At(q, "claim")
        BY <1>4, <1>11, <2>4 DEF Trainers
      <3> QED BY <1>4, <1>6, <1>7, <2>1, <2>2, <2>4, <3>1 DEF PointerFollows
    <2>5. CASE s \notin abandoned
      <3>1. coverage'[s] = coverage[s] BY <1>4, <2>5
      <3> QED BY <1>4, <1>7, <2>1, <2>2, <2>3, <3>1 DEF PointerFollows, Pending
    <2> QED BY <2>4, <2>5
  <1>12. \A s \in Scope : active'[s].model <= models' BY <1>4 DEF LifeInv
  <1> QED BY <1>8, <1>9, <1>10, <1>11, <1>12 DEF LifeInv

LEMMA RefreshKeeps ==
    ASSUME LifeInv, NEW p \in Process, Refresh(p)
    PROVE  LifeInv'
  <1> DEFINE next == [proc[p] EXCEPT !.step = "claim"]
  <1>1. proc[p] \in ProcRow /\ Shape(p) /\ At(p, "refresh") /\ LifeTypes
    BY DEF LifeInv, LifeTypes, Refresh
  <1>2. /\ next \in ProcRow /\ next.step = "claim"
        /\ next.todo = proc[p].todo /\ next.scope = proc[p].scope
        /\ next.model = proc[p].model /\ next.expected = proc[p].expected
    BY <1>1 DEF ProcRow, Steps
  <1> HIDE DEF next
  <1>3. /\ proc' \in [Process -> ProcRow] /\ proc'[p] = next
        /\ \A q \in Process \ {p} : proc'[q] = proc[q]
    BY <1>1, <1>2, Turn DEF Refresh, next
  <1> DEFINE policy == proc[p].policy
             Seen(s) == [Inserted(coverage[s], policy) EXCEPT !.eligible = TRUE]
             Copied(s) == WithPointer(Seen(s), s)
             Fresh(s) == Scheduled(Copied(s), policy)
  <1>4. PICK required \in SUBSET Scope :
          /\ coverage' = [s \in Scope |->
                 IF s \notin required THEN [coverage[s] EXCEPT !.eligible = FALSE]
                 ELSE Fresh(s)]
          /\ disowned' = disowned \cup
                 {s \in required : Pending(s) /\ coverage'[s].status # "TRAINING_PENDING"}
    BY DEF Refresh
  <1>5. UNCHANGED <<active, models, deployed, outrun>> BY DEF Refresh
  <1>6. policy \in 1 .. Policies BY <1>1 DEF ProcRow
  <1> HIDE DEF policy
  <1>7. ASSUME NEW s \in Scope
        PROVE  /\ Seen(s) \in AnyRow
               /\ Seen(s).pointer = coverage[s].pointer
               /\ Seen(s).status = IF coverage[s].status = "ABSENT" THEN "MISSING"
                                                                  ELSE coverage[s].status
    <2>1. coverage[s] \in Row BY <1>1 DEF LifeTypes
    <2> DEFINE row == Inserted(coverage[s], policy)
    <2>2. /\ row \in AnyRow /\ row.pointer = coverage[s].pointer
          /\ row.status = IF coverage[s].status = "ABSENT" THEN "MISSING"
                                                           ELSE coverage[s].status
      BY <1>6, <2>1 DEF Row, AnyRow, Inserted, Status, Queued
    <2>3. Seen(s) = [row EXCEPT !.eligible = TRUE] OBVIOUS
    <2> HIDE DEF row
    <2>4. LET new == [row EXCEPT !.eligible = TRUE]
          IN  new \in AnyRow /\ new.pointer = row.pointer /\ new.status = row.status
      BY <2>2 DEF AnyRow
    <2> HIDE DEF Seen
    <2> QED BY <2>2, <2>3, <2>4
  <1>8. ASSUME NEW s \in Scope
        PROVE  /\ Copied(s) \in AnyRow
               /\ Copied(s).pointer = active[s].model
                      \/ /\ Copied(s) = Seen(s)
                         /\ active[s].model # NoModel =>
                                coverage[s].status \in {"TRAINING_FAILED", "INSUFFICIENT_DATA",
                                                        "TRAINING_PENDING"}
               /\ Copied(s).status = "TRAINING_PENDING" <=> Pending(s)
    <2> HIDE DEF Seen
    <2>1. active[s].model \in 0 .. MaxModels BY <1>1 DEF LifeTypes
    <2>2. Pending(s) <=> Seen(s).status = "TRAINING_PENDING" BY <1>7 DEF Pending
    <2> QED BY <1>7, <2>1, <2>2 DEF WithPointer, AnyRow, Status, Queued
  <1>9. ASSUME NEW s \in Scope
        PROVE  /\ Fresh(s) \in Row
               /\ Fresh(s).pointer = Copied(s).pointer
               /\ Fresh(s).status \in {Copied(s).status, "TRAINING_REQUIRED", "RETRAIN_REQUIRED"}
    <2> HIDE DEF Copied
    <2> QED BY <1>6, <1>8 DEF Scheduled, AnyRow, Row, Status, Queued
  <1> HIDE DEF Seen, Copied, Fresh
  <1>10. \A s \in Scope : /\ [coverage[s] EXCEPT !.eligible = FALSE] \in Row
                          /\ [coverage[s] EXCEPT !.eligible = FALSE].eligible = FALSE
                          /\ [coverage[s] EXCEPT !.eligible = FALSE].status = coverage[s].status
                          /\ [coverage[s] EXCEPT !.eligible = FALSE].pointer = coverage[s].pointer
    BY <1>1 DEF LifeTypes, Row
  <1>11. \A q \in Process, s \in Scope : Holds(q, s)' <=> Holds(q, s)
    BY <1>2, <1>3 DEF Holds
  <1>12. LifeTypes' BY <1>1, <1>3, <1>4, <1>5, <1>9, <1>10 DEF LifeTypes
  <1>13. \A q \in Process : Shape(q)'
    BY <1>1, <1>2, <1>3, <1>5 DEF LifeInv, Shape, At, Working
  <1>14. ASSUME NEW s \in Scope \ disowned' PROVE Claimed(s)' /\ Newest(s)'
    <2>1. s \notin disowned /\ Claimed(s) /\ Newest(s) BY <1>4 DEF LifeInv
    <2>2. Pending(s) => Pending(s)' BY <1>4, <1>10, <1>14 DEF Pending
    <2>3. Claimed(s)' BY <1>11, <2>1, <2>2 DEF Claimed
    <2>4. Newest(s)' BY <1>1, <1>2, <1>3, <1>5, <2>1 DEF Newest, At
    <2> QED BY <2>3, <2>4
  <1>15. ASSUME NEW s \in Scope \ (disowned \cup outrun)' PROVE PointerFollows(s)'
    <2>1. s \notin disowned /\ PointerFollows(s) BY <1>4, <1>5 DEF LifeInv
    <2>2. \A q \in Process : Marking(q, s)' <=> Marking(q, s)
      BY <1>1, <1>2, <1>3 DEF At, Marking
    <2>3. coverage[s].pointer \in 0 .. MaxModels /\ active[s].model \in 0 .. MaxModels
      BY <1>1 DEF LifeTypes, Row
    <2>4. coverage'[s].pointer = active[s].model
             \/ /\ coverage'[s].pointer = coverage[s].pointer
                /\ Pending(s)' <=> Pending(s)
                /\ Pending(s) \/ coverage[s].pointer = active[s].model \/ ~coverage'[s].eligible
                /\ coverage'[s].status = coverage[s].status
                       \/ coverage[s].pointer = active[s].model
      <3>1. CASE s \notin required
        BY <1>4, <1>10, <2>1, <3>1 DEF Pending
      <3>2. CASE s \in required /\ Copied(s).pointer # active[s].model
        <4>1. /\ coverage'[s] = Fresh(s) /\ Copied(s) = Seen(s)
              /\ Seen(s).pointer = coverage[s].pointer
          BY <1>4, <1>7, <1>8, <3>2
        <4>2. active[s].model # NoModel
          BY <1>7, <2>1, <2>3, <3>2, <4>1 DEF PointerFollows, NoModel
        <4>3. Pending(s)
          BY <1>8, <2>1, <3>2, <4>1, <4>2 DEF PointerFollows, Pending
        <4>4. Pending(s)' BY <1>4, <1>15, <3>2, <4>3 DEF Pending
        <4> QED BY <1>9, <4>1, <4>3, <4>4 DEF Pending
      <3>3. CASE s \in required /\ Copied(s).pointer = active[s].model
        BY <1>4, <1>9, <3>3
      <3> QED BY <3>1, <3>2, <3>3
    <2> QED BY <1>5, <1>11, <2>1, <2>2, <2>3, <2>4 DEF PointerFollows, Pending
  <1>16. \A s \in Scope : active'[s].model <= models' BY <1>5 DEF LifeInv
  <1> QED BY <1>12, <1>13, <1>14, <1>15, <1>16 DEF LifeInv

LEMMA ClaimKeeps ==
    ASSUME LifeInv, NEW p \in Process, Claim(p)
    PROVE  LifeInv'
  <1>1. proc[p] \in ProcRow /\ Shape(p) /\ At(p, "claim") /\ LifeTypes
    BY DEF LifeInv, LifeTypes, Claim
  <1>2. PICK claimed \in SUBSET Claimable :
          /\ Cardinality(claimed) <= MaxScopes
          /\ coverage' = [s \in Scope |->
                 IF s \in claimed
                 THEN [coverage[s] EXCEPT !.status = "TRAINING_PENDING", !.expired = FALSE]
                 ELSE coverage[s]]
          /\ Goes(p, [proc[p] EXCEPT !.step = "next", !.todo = claimed])
    BY DEF Claim
  <1> DEFINE next == [proc[p] EXCEPT !.step = "next", !.todo = claimed]
  <1>3. claimed \subseteq Scope BY DEF Claimable
  <1>4. /\ next \in ProcRow /\ next.step = "next"
        /\ next.todo = claimed /\ next.scope = NoScope
        /\ next.model = proc[p].model
    BY <1>1, <1>3 DEF ProcRow, Steps, Shape, At, Working
  <1> HIDE DEF next
  <1>5. /\ proc' \in [Process -> ProcRow] /\ proc'[p] = next
        /\ \A q \in Process \ {p} : proc'[q] = proc[q]
    BY <1>1, <1>2, <1>4, Turn DEF next
  <1>6. UNCHANGED <<active, models, deployed, disowned, outrun>> BY DEF Claim, history
  <1>7. \A s \in Scope :
            LET row == [coverage[s] EXCEPT !.status = "TRAINING_PENDING", !.expired = FALSE]
            IN  /\ row \in Row /\ row.status = "TRAINING_PENDING"
                /\ row.pointer = coverage[s].pointer
    BY <1>1 DEF LifeTypes, Row, Status
  <1>8. \A s \in claimed : ~Pending(s) /\ coverage[s].eligible
    BY DEF Claimable, Pending, Queued
  <1>9. \A s \in Scope : Holds(p, s)' <=> s \in claimed
    BY <1>4, <1>5, Bounds DEF Holds
  <1>10. \A s \in Scope, q \in Process \ {p} : Holds(q, s)' <=> Holds(q, s)
    BY <1>5 DEF Holds
  <1>11. LifeTypes' BY <1>1, <1>2, <1>5, <1>6, <1>7 DEF LifeTypes
  <1>12. \A q \in Process : Shape(q)'
    BY <1>1, <1>2, <1>3, <1>4, <1>5, <1>6, Bounds DEF LifeInv, Shape, At, Working
  <1>13. ASSUME NEW s \in Scope \ disowned' PROVE Claimed(s)' /\ Newest(s)'
    <2>1. s \notin disowned /\ Claimed(s) /\ Newest(s) BY <1>6 DEF LifeInv
    <2>2. s \in claimed => Pending(s)' /\ \A q \in Process : ~Holds(q, s)
      BY <1>2, <1>7, <1>8, <2>1 DEF Claimed, Pending
    <2>3. s \notin claimed => Pending(s)' = Pending(s) BY <1>2 DEF Pending
    <2>4. Claimed(s)' BY <1>9, <1>10, <2>1, <2>2, <2>3 DEF Claimed
    <2>5. Newest(s)' BY <1>4, <1>5, <1>6, <2>1, Bounds DEF Newest, At
    <2> QED BY <2>4, <2>5
  <1>14. ASSUME NEW s \in Scope \ (disowned \cup outrun)' PROVE PointerFollows(s)'
    <2>1. s \notin disowned /\ PointerFollows(s) BY <1>6 DEF LifeInv
    <2>2. CASE s \in claimed
      <3>1. coverage[s].pointer = active[s].model
        BY <1>1, <1>8, <2>1, <2>2 DEF PointerFollows
      <3>2. coverage'[s].pointer = coverage[s].pointer BY <1>2, <1>7, <2>2
      <3>3. active[s].model \in Nat BY <1>1, Bounds DEF LifeTypes
      <3> QED BY <1>6, <3>1, <3>2, <3>3 DEF PointerFollows
    <2>3. CASE s \notin claimed
      <3>1. coverage'[s] = coverage[s] BY <1>2, <2>3
      <3>2. \A q \in Process : At(q, "claim")' => At(q, "claim") BY <1>4, <1>5 DEF At
      <3>3. \A q \in Process \ {p} : Marking(q, s)' <=> Marking(q, s)
        BY <1>5 DEF Marking, At
      <3> QED BY <1>6, <1>9, <1>10, <2>1, <2>3, <3>1, <3>2, <3>3 DEF PointerFollows, Pending
    <2> QED BY <2>2, <2>3
  <1>15. \A s \in Scope : active'[s].model <= models' BY <1>6 DEF LifeInv
  <1> QED BY <1>11, <1>12, <1>13, <1>14, <1>15 DEF LifeInv

\* Steps that only change what a process works on, within what it holds, or
\* that drop it.
LEMMA WorkStep ==
    ASSUME LifeInv, NEW p \in Process, NEW next \in ProcRow, Goes(p, next),
           UNCHANGED <<coverage, active, deployed, disowned, outrun>>,
           models' \in 0 .. MaxModels, models' >= models,
           next.scope \notin next.todo,
           next.step \in Working <=> next.scope # NoScope,
           next.step \in {"idle", "refresh", "claim"} =>
               next.todo = {} /\ next.model = NoModel /\ next.expected = NoModel,
           Cardinality(next.todo) <= MaxScopes, next.model <= models',
           \A s \in Scope : s \in next.todo \/ next.scope = s => Holds(p, s),
           next.step \notin {"claim", "activated"},
           \A s \in Scope : Holds(p, s) /\ Marking(p, s) => next.todo = {} /\ next.scope = NoScope,
           next.step \in {"trained", "swap"} /\ next.scope \notin disowned =>
               active[next.scope].model < next.model
    PROVE  LifeInv'
  <1>1. LifeTypes BY DEF LifeInv
  <1>2. /\ proc' \in [Process -> ProcRow] /\ proc'[p] = next
        /\ \A q \in Process \ {p} : proc'[q] = proc[q]
    BY <1>1, Turn
  <1>3. LifeTypes' BY <1>1, <1>2 DEF LifeTypes
  <1>4. ASSUME NEW q \in Process PROVE Shape(q)'
    <2>1. models \in Nat /\ models' \in Nat /\ proc[q].model \in Nat
      BY <1>1, Bounds DEF LifeTypes, ProcRow
    <2>2. q # p => proc[q].model <= models'
      BY <2>1 DEF LifeInv, Shape
    <2> QED BY <1>2, <2>2 DEF LifeInv, Shape
  <1>5. \A s \in Scope : Holds(p, s)' => Holds(p, s) /\ ~Marking(p, s)
    BY <1>2, Bounds DEF Holds
  <1>6. \A s \in Scope, q \in Process \ {p} : Holds(q, s)' <=> Holds(q, s)
    BY <1>2 DEF Holds
  <1>7. ASSUME NEW s \in Scope \ disowned' PROVE Claimed(s)' /\ Newest(s)'
    <2>1. s \notin disowned /\ Claimed(s) /\ Newest(s) BY DEF LifeInv
    <2>2. Claimed(s)' BY <1>5, <1>6, <2>1 DEF Claimed, Pending
    <2>3. Newest(s)' BY <1>2, <2>1 DEF Newest, At
    <2> QED BY <2>2, <2>3
  <1>8. ASSUME NEW s \in Scope \ (disowned \cup outrun)' PROVE PointerFollows(s)'
    <2>1. s \notin disowned /\ PointerFollows(s) BY DEF LifeInv
    <2>2. \A q \in Process : At(q, "claim")' => At(q, "claim") BY <1>2 DEF At
    <2>3. \A q \in Process \ {p} : Marking(q, s)' <=> Marking(q, s) BY <1>2 DEF Marking, At
    <2> QED BY <1>5, <1>6, <2>1, <2>2, <2>3 DEF PointerFollows, Pending
  <1>9. \A s \in Scope : active'[s].model <= models'
    <2>1. models \in Nat /\ models' \in Nat /\ \A s \in Scope : active[s].model \in Nat
      BY <1>1, Bounds DEF LifeTypes
    <2> QED BY <2>1 DEF LifeInv
  <1> QED BY <1>3, <1>4, <1>7, <1>8, <1>9 DEF LifeInv

LEMMA BeginKeeps ==
    ASSUME LifeInv, NEW p \in Process, Begin(p)
    PROVE  LifeInv'
  <1>1. proc[p] \in ProcRow /\ Shape(p) /\ At(p, "next") /\ LifeTypes
    BY DEF LifeInv, LifeTypes, Begin
  <1>2. PICK s \in proc[p].todo :
            Goes(p, [proc[p] EXCEPT !.step = "train", !.scope = s, !.todo = @ \ {s}])
    BY DEF Begin
  <1> DEFINE next == [proc[p] EXCEPT !.step = "train", !.scope = s, !.todo = @ \ {s}]
  <1>3. s \in Scope /\ IsFiniteSet(proc[p].todo)
    BY <1>1, Bounds, FS_Subset DEF ProcRow
  <1>4. /\ next \in ProcRow /\ next.step = "train"
        /\ next.todo = proc[p].todo \ {s} /\ next.scope = s
        /\ next.model = proc[p].model
    BY <1>1, <1>3 DEF ProcRow, Steps, Working
  <1> HIDE DEF next
  <1>5. Cardinality(next.todo) <= MaxScopes
    <2>1. Cardinality(proc[p].todo) \in Nat /\ Cardinality(proc[p].todo) <= MaxScopes
      BY <1>1, <1>3, FS_CardinalityType DEF Shape
    <2>2. Cardinality(proc[p].todo \ {s}) = Cardinality(proc[p].todo) - 1
      BY <1>3, FS_RemoveElement
    <2> QED BY <1>4, <2>1, <2>2, Bounds
  <1>6. Goes(p, next) BY <1>2 DEF next
  <1>7. UNCHANGED <<coverage, active, models, deployed, disowned, outrun>>
    BY DEF Begin, history
  <1>8. models \in 0 .. MaxModels /\ models <= models BY <1>1 DEF LifeTypes
  <1>9. \A r \in Scope : ~Marking(p, r) BY <1>1 DEF Marking, At
  <1>10. \A r \in Scope : r \in next.todo \/ next.scope = r => Holds(p, r)
    BY <1>4 DEF Holds
  <1>11. next.step \in Working /\ next.scope # NoScope /\ next.model <= models
    BY <1>1, <1>3, <1>4, Bounds DEF Working, Shape
  <1> QED BY <1>4, <1>5, <1>6, <1>7, <1>8, <1>9, <1>10, <1>11, WorkStep

LEMMA TrainKeeps ==
    ASSUME LifeInv, NEW p \in Process, Train(p)
    PROVE  LifeInv'
  <1> DEFINE next == [proc[p] EXCEPT !.step = "trained", !.model = models + 1]
  <1>1. proc[p] \in ProcRow /\ Shape(p) /\ At(p, "train") /\ LifeTypes
    BY DEF LifeInv, LifeTypes, Train
  <1>2. models \in Nat /\ models + 1 \in 0 .. MaxModels
    BY <1>1, Bounds DEF Train, LifeTypes
  <1>3. /\ next \in ProcRow /\ next.step = "trained" /\ next.model = models + 1
        /\ next.todo = proc[p].todo /\ next.scope = proc[p].scope
    BY <1>1, <1>2 DEF ProcRow, Steps, Working
  <1> HIDE DEF next
  <1>4. Goes(p, next) /\ models' = models + 1
        /\ UNCHANGED <<coverage, active, deployed, disowned, outrun>>
    BY DEF Train, history, next
  <1>5. /\ next.scope \notin next.todo /\ Cardinality(next.todo) <= MaxScopes
        /\ next.scope # NoScope
    BY <1>1, <1>3 DEF Shape, At, Working
  <1>6. next.scope \in Scope BY <1>3, <1>5 DEF ProcRow
  <1>7. active[next.scope].model < next.model
    <2>1. active[next.scope].model \in Nat /\ active[next.scope].model <= models
      BY <1>1, <1>6, Bounds DEF LifeTypes, LifeInv
    <2> QED BY <1>2, <1>3, <2>1
  <1>8. \A r \in Scope : ~Marking(p, r) BY <1>1 DEF Marking, At
  <1>9. \A r \in Scope : r \in next.todo \/ next.scope = r => Holds(p, r)
    BY <1>3 DEF Holds
  <1>10. models' \in 0 .. MaxModels /\ models' >= models BY <1>2, <1>4
  <1> QED BY <1>3, <1>4, <1>5, <1>7, <1>8, <1>9, <1>10, WorkStep DEF Working

LEMMA ReadActiveKeeps ==
    ASSUME LifeInv, NEW p \in Process, ReadActive(p)
    PROVE  LifeInv'
  <1> DEFINE s == proc[p].scope
             next == [proc[p] EXCEPT !.step = "swap", !.expected = active[s].model]
  <1>1. proc[p] \in ProcRow /\ Shape(p) /\ At(p, "trained") /\ LifeTypes
    BY DEF LifeInv, LifeTypes, ReadActive
  <1>2. s \in Scope BY <1>1 DEF Shape, At, Working, ProcRow
  <1>3. active[s].model \in 0 .. MaxModels BY <1>1, <1>2 DEF LifeTypes
  <1>4. /\ next \in ProcRow /\ next.step = "swap" /\ next.model = proc[p].model
        /\ next.todo = proc[p].todo /\ next.scope = s
    BY <1>1, <1>3 DEF ProcRow, Steps, Working
  <1>5. Goes(p, next) BY DEF ReadActive
  <1> HIDE DEF next
  <1>6. UNCHANGED <<coverage, active, models, deployed, disowned, outrun>>
    BY DEF ReadActive, history
  <1>7. /\ next.scope \notin next.todo /\ Cardinality(next.todo) <= MaxScopes
        /\ next.scope # NoScope /\ next.model <= models
    BY <1>1, <1>4 DEF Shape, At, Working
  <1>8. s \notin disowned => active[s].model < proc[p].model
    BY <1>1, <1>2 DEF LifeInv, Newest
  <1>9. \A r \in Scope : ~Marking(p, r) BY <1>1 DEF Marking, At
  <1>10. \A r \in Scope : r \in next.todo \/ next.scope = r => Holds(p, r)
    BY <1>4 DEF Holds
  <1>11. models \in 0 .. MaxModels /\ models <= models BY <1>1 DEF LifeTypes
  <1> QED BY <1>4, <1>5, <1>6, <1>7, <1>8, <1>9, <1>10, <1>11, WorkStep DEF Working

\* A process starts again with empty hands, after a release or a crash.
LEMMA RestartKeeps ==
    ASSUME LifeInv, NEW p \in Process, Goes(p, Idle(deployed)),
           UNCHANGED <<coverage, active, models, deployed, disowned, outrun>>
    PROVE  LifeInv'
  <1>1. LifeTypes /\ deployed \in 1 .. Policies BY DEF LifeInv, LifeTypes
  <1>2. models \in 0 .. MaxModels /\ models <= models /\ 0 <= models
    BY <1>1 DEF LifeTypes
  <1> QED
    BY <1>1, <1>2, EmptyHanded, Bounds, WorkStep DEF Working, NoModel

-----------------------------------------------------------------------------
(* Steps that write a row.                                                 *)

\* p is done with its scope, whose row now names the active model.
LEMMA LetGo ==
    ASSUME LifeInv, NEW p \in Process, At(p, "train") \/ At(p, "swap") \/ At(p, "activated"),
           Goes(p, Proceeds(p)) \/ Goes(p, Breaks(p)),
           NEW row \in Row, coverage' = [coverage EXCEPT ![proc[p].scope] = row],
           proc[p].scope \notin disowned \cup outrun =>
               row.pointer = active[proc[p].scope].model,
           UNCHANGED <<active, models, deployed, disowned, outrun>>
    PROVE  LifeInv'
  <1>1. proc[p] \in ProcRow /\ Shape(p) /\ LifeTypes BY DEF LifeInv, LifeTypes
  <1>2. PICK next : next \in {Proceeds(p), Breaks(p)} /\ Goes(p, next) OBVIOUS
  <1>3. /\ next \in ProcRow /\ next.step \in {"next", "end"}
        /\ next.todo = proc[p].todo /\ next.scope = NoScope /\ next.model = 0
    <2>1. /\ Proceeds(p) \in ProcRow /\ Proceeds(p).step = "next"
          /\ Proceeds(p).todo = proc[p].todo /\ Proceeds(p).scope = NoScope
          /\ Proceeds(p).model = 0
      <3>1. 0 \in 0 .. MaxModels BY Bounds
      <3> QED BY <1>1, <3>1 DEF Proceeds, ProcRow, Steps, NoModel
    <2>2. /\ Breaks(p) \in ProcRow /\ Breaks(p).step = "end"
          /\ Breaks(p).todo = proc[p].todo /\ Breaks(p).scope = NoScope
          /\ Breaks(p).model = 0
      <3> HIDE DEF Proceeds
      <3> QED BY <2>1 DEF Breaks, ProcRow, Steps
    <2> QED BY <1>2, <2>1, <2>2
  <1>4. /\ proc' \in [Process -> ProcRow] /\ proc'[p] = next
        /\ \A q \in Process \ {p} : proc'[q] = proc[q]
    BY <1>1, <1>2, <1>3, Turn
  <1> DEFINE s == proc[p].scope
  <1>5. s \in Scope /\ Holds(p, s) BY <1>1 DEF Shape, At, Working, ProcRow, Holds
  <1> HIDE DEF s
  <1>6. /\ coverage'[s] = row /\ coverage' \in [Scope -> Row]
        /\ \A r \in Scope \ {s} : coverage'[r] = coverage[r]
    BY <1>1, <1>5 DEF LifeTypes, s
  <1>7. LifeTypes' BY <1>1, <1>4, <1>6 DEF LifeTypes
  <1>8. \A q \in Process : Shape(q)'
    <2>1. Shape(p)'
      <3>1. models \in Nat /\ models' = models BY <1>1, Bounds DEF LifeTypes
      <3> QED BY <1>1, <1>3, <1>4, <3>1, Bounds DEF Shape, Working, ProcRow
    <2> QED BY <1>4, <2>1 DEF LifeInv, Shape
  <1>9. \A r \in Scope : Holds(p, r)' <=> Holds(p, r) /\ r # s
    BY <1>1, <1>3, <1>4, Bounds DEF Holds, Shape, s
  <1>10. \A r \in Scope, q \in Process \ {p} : Holds(q, r)' <=> Holds(q, r)
    BY <1>4 DEF Holds
  <1>11. ASSUME NEW r \in Scope \ disowned' PROVE Claimed(r)' /\ Newest(r)'
    <2>1. r \notin disowned /\ Claimed(r) /\ Newest(r) BY DEF LifeInv
    <2>2. r = s => \A q \in Process : ~Holds(q, r)' BY <1>5, <1>9, <1>10, <2>1 DEF Claimed
    <2>3. r # s => Pending(r)' = Pending(r) BY <1>6 DEF Pending
    <2>4. Claimed(r)' BY <1>9, <1>10, <2>1, <2>2, <2>3 DEF Claimed
    <2>5. Newest(r)' BY <1>3, <1>4, <2>1, Bounds DEF Newest, At
    <2> QED BY <2>4, <2>5
  <1>12. ASSUME NEW r \in Scope \ (disowned \cup outrun)' PROVE PointerFollows(r)'
    <2>1. r \notin disowned \cup outrun /\ PointerFollows(r) /\ Claimed(r) BY DEF LifeInv
    <2>2. \A q \in Process : At(q, "claim")' => At(q, "claim") BY <1>3, <1>4 DEF At
    <2>3. \A q \in Process \ {p} : Marking(q, r)' <=> Marking(q, r) BY <1>4 DEF Marking, At
    <2>4. CASE r = s
      <3>1. coverage'[r].pointer = active[r].model BY <1>6, <2>1, <2>4 DEF s
      <3>2. active[r].model \in Nat BY <1>1, Bounds DEF LifeTypes
      <3> QED BY <3>1, <3>2 DEF PointerFollows
    <2>5. CASE r # s
      <3>1. coverage'[r] = coverage[r] /\ ~Marking(p, r) BY <1>6, <2>5 DEF Marking, s
      <3> QED BY <1>9, <1>10, <2>1, <2>2, <2>3, <3>1 DEF PointerFollows, Pending
    <2> QED BY <2>4, <2>5
  <1>13. \A r \in Scope : active'[r].model <= models' BY DEF LifeInv
  <1> QED BY <1>7, <1>8, <1>11, <1>12, <1>13 DEF LifeInv

LEMMA ReleaseKeeps ==
    ASSUME LifeInv, NEW p \in Process, Release(p)
    PROVE  LifeInv'
  <1> DEFINE s == proc[p].scope
             row == IF Pending(s) THEN Requeued(coverage[s]) ELSE coverage[s]
  <1>1. LifeTypes /\ Shape(p) /\ At(p, "train") BY DEF LifeInv, Release
  <1>2. s \in Scope /\ Holds(p, s) BY <1>1 DEF LifeTypes, Shape, At, Working, ProcRow, Holds
  <1>3. coverage[s] \in Row BY <1>1, <1>2 DEF LifeTypes
  <1>4. row \in Row /\ row.pointer = coverage[s].pointer
    BY <1>3 DEF Requeued, Row, Status, Queued
  <1>5. coverage' = [coverage EXCEPT ![s] = row] BY <1>1, <1>2 DEF Release, Pending, LifeTypes
  <1>6. s \notin disowned \cup outrun => coverage[s].pointer = active[s].model
    BY <1>1, <1>2 DEF LifeInv, PointerFollows, Marking, At
  <1> HIDE DEF row
  <1> QED BY <1>1, <1>4, <1>5, <1>6, LetGo DEF Release, history

LEMMA FailKeeps ==
    ASSUME LifeInv, NEW p \in Process, Fail(p)
    PROVE  LifeInv'
  <1> DEFINE s == proc[p].scope
  <1>1. LifeTypes /\ Shape(p) /\ At(p, "train") BY DEF LifeInv, Fail
  <1>2. s \in Scope /\ Holds(p, s) BY <1>1 DEF LifeTypes, Shape, At, Working, ProcRow, Holds
  <1>3. coverage[s] \in Row BY <1>1, <1>2 DEF LifeTypes
  <1>4. PICK status \in {"TRAINING_FAILED", "INSUFFICIENT_DATA"} :
            coverage' = [coverage EXCEPT ![s] = [@ EXCEPT !.status = status, !.due = FALSE]]
    BY DEF Fail
  <1> DEFINE row == [coverage[s] EXCEPT !.status = status, !.due = FALSE]
  <1>5. row \in Row /\ row.pointer = coverage[s].pointer
    BY <1>3 DEF Row, Status, Queued
  <1>6. coverage' = [coverage EXCEPT ![s] = row] BY <1>4
  <1>7. s \notin disowned \cup outrun => coverage[s].pointer = active[s].model
    BY <1>1, <1>2 DEF LifeInv, PointerFollows, Marking, At
  <1> HIDE DEF row
  <1> QED BY <1>1, <1>5, <1>6, <1>7, LetGo DEF Fail, history

LEMMA MarkActiveKeeps ==
    ASSUME LifeInv, NEW p \in Process, MarkActive(p)
    PROVE  LifeInv'
  <1> DEFINE s == proc[p].scope
             row == [coverage[s] EXCEPT !.status = "ACTIVE", !.due = TRUE,
                                        !.pointer = proc[p].model]
  <1>1. LifeTypes /\ Shape(p) /\ At(p, "activated") BY DEF LifeInv, MarkActive
  <1>2. s \in Scope /\ proc[p].model \in 0 .. MaxModels
    BY <1>1 DEF LifeTypes, Shape, At, Working, ProcRow
  <1>3. coverage[s] \in Row BY <1>1, <1>2 DEF LifeTypes
  <1>4. row \in Row /\ row.pointer = proc[p].model BY <1>2, <1>3 DEF Row, Status, Queued
  <1>5. coverage' = [coverage EXCEPT ![s] = row] BY DEF MarkActive
  <1>6. s \notin disowned => proc[p].model = active[s].model
    BY <1>1, <1>2 DEF LifeInv, Newest
  <1> HIDE DEF row
  <1> QED BY <1>1, <1>4, <1>5, <1>6, LetGo DEF MarkActive, history

\* The compare_and_swap that finds what it expects: p alone works on the
\* scope, with a version newer than the active one.
LEMMA SwapKeeps ==
    ASSUME LifeInv, NEW p \in Process, Swap(p)
    PROVE  LifeInv'
  <1> DEFINE s == proc[p].scope
  <1>1. LifeTypes /\ Shape(p) /\ At(p, "swap") /\ proc[p] \in ProcRow
    BY DEF LifeInv, LifeTypes, Swap
  <1>2. s \in Scope /\ Holds(p, s) /\ proc[p].model \in 0 .. MaxModels
    BY <1>1 DEF Shape, At, Working, ProcRow, Holds
  <1>3. UNCHANGED <<models, deployed, disowned, outrun>> BY DEF Swap, history
  <1>4. CASE active[s].model # proc[p].expected
    <2> DEFINE row == [coverage[s] EXCEPT !.status = "TRAINING_FAILED", !.due = FALSE]
    <2>1. /\ coverage' = [coverage EXCEPT ![s] = row]
          /\ Goes(p, Proceeds(p)) /\ UNCHANGED active
      BY <1>4 DEF Swap
    <2>2. coverage[s] \in Row BY <1>1, <1>2 DEF LifeTypes
    <2>3. row \in Row /\ row.pointer = coverage[s].pointer
      BY <2>2 DEF Row, Status, Queued
    <2>4. s \notin disowned \cup outrun => coverage[s].pointer = active[s].model
      BY <1>1, <1>2 DEF LifeInv, PointerFollows, Marking, At
    <2> HIDE DEF row
    <2> QED BY <1>1, <1>3, <2>1, <2>3, <2>4, LetGo
  <1>5. CASE active[s].model = proc[p].expected
    <2> DEFINE next == [proc[p] EXCEPT !.step = "activated"]
    <2>1. /\ active' = [active EXCEPT ![s] = [model |-> proc[p].model, fresh |-> TRUE]]
          /\ Goes(p, next) /\ UNCHANGED coverage
      BY <1>5 DEF Swap
    <2>2. /\ next \in ProcRow /\ next.step = "activated" /\ next.model = proc[p].model
          /\ next.todo = proc[p].todo /\ next.scope = s
      BY <1>1 DEF ProcRow, Steps, Working
    <2> HIDE DEF next
    <2>3. /\ proc' \in [Process -> ProcRow] /\ proc'[p] = next
          /\ \A q \in Process \ {p} : proc'[q] = proc[q]
      BY <1>1, <2>1, <2>2, Turn
    <2>4. /\ active' \in [Scope -> [model : 0 .. MaxModels, fresh : BOOLEAN]]
          /\ active'[s].model = proc[p].model
          /\ \A r \in Scope \ {s} : active'[r] = active[r]
      BY <1>1, <1>2, <2>1 DEF LifeTypes
    <2>5. LifeTypes' BY <1>1, <1>3, <2>1, <2>3, <2>4 DEF LifeTypes
    <2>6. \A q \in Process : Shape(q)'
      BY <1>1, <1>3, <2>2, <2>3 DEF LifeInv, Shape, At, Working
    <2>7. \A r \in Scope, q \in Process : Holds(q, r)' <=> Holds(q, r)
      BY <2>2, <2>3 DEF Holds
    <2>8. ASSUME NEW r \in Scope \ disowned' PROVE Claimed(r)' /\ Newest(r)'
      <3>1. r \notin disowned /\ Claimed(r) /\ Newest(r) BY <1>3 DEF LifeInv
      <3>2. Claimed(r)' BY <2>1, <2>7, <3>1 DEF Claimed, Pending
      <3>3. r = s => \A q \in Process : proc'[q].scope = r => q = p
        BY <1>2, <2>7, <3>1 DEF Claimed, Holds
      <3>4. Newest(r)'
        BY <2>2, <2>3, <2>4, <3>1, <3>3 DEF Newest, At
      <3> QED BY <3>2, <3>4
    <2>9. ASSUME NEW r \in Scope \ (disowned \cup outrun)' PROVE PointerFollows(r)'
      <3>1. r \notin disowned /\ PointerFollows(r) /\ Claimed(r) /\ Newest(r)
        BY <1>3 DEF LifeInv
      <3>2. \A q \in Process : At(q, "claim")' => At(q, "claim") BY <2>2, <2>3 DEF At
      <3>3. CASE r = s
        <4>1. Pending(r)' BY <1>2, <2>1, <3>1, <3>3 DEF Claimed, Pending
        <4>2. Marking(p, r)' BY <2>2, <2>3, <3>3 DEF Marking, At
        <4>3. \A q \in Process : Holds(q, r)' => q = p
          BY <1>2, <2>7, <3>1, <3>3 DEF Claimed
        <4>4. active[r].model < proc[p].model BY <1>1, <3>1, <3>3 DEF Newest
        <4>5. coverage[r].pointer \in Nat /\ active[r].model \in Nat /\ proc[p].model \in Nat
          BY <1>1, <1>2, <3>3, Bounds DEF LifeTypes, Row
        <4>6. coverage'[r].pointer <= active'[r].model
          BY <2>1, <2>4, <3>1, <3>3, <4>4, <4>5 DEF PointerFollows
        <4> QED BY <4>1, <4>2, <4>3, <4>6 DEF PointerFollows
      <3>4. CASE r # s
        <4>1. active'[r] = active[r] BY <2>4, <3>4
        <4>2. \A q \in Process : Marking(q, r)' <=> Marking(q, r)
          BY <2>2, <2>3, <3>4 DEF Marking, At
        <4> QED BY <2>1, <2>7, <3>1, <3>2, <4>1, <4>2 DEF PointerFollows, Pending
      <3> QED BY <3>3, <3>4
    <2>10. ASSUME NEW r \in Scope PROVE active'[r].model <= models'
      <3>1. active[r].model <= models /\ proc[p].model <= models BY <1>1 DEF LifeInv, Shape
      <3> QED BY <1>3, <2>4, <3>1
    <2> QED BY <2>5, <2>6, <2>8, <2>9, <2>10 DEF LifeInv
  <1> QED BY <1>4, <1>5

LEMMA EndKeeps ==
    ASSUME LifeInv, NEW p \in Process, End(p)
    PROVE  LifeInv'
  <1>1. proc[p] \in ProcRow /\ Shape(p) /\ LifeTypes /\ (At(p, "end") \/ At(p, "next"))
    BY DEF LifeInv, LifeTypes, End
  <1> DEFINE next == Idle(proc[p].policy)
             left == {s \in Scope : s \in proc[p].todo /\ Pending(s)}
  <1>2. proc[p].policy \in 1 .. Policies BY <1>1 DEF ProcRow
  <1>3. /\ next \in ProcRow /\ next.step = "idle" /\ next.todo = {} /\ next.scope = NoScope
        /\ next.model = 0 /\ next.expected = 0 /\ Cardinality(next.todo) <= MaxScopes
    BY <1>2, EmptyHanded
  <1>4. Goes(p, next) BY DEF End
  <1> HIDE DEF next
  <1>5. /\ proc' \in [Process -> ProcRow] /\ proc'[p] = next
        /\ \A q \in Process \ {p} : proc'[q] = proc[q]
    BY <1>1, <1>3, <1>4, Turn
  <1>6. UNCHANGED <<active, models, deployed, disowned, outrun>> BY DEF End, history
  <1>7. coverage' = [s \in Scope |-> IF s \in left THEN Requeued(coverage[s])
                                                   ELSE coverage[s]]
    BY DEF End
  <1>8. \A s \in Scope : /\ Requeued(coverage[s]) \in Row
                         /\ Requeued(coverage[s]).pointer = coverage[s].pointer
    BY <1>1 DEF LifeTypes, Requeued, Row, Status, Queued
  <1>9. \A s \in Scope : ~Holds(p, s)' BY <1>3, <1>5, Bounds DEF Holds
  <1>10. \A s \in Scope, q \in Process \ {p} : Holds(q, s)' <=> Holds(q, s)
    BY <1>5 DEF Holds
  <1>11. \A s \in left : Holds(p, s) /\ ~Marking(p, s)
    BY <1>1 DEF Holds, Marking, At
  <1>12. LifeTypes' BY <1>1, <1>5, <1>6, <1>7, <1>8 DEF LifeTypes
  <1>13. \A q \in Process : Shape(q)'
    <2>1. 0 <= models' BY <1>1, <1>6, Bounds DEF LifeTypes
    <2>2. Shape(p)' BY <1>3, <1>5, <2>1 DEF Shape, Working, NoModel
    <2> QED BY <1>5, <1>6, <2>2 DEF LifeInv, Shape
  <1>14. ASSUME NEW s \in Scope \ disowned' PROVE Claimed(s)' /\ Newest(s)'
    <2>1. s \notin disowned /\ Claimed(s) /\ Newest(s) BY <1>6 DEF LifeInv
    <2>2. s \in left => \A q \in Process : ~Holds(q, s)'
      BY <1>9, <1>10, <1>11, <2>1 DEF Claimed
    <2>3. s \notin left => Pending(s)' = Pending(s) BY <1>7 DEF Pending
    <2>4. Claimed(s)' BY <1>9, <1>10, <2>1, <2>2, <2>3 DEF Claimed
    <2>5. Newest(s)' BY <1>3, <1>5, <1>6, <2>1, Bounds DEF Newest, At
    <2> QED BY <2>4, <2>5
  <1>15. ASSUME NEW s \in Scope \ (disowned \cup outrun)' PROVE PointerFollows(s)'
    <2>1. s \notin disowned /\ PointerFollows(s) BY <1>6 DEF LifeInv
    <2>2. \A q \in Process : At(q, "claim")' => At(q, "claim") BY <1>3, <1>5 DEF At
    <2>3. \A q \in Process \ {p} : Marking(q, s)' <=> Marking(q, s) BY <1>5 DEF Marking, At
    <2>4. active[s].model \in Nat BY <1>1, Bounds DEF LifeTypes
    <2>5. CASE s \in left
      <3>1. coverage'[s].pointer = active[s].model
        BY <1>7, <1>8, <1>11, <2>1, <2>5 DEF PointerFollows
      <3> QED BY <1>6, <2>4, <3>1 DEF PointerFollows
    <2>6. CASE s \notin left
      <3>1. coverage'[s] = coverage[s] BY <1>7, <2>6
      <3> QED BY <1>6, <1>9, <1>10, <2>1, <2>2, <2>3, <3>1 DEF PointerFollows, Pending
    <2> QED BY <2>5, <2>6
  <1>16. \A s \in Scope : active'[s].model <= models' BY <1>6 DEF LifeInv
  <1> QED BY <1>12, <1>13, <1>14, <1>15, <1>16 DEF LifeInv

\* Time touches no status, no pointer and no claim.
LEMMA TimeKeeps ==
    ASSUME LifeInv, NEW s \in Scope, Elapse(s) \/ Expire(s) \/ Age(s)
    PROVE  LifeInv'
  <1>1. LifeTypes BY DEF LifeInv
  <1>2. UNCHANGED <<models, proc, deployed, disowned, outrun>>
    BY DEF Elapse, Expire, Age, history
  <1>3. /\ coverage' \in [Scope -> Row]
        /\ \A r \in Scope : /\ coverage'[r].status = coverage[r].status
                            /\ coverage'[r].pointer = coverage[r].pointer
                            /\ coverage'[r].eligible = coverage[r].eligible
    <2>1. CASE Elapse(s) BY <1>1, <2>1 DEF Elapse, LifeTypes, Row
    <2>2. CASE Expire(s) BY <1>1, <2>2 DEF Expire, LifeTypes, Row
    <2>3. CASE Age(s) BY <1>1, <2>3 DEF Age, LifeTypes
    <2> QED BY <2>1, <2>2, <2>3
  <1>4. /\ active' \in [Scope -> [model : 0 .. MaxModels, fresh : BOOLEAN]]
        /\ \A r \in Scope : active'[r].model = active[r].model
    <2>1. CASE Age(s) BY <1>1, <2>1 DEF Age, LifeTypes
    <2>2. CASE Elapse(s) \/ Expire(s) BY <1>1, <2>2 DEF Elapse, Expire, LifeTypes
    <2> QED BY <2>1, <2>2
  <1>5. LifeTypes' BY <1>1, <1>2, <1>3, <1>4 DEF LifeTypes
  <1>6. \A q \in Process : Shape(q)' BY <1>2 DEF LifeInv, Shape
  <1>7. \A r \in Scope, q \in Process :
            /\ Holds(q, r)' <=> Holds(q, r)
            /\ Marking(q, r)' <=> Marking(q, r)
            /\ At(q, "claim")' <=> At(q, "claim")
            /\ Pending(r)' <=> Pending(r)
    BY <1>2, <1>3 DEF Holds, Marking, At, Pending
  <1>8. ASSUME NEW r \in Scope \ disowned' PROVE Claimed(r)' /\ Newest(r)'
    <2>1. Claimed(r) /\ Newest(r) BY <1>2 DEF LifeInv
    <2>2. Claimed(r)' BY <1>7, <2>1 DEF Claimed
    <2>3. Newest(r)' BY <1>2, <1>4, <2>1 DEF Newest, At
    <2> QED BY <2>2, <2>3
  <1>9. ASSUME NEW r \in Scope \ (disowned \cup outrun)' PROVE PointerFollows(r)'
    <2>1. PointerFollows(r) BY <1>2 DEF LifeInv
    <2>2. Pending(r)' <=> Pending(r) BY <1>3 DEF Pending
    <2> QED BY <1>3, <1>4, <1>7, <2>1, <2>2 DEF PointerFollows
  <1>10. \A r \in Scope : active'[r].model <= models' BY <1>2, <1>4 DEF LifeInv
  <1> QED BY <1>5, <1>6, <1>8, <1>9, <1>10 DEF LifeInv

LEMMA DeployKeeps ==
    ASSUME LifeInv, deployed' \in 1 .. Policies,
           UNCHANGED <<coverage, active, models, proc, disowned, outrun>>
    PROVE  LifeInv'
  <1>1. LifeTypes' BY DEF LifeInv, LifeTypes
  <1>2. \A p \in Process : Shape(p)' BY DEF LifeInv, Shape
  <1>3. \A s \in Scope \ disowned' : Claimed(s)' /\ Newest(s)'
    BY DEF LifeInv, Claimed, Newest, Holds, Pending, At
  <1>4. \A s \in Scope \ (disowned \cup outrun)' : PointerFollows(s)'
    BY DEF LifeInv, PointerFollows, Holds, Marking, Pending, At
  <1>5. \A s \in Scope : active'[s].model <= models' BY DEF LifeInv
  <1> QED BY <1>1, <1>2, <1>3, <1>4, <1>5 DEF LifeInv

LEMMA NextKeeps == LifeInv /\ [Next]_vars => LifeInv'
  <1> SUFFICES ASSUME LifeInv, [Next]_vars PROVE LifeInv' OBVIOUS
  <1>1. deployed \in 1 .. Policies BY DEF LifeInv, LifeTypes
  <1>2. ASSUME NEW p \in Process, Cycle(p) PROVE LifeInv'
    <2>1. CASE Recover(p) BY <2>1, RecoverKeeps
    <2>2. CASE Refresh(p) BY <2>2, RefreshKeeps
    <2>3. CASE Claim(p) BY <2>3, ClaimKeeps
    <2>4. CASE Begin(p) BY <2>4, BeginKeeps
    <2>5. CASE Release(p) BY <2>5, ReleaseKeeps
    <2>6. CASE Fail(p) BY <2>6, FailKeeps
    <2>7. CASE Train(p) BY <2>7, TrainKeeps
    <2>8. CASE ReadActive(p) BY <2>8, ReadActiveKeeps
    <2>9. CASE Swap(p) BY <2>9, SwapKeeps
    <2>10. CASE MarkActive(p) BY <2>10, MarkActiveKeeps
    <2>11. CASE End(p) BY <2>11, EndKeeps
    <2> QED BY <1>2, <2>1, <2>2, <2>3, <2>4, <2>5, <2>6, <2>7, <2>8, <2>9, <2>10, <2>11
        DEF Cycle
  <1>3. ASSUME NEW p \in Process, Restart(p) \/ Crash(p) PROVE LifeInv'
    BY <1>3, RestartKeeps DEF Restart, Crash, history
  <1>4. ASSUME NEW p \in Process, LoseLeadership(p) PROVE LifeInv'
    BY <1>1, <1>4, DeployKeeps DEF LoseLeadership, history
  <1>5. ASSUME NEW s \in Scope, Elapse(s) \/ Expire(s) \/ Age(s) PROVE LifeInv'
    BY <1>5, TimeKeeps
  <1>6. CASE Deploy
    <2>1. deployed' \in 1 .. Policies BY <1>1, <1>6, Bounds DEF Deploy
    <2> QED BY <1>6, <2>1, DeployKeeps DEF Deploy, history
  <1>7. CASE UNCHANGED vars BY <1>1, <1>7, DeployKeeps DEF vars, history
  <1> QED BY <1>2, <1>3, <1>4, <1>5, <1>6, <1>7 DEF Next

-----------------------------------------------------------------------------
(* The theorems.                                                           *)

\* Rows, pointers and processes stay what the tables and the job can hold, for
\* every value of the constants (model_coverage_scopes, run_once).
THEOREM LifecycleTypes == Spec => []TypeOK
  <1>1. LifeInv => TypeOK
    <2> SUFFICES ASSUME LifeInv PROVE TypeOK OBVIOUS
    <2>1. LifeTypes BY DEF LifeInv
    <2>2. ASSUME NEW p \in Process
          PROVE  /\ At(p, "idle") => proc[p] = Idle(proc[p].policy)
                 /\ proc[p].step \in Working <=> proc[p].scope \in Scope
                 /\ Cardinality(proc[p].todo) <= MaxScopes
      <3>1. proc[p] \in ProcRow /\ Shape(p) BY <2>1 DEF LifeTypes, LifeInv
      <3>2. proc[p].step \in Working <=> proc[p].scope \in Scope
        BY <3>1, Bounds DEF Shape, ProcRow
      <3>3. At(p, "idle") => proc[p] = Idle(proc[p].policy)
        BY <3>1 DEF Shape, ProcRow, At, Idle, Working, NoScope, NoModel
      <3> QED BY <3>1, <3>2, <3>3 DEF Shape
    <2> QED BY <2>1, <2>2 DEF TypeOK, LifeTypes, Row, Working
  <1> QED BY <1>1, InitHolds, NextKeeps, PTL DEF Spec

\* Until a claim is taken from a live trainer by its lease or by a change of
\* policy, a scope has at most one trainer, whoever leads, crashes or overlaps
\* (claim_training_scopes, recover_abandoned_claims).
THEOREM OneTrainerPerScope == Spec => []OneTrainer
  <1>1. LifeInv => OneTrainer
    <2> SUFFICES ASSUME LifeInv, NEW s \in Scope \ disowned
                 PROVE  Cardinality(Trainers(s)) <= 1
      BY DEF OneTrainer
    <2>1. \A p, q \in Trainers(s) : p = q BY DEF LifeInv, Claimed, Trainers
    <2>2. CASE Trainers(s) = {} BY <2>2, FS_EmptySet
    <2>3. CASE \E p \in Process : Trainers(s) = {p} BY <2>3, FS_Singleton
    <2> QED BY <2>1, <2>2, <2>3 DEF Trainers
  <1> QED BY <1>1, InitHolds, NextKeeps, PTL DEF Spec

\* A settled row names the active model, unless its claim was disowned or
\* outrun: that a crash between the swap and the mark is healed needs both
\* the recovery and a refresh before the next claim (mark_active,
\* refresh_inventory).
THEOREM RowsNameActive == Spec => []CoverageNamesActive
  <1>1. LifeInv => CoverageNamesActive
    <2> SUFFICES ASSUME LifeInv, NEW s \in Scope \ (disowned \cup outrun)
                 PROVE  \/ coverage[s].pointer = active[s].model
                        \/ /\ coverage[s].pointer < active[s].model
                           /\ coverage[s].status \in {"TRAINING_PENDING", "TRAINING_REQUIRED"}
      BY DEF CoverageNamesActive
    <2>1. coverage[s].pointer \in Nat /\ active[s].model \in Nat
      BY Bounds DEF LifeInv, LifeTypes, Row
    <2>2. PointerFollows(s) BY DEF LifeInv
    <2> QED BY <2>1, <2>2 DEF PointerFollows, Pending
  <1> QED BY <1>1, InitHolds, NextKeeps, PTL DEF Spec

\* And no trainer replaces an active model by one trained earlier, although
\* the version it expects is read after the fit (run_once, compare_and_swap).
THEOREM ActiveMovesForward == Spec => ModelsMoveForward
  <1> DEFINE Forward == \A s \in Scope \ disowned : active'[s].model >= active[s].model
  <1>1. LifeInv /\ [Next]_vars => [Forward]_vars
    <2> SUFFICES ASSUME LifeInv, Next, NEW s \in Scope \ disowned
                 PROVE  active'[s].model >= active[s].model
      OBVIOUS
    <2>1. active[s].model \in Nat /\ active \in [Scope -> [model : 0 .. MaxModels, fresh : BOOLEAN]]
      BY Bounds DEF LifeInv, LifeTypes
    <2>2. ASSUME NEW p \in Process, Swap(p) PROVE active'[s].model >= active[s].model
      <3>1. CASE active' = active BY <2>1, <3>1
      <3>2. CASE active' = [active EXCEPT ![proc[p].scope] =
                                [model |-> proc[p].model, fresh |-> TRUE]]
        <4>1. CASE proc[p].scope = s
          <5>1. active[s].model < proc[p].model
            BY <2>2, <4>1 DEF LifeInv, Newest, Swap
          <5>2. proc[p].model \in Nat BY Bounds DEF LifeInv, LifeTypes, ProcRow
          <5> QED BY <2>1, <3>2, <4>1, <5>1, <5>2
        <4>2. CASE proc[p].scope # s BY <2>1, <3>2, <4>2
        <4> QED BY <4>1, <4>2
      <3> QED BY <2>2, <3>1, <3>2 DEF Swap
    <2>3. ASSUME NEW r \in Scope, Age(r) PROVE active'[s].model >= active[s].model
      BY <2>1, <2>3 DEF Age
    <2>4. active' = active \/ (\E p \in Process : Swap(p)) \/ (\E r \in Scope : Age(r))
      BY DEF Next, Cycle, Recover, Refresh, Claim, Begin, Release, Fail, Train, ReadActive,
             MarkActive, End, Restart, LoseLeadership, Crash, Elapse, Expire, Deploy
    <2> QED BY <2>1, <2>2, <2>3, <2>4
  <1> QED BY <1>1, InitHolds, NextKeeps, PTL DEF Spec, ModelsMoveForward
=============================================================================
