--------------------------- MODULE RuntimeProofs ----------------------------
(***************************************************************************)
(* Proofs about ApiBudget, and about Runtime, the engine whose jobs make   *)
(* its calls, for any set of processes and jobs, any limits and any length *)
(* of a day.                                                               *)
(* A call that was allowed still owns its day when it records, so the      *)
(* count it read is still the count (Checked). A process sends at most one *)
(* request that another day has paid for (Balanced).                       *)
(* The actions of the engine are built from those of the budget, so the    *)
(* theorems about the budget carry over to it. And a leader that has lost  *)
(* its session begins no job twice: the jobs it began are behind its place *)
(* in the round, and only the holder of the lock begins a round.           *)
(***************************************************************************)
EXTENDS Runtime, FiniteSetTheorems, TLAPS

-----------------------------------------------------------------------------
(* Days.                                                                   *)

LEMMA DayBounds ==
    ASSUME NEW t \in Nat
    PROVE  /\ t \div DayLength \in Nat
           /\ DayLength * (t \div DayLength) <= t
           /\ t < DayLength * (t \div DayLength) + DayLength
  BY ApiBudgetAssumption, Z3

LEMMA DaysInOrder ==
    ASSUME NEW s \in Nat, NEW t \in Nat, s <= t
    PROVE  s \div DayLength <= t \div DayLength
  <1> DEFINE a == s \div DayLength
             b == t \div DayLength
  <1>1. a \in Nat /\ b \in Nat /\ DayLength * a <= s /\ t < DayLength * b + DayLength
    BY DayBounds
  <1>2. DayLength \in Nat /\ DayLength > 0 BY ApiBudgetAssumption
  <1> HIDE DEF a, b
  <1>3. ASSUME b < a PROVE FALSE
    <2>1. PICK n \in Nat : a = b + 1 + n
      <3>1. a - b - 1 \in Nat /\ a = b + 1 + (a - b - 1) BY <1>1, <1>3
      <3> QED BY <3>1
    <2>2. DayLength * a = DayLength * b + DayLength + DayLength * n BY <2>1, <1>1, <1>2, Z3
    <2>3. DayLength * n \in Nat /\ DayLength * b \in Nat /\ DayLength * a \in Nat
      BY <1>1, <1>2, <2>1, Z3
    <2> QED BY <2>2, <2>3, <1>1, <1>2
  <1>4. a <= b BY <1>1, <1>3
  <1> QED BY <1>4 DEF a, b

LEMMA TodayIsADay ==
    ASSUME clock \in 0 .. MaxClock
    PROVE  Today \in Day
  <1>1. clock \in Nat /\ MaxClock \in Nat /\ clock <= MaxClock BY ApiBudgetAssumption
  <1>2. Today \in Nat /\ MaxClock \div DayLength \in Nat BY <1>1, DayBounds DEF Today
  <1> QED BY <1>1, <1>2, DaysInOrder DEF Today, Day

LEMMA LimitTypes ==
    /\ EffectiveLimit \in Nat /\ EffectiveLimit > 0 /\ TrainingLimit \in Nat
    /\ OperationalReserve \in Nat /\ Training \in Category
  BY ApiBudgetAssumption

LEMMA DaysAreIntegers == Day \subseteq Nat
  BY ApiBudgetAssumption, DayBounds DEF Day

-----------------------------------------------------------------------------
(* The inductive invariant of the budget.                                  *)

\* A call that was allowed owns its day until it has recorded.
DayHeld == \A c \in Client : call[c].step = "record" => dayLock[call[c].day] = c

\* What it was allowed on is still so.
Checked == \A c \in Client : call[c].step = "record" => Allowed(call[c].category, call[c].day)

\* Nothing has been sent on a day to come, nor is any call for one.
NoFuture ==
    /\ \A d \in Day : d > Today => sentOn[d] = 0
    /\ \A c \in Client : call[c].step # "none" => call[c].day <= Today

\* Calls for an earlier day that may still be sent on day d, and calls that
\* day d has recorded and not seen leave.
Late(d) == {c \in Client : call[c].step # "none" /\ call[c].day < d}
Paid(d) == {c \in Client : call[c].step = "send" /\ call[c].day = d}

Balanced ==
    \A d \in Day :
        sentOn[d] + Cardinality(Late(d)) + Cardinality(Paid(d)) <= Total(d) + Cardinality(Client)

BudgetInv == BudgetTypeOK /\ DayHeld /\ Checked /\ WithinBudget /\ NoFuture /\ Balanced

LEMMA TotalIsNat ==
    ASSUME BudgetTypeOK, NEW d \in Day
    PROVE  Total(d) \in Nat /\ usage[d].training \in Nat /\ usage[d].other \in Nat
  BY DEF BudgetTypeOK, Total

LEMMA ClientSets ==
    ASSUME NEW S, S \subseteq Client
    PROVE  /\ IsFiniteSet(S) /\ Cardinality(S) \in Nat
           /\ Cardinality(Client) \in Nat /\ Cardinality(S) <= Cardinality(Client)
  BY ApiBudgetAssumption, FS_Subset, FS_CardinalityType

LEMMA Shrinks ==
    ASSUME NEW T, T \subseteq Client, NEW S, S \subseteq T
    PROVE  /\ Cardinality(S) \in Nat /\ Cardinality(T) \in Nat
           /\ Cardinality(S) <= Cardinality(T)
           /\ S # T => Cardinality(S) + 1 <= Cardinality(T)
  <1>1. IsFiniteSet(T) /\ Cardinality(T) \in Nat BY ClientSets
  <1>2. S \subseteq Client OBVIOUS
  <1>3. Cardinality(S) \in Nat BY <1>2, ClientSets
  <1>4. Cardinality(S) <= Cardinality(T) /\ (Cardinality(S) = Cardinality(T) => S = T)
    BY <1>1, FS_Subset
  <1> QED BY <1>1, <1>3, <1>4

-----------------------------------------------------------------------------
(* Types.                                                                  *)

LEMMA NoCallType ==
    NoCall \in [step : {"none", "lock", "record", "send", "refused"},
                category : Category, day : Day]
  <1>1. MaxClock \div DayLength \in Nat BY ApiBudgetAssumption, DayBounds
  <1>2. 0 \in Day BY <1>1 DEF Day
  <1> QED BY <1>2, LimitTypes DEF NoCall

LEMMA TypeStep == BudgetTypeOK /\ [BudgetNext]_budgetVars => BudgetTypeOK'
  <1> SUFFICES ASSUME BudgetTypeOK, [BudgetNext]_budgetVars PROVE BudgetTypeOK'
    OBVIOUS
  <1>0. Today \in Day BY TodayIsADay DEF BudgetTypeOK
  <1>a. clock \in Nat /\ MaxClock \in Nat BY ApiBudgetAssumption DEF BudgetTypeOK
  <1>1. ASSUME NEW c \in Client, NEW k \in Category, Ask(c, k) PROVE BudgetTypeOK'
    BY <1>1, <1>0 DEF BudgetTypeOK, Ask
  <1>2. ASSUME NEW c \in Client, Allow(c) PROVE BudgetTypeOK'
    BY <1>2 DEF BudgetTypeOK, Allow
  <1>3. ASSUME NEW c \in Client, Refuse(c) PROVE BudgetTypeOK'
    BY <1>3 DEF BudgetTypeOK, Refuse
  <1>4. ASSUME NEW c \in Client, Record(c) PROVE BudgetTypeOK'
    <2>1. call[c].day \in Day /\ Counter(call[c].category) \in {"training", "other"}
      BY DEF BudgetTypeOK, Counter
    <2>2. usage' \in [Day -> [training : Nat, other : Nat]]
      BY <1>4, <2>1 DEF BudgetTypeOK, Record
    <2>3. dayLock' \in [Day -> Client \cup {NoClient}]
      BY <1>4 DEF BudgetTypeOK, Record, FreeDay
    <2> QED BY <1>4, <2>2, <2>3 DEF BudgetTypeOK, Record
  <1>5. ASSUME NEW c \in Client, Send(c) PROVE BudgetTypeOK'
    <2>1. sentOn' \in [Day -> Nat] BY <1>5, <1>0 DEF BudgetTypeOK, Send
    <2> QED BY <1>5, <2>1, NoCallType DEF BudgetTypeOK, Send
  <1>6. ASSUME NEW c \in Client, EndCall(c) PROVE BudgetTypeOK'
    BY <1>6, NoCallType DEF BudgetTypeOK, EndCall, FreeDay
  <1>7. CASE Tick BY <1>7, <1>a DEF BudgetTypeOK, Tick
  <1>8. CASE UNCHANGED budgetVars BY <1>8 DEF BudgetTypeOK, budgetVars
  <1> QED BY <1>1, <1>2, <1>3, <1>4, <1>5, <1>6, <1>7, <1>8 DEF BudgetNext, CallStep

-----------------------------------------------------------------------------
(* The day's lock, and the limits it protects.                             *)

LEMMA HeldStep ==
    ASSUME BudgetTypeOK, DayHeld, [BudgetNext]_budgetVars
    PROVE  DayHeld'
  <1>1. ASSUME NEW c \in Client, NEW k \in Category, Ask(c, k) PROVE DayHeld'
    BY <1>1 DEF BudgetTypeOK, DayHeld, Ask
  <1>2. ASSUME NEW c \in Client, Allow(c) PROVE DayHeld'
    <2> SUFFICES ASSUME NEW e \in Client, call'[e].step = "record"
                 PROVE  dayLock'[call'[e].day] = e
      BY DEF DayHeld
    <2>1. call[c].day \in Day /\ dayLock[call[c].day] = NoClient
      BY <1>2 DEF BudgetTypeOK, Allow
    <2>2. CASE e = c BY <1>2, <2>1, <2>2 DEF BudgetTypeOK, Allow
    <2>3. CASE e # c
      <3>1. call'[e] = call[e] /\ dayLock[call[e].day] = e
        BY <1>2, <2>3 DEF BudgetTypeOK, Allow, DayHeld
      <3>2. call[e].day # call[c].day
        BY <3>1, <2>1, ApiBudgetAssumption
      <3> QED BY <1>2, <3>1, <3>2 DEF BudgetTypeOK, Allow
    <2> QED BY <2>2, <2>3
  <1>3. ASSUME NEW c \in Client, Refuse(c) PROVE DayHeld'
    BY <1>3 DEF BudgetTypeOK, DayHeld, Refuse
  <1>4. ASSUME NEW c \in Client, FreeDay(c), call'[c].step # "record",
               \A e \in Client : e # c => call'[e] = call[e]
        PROVE  DayHeld'
    BY <1>4 DEF BudgetTypeOK, DayHeld, FreeDay
  <1>5. ASSUME NEW c \in Client, Record(c) PROVE DayHeld'
    BY <1>5, <1>4 DEF BudgetTypeOK, Record
  <1>6. ASSUME NEW c \in Client, Send(c) PROVE DayHeld'
    BY <1>6 DEF BudgetTypeOK, DayHeld, Send, NoCall
  <1>7. ASSUME NEW c \in Client, EndCall(c) PROVE DayHeld'
    BY <1>7, <1>4 DEF BudgetTypeOK, EndCall, NoCall
  <1>8. CASE Tick \/ UNCHANGED budgetVars BY <1>8 DEF DayHeld, Tick, budgetVars
  <1> QED BY <1>1, <1>2, <1>3, <1>5, <1>6, <1>7, <1>8 DEF BudgetNext, CallStep

\* Only Record changes a count, and only on the day its caller owns.
LEMMA CountsKept ==
    ASSUME [BudgetNext]_budgetVars, \A c \in Client : ~Record(c)
    PROVE  usage' = usage
  BY DEF BudgetNext, CallStep, Ask, Allow, Refuse, Send, EndCall, Tick, budgetVars

LEMMA RecordCounts ==
    ASSUME BudgetTypeOK, NEW c \in Client, Record(c), NEW d, d = call[c].day
    PROVE  /\ d \in Day
           /\ Total(d)' = Total(d) + 1
           /\ call[c].category = Training => usage'[d].training = usage[d].training + 1
           /\ call[c].category # Training => usage'[d].training = usage[d].training
           /\ \A e \in Day : e # d => usage'[e] = usage[e]
  <1>1. d \in Day BY DEF BudgetTypeOK
  <1>2. usage' = [usage EXCEPT ![d][Counter(call[c].category)] = @ + 1]
    BY DEF Record
  <1>3. usage[d] \in [training : Nat, other : Nat] BY <1>1 DEF BudgetTypeOK
  <1>4. CASE call[c].category = Training
    <2>1. usage' = [usage EXCEPT ![d]["training"] = @ + 1] BY <1>2, <1>4 DEF Counter
    <2>2. /\ usage'[d].training = usage[d].training + 1
          /\ usage'[d].other = usage[d].other
          /\ \A e \in Day : e # d => usage'[e] = usage[e]
      BY <2>1, <1>1, <1>3 DEF BudgetTypeOK
    <2> QED BY <2>2, <1>1, <1>3, <1>4 DEF Total
  <1>5. CASE call[c].category # Training
    <2>1. usage' = [usage EXCEPT ![d]["other"] = @ + 1] BY <1>2, <1>5 DEF Counter
    <2>2. /\ usage'[d].training = usage[d].training
          /\ usage'[d].other = usage[d].other + 1
          /\ \A e \in Day : e # d => usage'[e] = usage[e]
      BY <2>1, <1>1, <1>3 DEF BudgetTypeOK
    <2> QED BY <2>2, <1>1, <1>3, <1>5 DEF Total
  <1> QED BY <1>4, <1>5

LEMMA CheckedStep ==
    ASSUME BudgetTypeOK, DayHeld, Checked, [BudgetNext]_budgetVars
    PROVE  Checked'
  <1> SUFFICES ASSUME NEW e \in Client, call'[e].step = "record"
               PROVE  Allowed(call[e].category, call[e].day)' /\ call'[e].day \in Day
    BY DEF Checked
  <1>0. call[e].day \in Day BY DEF BudgetTypeOK
  <1>1. ASSUME NEW c \in Client, Record(c) PROVE Allowed(call[e].category, call[e].day)'
    <2>1. c # e BY <1>1 DEF BudgetTypeOK, Record
    <2>2. call'[e] = call[e] /\ call[c].step = "record" BY <1>1, <2>1 DEF BudgetTypeOK, Record
    <2>3. call[e].day # call[c].day BY <2>1, <2>2 DEF DayHeld
    <2>4. usage'[call[e].day] = usage[call[e].day] BY <1>0, <1>1, <2>3, RecordCounts
    <2> QED BY <2>2, <2>4 DEF Checked, Allowed, Total
  <1>2. ASSUME usage' = usage, call'[e].day = call[e].day, call'[e].category = call[e].category,
               Allowed(call[e].category, call[e].day)
        PROVE  Allowed(call[e].category, call[e].day)'
    BY <1>2 DEF Allowed, Total
  <1>3. ASSUME \A c \in Client : ~Record(c)
        PROVE  /\ usage' = usage /\ call'[e].day = call[e].day
               /\ call'[e].category = call[e].category
               /\ Allowed(call[e].category, call[e].day)
    <2>1. usage' = usage BY <1>3, CountsKept
    <2>2. CASE Allow(e) BY <2>1, <2>2 DEF BudgetTypeOK, Allow
    <2>3. CASE call'[e] = call[e] BY <2>1, <2>3 DEF Checked
    <2>4. Allow(e) \/ call'[e] = call[e]
      BY <1>3 DEF BudgetTypeOK, BudgetNext, CallStep, Ask, Allow, Refuse, Send, EndCall,
                  NoCall, Tick, budgetVars
    <2> QED BY <2>2, <2>3, <2>4
  <1>4. Allowed(call[e].category, call[e].day)' BY <1>1, <1>2, <1>3
  <1>5. call'[e].day \in Day BY TypeStep DEF BudgetTypeOK
  <1> QED BY <1>4, <1>5

LEMMA LimitStep ==
    ASSUME BudgetTypeOK, Checked, WithinBudget, [BudgetNext]_budgetVars
    PROVE  WithinBudget'
  <1>1. ASSUME NEW c \in Client, Record(c) PROVE WithinBudget'
    <2>0. PICK d : d = call[c].day OBVIOUS
    <2>1. Allowed(call[c].category, d) BY <2>0, <1>1 DEF Checked, Record
    <2>2. d \in Day /\ Total(d)' = Total(d) + 1 BY <1>1, <2>0, RecordCounts
    <2>3. Total(d) \in Nat /\ usage[d].training \in Nat BY <2>2, TotalIsNat
    <2>4. Total(d)' <= EffectiveLimit BY <2>1, <2>2, <2>3, LimitTypes DEF Allowed
    <2>5. usage'[d].training <= TrainingLimit
      <3>1. CASE call[c].category = Training
        BY <1>1, <2>1, <2>3, <3>1, <2>0, RecordCounts, LimitTypes DEF Allowed
      <3>2. CASE call[c].category # Training
        BY <1>1, <2>2, <3>2, <2>0, RecordCounts DEF WithinBudget
      <3> QED BY <3>1, <3>2
    <2>6. \A e \in Day : e # d => usage'[e] = usage[e] BY <1>1, <2>0, RecordCounts
    <2> QED BY <2>4, <2>5, <2>6 DEF WithinBudget, Total
  <1>2. CASE \A c \in Client : ~Record(c)
    BY <1>2, CountsKept DEF WithinBudget, Total
  <1> QED BY <1>1, <1>2

-----------------------------------------------------------------------------
(* What is sent on a day.                                                  *)

LEMMA FutureStep ==
    ASSUME BudgetTypeOK, NoFuture, [BudgetNext]_budgetVars
    PROVE  NoFuture'
  <1>0. Today \in Nat /\ Today \in Day /\ Today' \in Nat /\ Today <= Today'
    <2>1. clock' = clock \/ clock' = clock + 1
      BY DEF BudgetNext, CallStep, Ask, Allow, Refuse, Record, Send, EndCall, Tick, budgetVars
    <2>2. clock \in 0 .. MaxClock /\ MaxClock \in Nat BY ApiBudgetAssumption DEF BudgetTypeOK
    <2>3. clock \in Nat /\ clock' \in Nat /\ clock <= clock' BY <2>1, <2>2
    <2> QED BY <2>2, <2>3, DayBounds, DaysInOrder, TodayIsADay DEF Today
  <1>1. \A d \in Day : d > Today' => sentOn'[d] = 0
    <2> SUFFICES ASSUME NEW d \in Day, d > Today' PROVE sentOn'[d] = 0
      OBVIOUS
    <2>1. d \in Nat /\ d > Today BY <1>0, DaysAreIntegers
    <2>2. sentOn[d] = 0 BY <2>1 DEF NoFuture
    <2>3. d # Today BY <2>1, <1>0
    <2>4. ASSUME NEW c \in Client, Send(c) PROVE sentOn'[d] = sentOn[d]
      BY <2>3, <2>4 DEF BudgetTypeOK, Send
    <2>5. (\A c \in Client : ~Send(c)) => sentOn' = sentOn
      BY DEF BudgetNext, CallStep, Ask, Allow, Refuse, Record, EndCall, Tick, budgetVars
    <2> QED BY <2>2, <2>4, <2>5
  <1>2. \A c \in Client : call'[c].step # "none" => call'[c].day <= Today'
    <2> SUFFICES ASSUME NEW c \in Client, call'[c].step # "none"
                 PROVE  call'[c].day <= Today'
      OBVIOUS
    <2>1. \/ call'[c].day = Today /\ Today' = Today
          \/ call'[c].day = call[c].day /\ call[c].step # "none"
      <3>1. ASSUME NEW e \in Client, NEW k \in Category, Ask(e, k)
            PROVE  \/ call'[c].day = Today /\ Today' = Today
                   \/ call'[c] = call[c]
        BY <3>1 DEF BudgetTypeOK, Ask, Today
      <3>2. ASSUME NEW e \in Client, CallStep(e) \/ EndCall(e)
            PROVE  call'[c].day = call[c].day /\ call[c].step # "none"
        <4>1. CASE e = c /\ (Allow(e) \/ Refuse(e) \/ Record(e))
          BY <4>1 DEF BudgetTypeOK, Allow, Refuse, Record
        <4>2. CASE e = c /\ (Send(e) \/ EndCall(e))
          BY <4>2 DEF BudgetTypeOK, Send, EndCall, NoCall
        <4>3. CASE e # c
          <5>1. call'[c] = call[c]
            BY <3>2, <4>3 DEF BudgetTypeOK, CallStep, Allow, Refuse, Record, Send, EndCall
          <5> QED BY <5>1
        <4> QED BY <3>2, <4>1, <4>2, <4>3 DEF CallStep
      <3>3. CASE Tick \/ UNCHANGED budgetVars BY <3>3 DEF Tick, budgetVars
      <3> QED BY <3>1, <3>2, <3>3 DEF BudgetNext
    <2>2. call[c].day \in Nat BY DaysAreIntegers DEF BudgetTypeOK
    <2> QED BY <2>1, <2>2, <1>0 DEF NoFuture
  <1> QED BY <1>1, <1>2 DEF NoFuture

\* The balance of a day is kept when nothing is sent and its sets shrink.
LEMMA BalanceShrinks ==
    ASSUME NEW d \in Day, BudgetTypeOK, Balanced, sentOn'[d] = sentOn[d],
           Total(d)' = Total(d), Late(d)' \subseteq Late(d), Paid(d)' \subseteq Paid(d)
    PROVE  (sentOn[d] + Cardinality(Late(d)) + Cardinality(Paid(d))
               <= Total(d) + Cardinality(Client))'
  <1>1. Late(d) \subseteq Client /\ Paid(d) \subseteq Client BY DEF Late, Paid
  <1>2. /\ Cardinality(Late(d)') <= Cardinality(Late(d)) /\ Cardinality(Late(d)') \in Nat
        /\ Cardinality(Paid(d)') <= Cardinality(Paid(d)) /\ Cardinality(Paid(d)') \in Nat
        /\ Cardinality(Late(d)) \in Nat /\ Cardinality(Paid(d)) \in Nat
    BY <1>1, Shrinks
  <1>3. sentOn[d] \in Nat /\ Total(d) \in Nat BY TotalIsNat DEF BudgetTypeOK
  <1>4. Cardinality(Client) \in Nat BY ClientSets
  <1>5. sentOn[d] + Cardinality(Late(d)) + Cardinality(Paid(d)) <= Total(d) + Cardinality(Client)
    BY DEF Balanced
  <1>6. sentOn'[d] + Cardinality(Late(d)') + Cardinality(Paid(d)')
           <= Total(d)' + Cardinality(Client)
    BY <1>2, <1>3, <1>4, <1>5
  <1> QED BY <1>6

LEMMA BalanceStep ==
    ASSUME BudgetTypeOK, NoFuture, Balanced, [BudgetNext]_budgetVars
    PROVE  Balanced'
  <1> SUFFICES ASSUME NEW d \in Day
               PROVE  (sentOn[d] + Cardinality(Late(d)) + Cardinality(Paid(d))
                          <= Total(d) + Cardinality(Client))'
    BY DEF Balanced
  <1>0. /\ d \in Nat /\ Today \in Nat /\ Today \in Day
        /\ sentOn[d] \in Nat /\ Total(d) \in Nat /\ Cardinality(Client) \in Nat
        /\ \A c \in Client : call[c].day \in Nat
    <2>1. clock \in Nat /\ clock \in 0 .. MaxClock BY ApiBudgetAssumption DEF BudgetTypeOK
    <2> QED BY <2>1, DaysAreIntegers, DayBounds, TodayIsADay, TotalIsNat, ClientSets
      DEF BudgetTypeOK, Today
  <1>1. ASSUME NEW c \in Client, NEW k \in Category, Ask(c, k)
        PROVE  (sentOn[d] + Cardinality(Late(d)) + Cardinality(Paid(d))
                   <= Total(d) + Cardinality(Client))'
    <2>1. sentOn'[d] = sentOn[d] /\ Total(d)' = Total(d) BY <1>1 DEF Ask, Total
    <2>2. Paid(d)' \subseteq Paid(d) BY <1>1 DEF Ask, Paid, BudgetTypeOK
    <2>3. CASE d <= Today
      <3>1. ASSUME NEW e \in Late(d)' PROVE e \in Late(d)
        <4>1. e \in Client /\ call'[e].step # "none" /\ call'[e].day < d BY <3>1 DEF Late
        <4>2. e # c BY <4>1, <2>3, <1>0, <1>1 DEF Ask, BudgetTypeOK
        <4> QED BY <4>1, <4>2, <1>1 DEF Ask, BudgetTypeOK, Late
      <3> QED BY <3>1, <2>1, <2>2, BalanceShrinks
    <2>4. CASE d > Today
      <3>1. sentOn'[d] = 0 BY <2>1, <2>4 DEF NoFuture
      <3>2. Paid(d)' = {}
        <4>1. ASSUME NEW e \in Paid(d) PROVE FALSE
          BY <4>1, <2>4, <1>0 DEF Paid, NoFuture
        <4> QED BY <4>1, <2>2
      <3>3. Cardinality(Paid(d)') = 0 BY <3>2, FS_EmptySet
      <3>4. Late(d)' \subseteq Client BY DEF Late
      <3>5. Cardinality(Late(d)') \in Nat /\ Cardinality(Late(d)') <= Cardinality(Client)
        BY <3>4, ClientSets
      <3>6. sentOn'[d] + Cardinality(Late(d)') + Cardinality(Paid(d)')
               <= Total(d)' + Cardinality(Client)
        BY <3>1, <3>3, <3>5, <2>1, <1>0
      <3> QED BY <3>6
    <2> QED BY <2>3, <2>4, <1>0
  <1>2. ASSUME NEW c \in Client, Allow(c) \/ Refuse(c) \/ EndCall(c)
        PROVE  (sentOn[d] + Cardinality(Late(d)) + Cardinality(Paid(d))
                   <= Total(d) + Cardinality(Client))'
    <2>1. sentOn'[d] = sentOn[d] /\ Total(d)' = Total(d)
      BY <1>2 DEF Allow, Refuse, EndCall, Total
    <2>2. \A e \in Client : e # c => call'[e] = call[e]
      BY <1>2 DEF Allow, Refuse, EndCall, BudgetTypeOK
    <2>3. /\ call'[c].step # "send"
          /\ call'[c].step # "none" => call[c].step = "lock" /\ call'[c].day = call[c].day
      <3>1. CASE Allow(c) \/ Refuse(c) BY <3>1 DEF Allow, Refuse, BudgetTypeOK
      <3>2. CASE EndCall(c) BY <3>2 DEF EndCall, NoCall, BudgetTypeOK
      <3> QED BY <1>2, <3>1, <3>2
    <2>4. Paid(d)' \subseteq Paid(d) /\ Late(d)' \subseteq Late(d)
      BY <2>2, <2>3 DEF Paid, Late
    <2> QED BY <2>1, <2>4, BalanceShrinks
  <1>3. ASSUME NEW c \in Client, Record(c)
        PROVE  (sentOn[d] + Cardinality(Late(d)) + Cardinality(Paid(d))
                   <= Total(d) + Cardinality(Client))'
    <2>0. PICK today : today = call[c].day OBVIOUS
    <2>1. sentOn'[d] = sentOn[d] BY <1>3 DEF Record
    <2>2. Late(d)' \subseteq Late(d) BY <1>3 DEF Record, Late, BudgetTypeOK
    <2>3. CASE d # today
      <3>1. Total(d)' = Total(d) BY <1>3, <2>0, <2>3, RecordCounts DEF Total
      <3>2. Paid(d)' \subseteq Paid(d) BY <1>3, <2>0, <2>3 DEF Record, Paid, BudgetTypeOK
      <3> QED BY <2>1, <2>2, <3>1, <3>2, BalanceShrinks
    <2>4. CASE d = today
      <3>1. Total(d)' = Total(d) + 1 BY <1>3, <2>0, <2>4, RecordCounts
      <3>2. Paid(d)' \subseteq Paid(d) \cup {c} BY <1>3 DEF Record, Paid, BudgetTypeOK
      <3>3. Paid(d) \subseteq Client /\ Late(d) \subseteq Client BY DEF Paid, Late
      <3>4. IsFiniteSet(Paid(d)) /\ Cardinality(Paid(d)) \in Nat BY <3>3, ClientSets
      <3>5. /\ Cardinality(Paid(d) \cup {c}) = Cardinality(Paid(d)) + 1
            /\ Paid(d) \cup {c} \subseteq Client
        <4>1. c \notin Paid(d) BY <1>3 DEF Record, Paid
        <4> QED BY <4>1, <3>3, <3>4, FS_AddElement
      <3>6. /\ Cardinality(Paid(d)') <= Cardinality(Paid(d) \cup {c})
            /\ Cardinality(Paid(d)') \in Nat /\ Cardinality(Paid(d) \cup {c}) \in Nat
        BY <3>2, <3>5, Shrinks
      <3>7. /\ Cardinality(Late(d)') <= Cardinality(Late(d))
            /\ Cardinality(Late(d)') \in Nat /\ Cardinality(Late(d)) \in Nat
        BY <2>2, <3>3, Shrinks
      <3>8. sentOn[d] + Cardinality(Late(d)) + Cardinality(Paid(d))
               <= Total(d) + Cardinality(Client)
        BY DEF Balanced
      <3>9. sentOn'[d] + Cardinality(Late(d)') + Cardinality(Paid(d)')
               <= Total(d)' + Cardinality(Client)
        BY <1>0, <2>1, <3>1, <3>4, <3>5, <3>6, <3>7, <3>8
      <3> QED BY <3>9
    <2> QED BY <2>3, <2>4
  <1>4. ASSUME NEW c \in Client, Send(c)
        PROVE  (sentOn[d] + Cardinality(Late(d)) + Cardinality(Paid(d))
                   <= Total(d) + Cardinality(Client))'
    <2>1. Total(d)' = Total(d) BY <1>4 DEF Send, Total
    <2>2. Paid(d)' \subseteq Paid(d) \ {c} /\ Late(d)' \subseteq Late(d) \ {c}
      BY <1>4 DEF Send, NoCall, Paid, Late, BudgetTypeOK
    <2>3. CASE d # Today
      <3>1. sentOn'[d] = sentOn[d] BY <1>4, <2>3 DEF Send
      <3> QED BY <2>1, <2>2, <3>1, BalanceShrinks
    <2>4. CASE d = Today
      <3>1. sentOn'[d] = sentOn[d] + 1 BY <1>4, <2>4, <1>0 DEF Send, BudgetTypeOK
      <3>2. call[c].step = "send" /\ call[c].day <= Today BY <1>4 DEF Send, NoFuture
      <3>3. c \in Late(d) \/ c \in Paid(d) BY <3>2, <2>4, <1>0 DEF Late, Paid
      <3>4. Paid(d) \subseteq Client /\ Late(d) \subseteq Client BY DEF Paid, Late
      <3>5. /\ Cardinality(Late(d)') \in Nat /\ Cardinality(Late(d)) \in Nat
            /\ Cardinality(Late(d)') <= Cardinality(Late(d))
            /\ c \in Late(d) => Cardinality(Late(d)') + 1 <= Cardinality(Late(d))
        BY <2>2, <3>4, Shrinks
      <3>6. /\ Cardinality(Paid(d)') \in Nat /\ Cardinality(Paid(d)) \in Nat
            /\ Cardinality(Paid(d)') <= Cardinality(Paid(d))
            /\ c \in Paid(d) => Cardinality(Paid(d)') + 1 <= Cardinality(Paid(d))
        BY <2>2, <3>4, Shrinks
      <3>7. sentOn[d] + Cardinality(Late(d)) + Cardinality(Paid(d))
               <= Total(d) + Cardinality(Client)
        BY DEF Balanced
      <3>8. sentOn'[d] + Cardinality(Late(d)') + Cardinality(Paid(d)')
               <= Total(d)' + Cardinality(Client)
        BY <1>0, <2>1, <3>1, <3>3, <3>5, <3>6, <3>7
      <3> QED BY <3>8
    <2> QED BY <2>3, <2>4
  <1>5. CASE Tick \/ UNCHANGED budgetVars
    <2>1. /\ sentOn'[d] = sentOn[d] /\ Total(d)' = Total(d)
          /\ Late(d)' \subseteq Late(d) /\ Paid(d)' \subseteq Paid(d)
      BY <1>5 DEF Tick, budgetVars, Late, Paid, Total
    <2> QED BY <2>1, BalanceShrinks
  <1> QED BY <1>1, <1>2, <1>3, <1>4, <1>5 DEF BudgetNext, CallStep

-----------------------------------------------------------------------------
(* The theorems.                                                           *)

LEMMA BudgetInvInit == BudgetInit => BudgetInv
  <1> SUFFICES ASSUME BudgetInit PROVE BudgetInv
    OBVIOUS
  <1>1. clock \in 0 .. MaxClock /\ Today \in Day
    BY ApiBudgetAssumption, TodayIsADay DEF BudgetInit
  <1>2. BudgetTypeOK BY <1>1, NoCallType DEF BudgetInit, BudgetTypeOK
  <1>3. DayHeld /\ Checked BY DEF BudgetInit, DayHeld, Checked, NoCall
  <1>4. WithinBudget
    BY LimitTypes DEF BudgetInit, WithinBudget, Total
  <1>5. NoFuture BY DEF BudgetInit, NoFuture, NoCall
  <1>6. Balanced
    <2>1. ASSUME NEW d \in Day
          PROVE  sentOn[d] + Cardinality(Late(d)) + Cardinality(Paid(d))
                    <= Total(d) + Cardinality(Client)
      <3>1. Late(d) = {} /\ Paid(d) = {} BY DEF BudgetInit, Late, Paid, NoCall
      <3>2. sentOn[d] = 0 /\ Total(d) = 0 BY DEF BudgetInit, Total
      <3>3. {} \subseteq Client OBVIOUS
      <3>4. Cardinality(Client) \in Nat BY <3>3, ClientSets
      <3> QED BY <3>1, <3>2, <3>4, FS_EmptySet
    <2> QED BY <2>1 DEF Balanced
  <1> QED BY <1>2, <1>3, <1>4, <1>5, <1>6 DEF BudgetInv

LEMMA BudgetInvStep == BudgetInv /\ [BudgetNext]_budgetVars => BudgetInv'
  BY TypeStep, HeldStep, CheckedStep, LimitStep, FutureStep, BalanceStep DEF BudgetInv

\* The budget's inductive invariant, for every number of processes.
THEOREM BudgetInvariance == BudgetSpec => []BudgetInv
  BY BudgetInvInit, BudgetInvStep, PTL DEF BudgetSpec

\* No day records more requests than the limit, nor training more than its
\* allowance, whoever races for the last one.
THEOREM BudgetIsKept == BudgetSpec => []WithinBudget
  <1>1. BudgetInv => WithinBudget BY DEF BudgetInv
  <1> QED BY <1>1, BudgetInvariance, PTL

LEMMA BalanceBoundsQuota == BudgetInv => QuotaKept
  <1> SUFFICES ASSUME BudgetInv, NEW d \in Day
               PROVE  sentOn[d] <= EffectiveLimit + Cardinality(Client)
    BY DEF QuotaKept
  <1>1. Late(d) \subseteq Client /\ Paid(d) \subseteq Client BY DEF Late, Paid
  <1>2. /\ Cardinality(Late(d)) \in Nat /\ Cardinality(Paid(d)) \in Nat
        /\ Cardinality(Client) \in Nat
    BY <1>1, ClientSets
  <1>3. sentOn[d] \in Nat /\ Total(d) \in Nat BY TotalIsNat DEF BudgetInv, BudgetTypeOK
  <1>4. Total(d) <= EffectiveLimit BY DEF BudgetInv, WithinBudget
  <1>5. sentOn[d] + Cardinality(Late(d)) + Cardinality(Paid(d)) <= Total(d) + Cardinality(Client)
    BY DEF BudgetInv, Balanced
  <1> QED BY <1>2, <1>3, <1>4, <1>5, LimitTypes

\* The provider sees at most one request per process above the limit, those
\* recorded before a midnight and sent after it.
THEOREM ProviderQuota == BudgetSpec => []QuotaKept
  BY BudgetInvariance, BalanceBoundsQuota, PTL

LEMMA TrainingStep ==
    ASSUME BudgetInv, [BudgetNext]_budgetVars, NEW d \in Day,
           usage'[d].training > usage[d].training
    PROVE  Total(d) < EffectiveLimit - OperationalReserve
  <1>1. usage[d].training \in Nat BY TotalIsNat DEF BudgetInv
  <1>2. PICK c \in Client : Record(c) BY <1>1, CountsKept
  <1>3. PICK today : today = call[c].day OBVIOUS
  <1>4. BudgetTypeOK BY DEF BudgetInv
  <1>5. today = d /\ call[c].category = Training
    BY <1>1, <1>2, <1>3, <1>4, RecordCounts
  <1> QED BY <1>2, <1>3, <1>5 DEF BudgetInv, Checked, Record, Allowed

\* Model training never takes a request that the operational reserve holds.
THEOREM ReserveIsKept == BudgetSpec => TrainingLeavesReserve
  <1>1. BudgetInv /\ [BudgetNext]_budgetVars =>
           [\A d \in Day : usage'[d].training > usage[d].training =>
               Total(d) < EffectiveLimit - OperationalReserve]_budgetVars
    BY TrainingStep
  <1> QED BY <1>1, BudgetInvariance, PTL DEF BudgetSpec, TrainingLeavesReserve

-----------------------------------------------------------------------------
(* Types.                                                                  *)

\* A working process is at a job.
AtJob == \A i \in Instance : phase[i] = "working" => position[i] \in Jobs

\* The jobs begun without leadership are behind the leader's place, and none
\* is on record for the holder or for a process that does not lead.
Behind ==
    /\ \A i \in Instance : \A j \in unled[i] :
          /\ j <= position[i] \/ phase[i] = "round"
          /\ phase[i] = "jobs" => j < position[i]
    /\ \A i \in Instance : phase[i] \in {"down", "standby", "prepare"} \/ holder = i =>
          unled[i] = {}

EngineInv == TypeOK /\ AtJob /\ Behind

LEMMA JobTypes ==
    /\ Len(Job) \in Nat
    /\ \A j \in Jobs : j \in Nat /\ CategoryOf[Job[j]] \in Category /\ Interval[Job[j]] \in Nat
  <1>1. Len(Job) \in Nat BY RuntimeAssumption
  <1>2. \A j \in Jobs : Job[j] \in DOMAIN CategoryOf BY RuntimeAssumption DEF Jobs
  <1> QED BY <1>1, <1>2, RuntimeAssumption DEF Jobs

\* Every step of the engine is a step of the budget, or changes nothing of it.
LEMMA EngineMakesCalls ==
    ASSUME AtJob, [Next]_vars
    PROVE  [BudgetNext]_budgetVars
  <1>1. ASSUME NEW i \in Instance, Call(i) PROVE BudgetNext
    <2>1. CASE CallStep(i) BY <2>1 DEF BudgetNext, Instance
    <2>2. CASE Request(i)
      <3>1. CategoryOf[Job[position[i]]] \in Category BY <2>2, JobTypes DEF Request, AtJob
      <3> QED BY <2>2, <3>1 DEF Request, BudgetNext, Instance
    <2> QED BY <1>1, <2>1, <2>2 DEF Call
  <1>2. ASSUME NEW i \in Instance, Crash(i) \/ FinishJob(i) \/ DeferJob(i) PROVE BudgetNext
    BY <1>2 DEF Crash, FinishJob, DeferJob, BudgetNext, Instance
  <1>3. CASE Tick BY <1>3 DEF BudgetNext
  <1>4. ASSUME NEW i \in Instance,
               \/ Boot(i) \/ TryAcquire(i) \/ Prepare(i) \/ LoseLeadership(i) \/ IdleRound(i)
               \/ BeginRound(i) \/ BeginJob(i) \/ SkipJob(i) \/ EndRound(i)
               \/ Exit(i) \/ RequestShutdown(i)
        PROVE  UNCHANGED budgetVars
    BY <1>4 DEF Boot, TryAcquire, Prepare, LoseLeadership, IdleRound, BeginRound, BeginJob,
                SkipJob, EndRound, Exit, RequestShutdown, vars
  <1>5. CASE LoseSession BY <1>5 DEF LoseSession
  <1>6. CASE UNCHANGED vars BY <1>6 DEF vars
  <1> QED BY <1>1, <1>2, <1>3, <1>4, <1>5, <1>6 DEF Next, Step

\* The types of the scheduler's own variables.
LeaderTypes ==
    /\ holder \in Instance \cup {NoClient}
    /\ phase \in [Instance -> {"down", "standby", "prepare"} \cup Leading]
    /\ position \in [Instance -> 1 .. Len(Job) + 1]
    /\ nextDue \in [Instance -> [Jobs -> Nat]]
    /\ stopping \in [Instance -> BOOLEAN]
    /\ unled \in [Instance -> SUBSET Jobs]
    /\ faults \in 0 .. MaxFaults

CallsAtWork == \A i \in Instance : call[i].step # "none" => phase[i] = "working"
HolderIsUp == \A i \in Instance : holder = i => phase[i] \notin {"down", "standby"}

LEMMA TypeParts == TypeOK <=> BudgetTypeOK /\ LeaderTypes /\ CallsAtWork /\ HolderIsUp
  BY DEF TypeOK, LeaderTypes, CallsAtWork, HolderIsUp

LEMMA RetireTypes ==
    ASSUME LeaderTypes, NEW i \in Instance, NEW next \in {"down", "standby"}, Retire(i, next),
           stopping' \in [Instance -> BOOLEAN], faults' \in 0 .. MaxFaults
    PROVE  LeaderTypes'
  <1>1. Len(Job) \in Nat BY JobTypes
  <1>2. Never \in [Jobs -> Nat] BY DEF Never
  <1>3. position' \in [Instance -> 1 .. Len(Job) + 1] BY <1>1 DEF LeaderTypes, Retire
  <1>4. holder' \in Instance \cup {NoClient} BY DEF LeaderTypes, Retire
  <1> QED BY <1>2, <1>3, <1>4 DEF LeaderTypes, Retire

LEMMA RescheduleTypes ==
    ASSUME LeaderTypes, AtJob, NEW i \in Instance, phase[i] = "working",
           NEW t \in Nat, Reschedule(i, t)
    PROVE  LeaderTypes'
  <1>1. Len(Job) \in Nat BY JobTypes
  <1>2. position[i] \in Jobs BY DEF AtJob
  <1>3. position' \in [Instance -> 1 .. Len(Job) + 1]
    BY <1>1, <1>2 DEF LeaderTypes, Reschedule, Jobs
  <1>4. nextDue' \in [Instance -> [Jobs -> Nat]] BY <1>2 DEF LeaderTypes, Reschedule
  <1>5. phase' \in [Instance -> {"down", "standby", "prepare"} \cup Leading]
    BY DEF LeaderTypes, Reschedule, Leading
  <1> QED BY <1>3, <1>4, <1>5 DEF LeaderTypes, Reschedule

LEMMA FaultTypes ==
    ASSUME LeaderTypes, Fault
    PROVE  faults' \in 0 .. MaxFaults
  BY RuntimeAssumption DEF LeaderTypes, Fault

LEMMA LeaderTypesStep ==
    ASSUME BudgetTypeOK, LeaderTypes, AtJob, [Next]_vars
    PROVE  LeaderTypes'
  <1>0. Len(Job) \in Nat /\ clock \in Nat BY JobTypes, ApiBudgetAssumption DEF BudgetTypeOK
  <1>1. ASSUME NEW i \in Instance,
               \/ Boot(i) \/ TryAcquire(i) \/ Prepare(i) \/ BeginRound(i) \/ RequestShutdown(i)
        PROVE  LeaderTypes'
    <2>1. CASE Boot(i) BY <2>1 DEF LeaderTypes, Boot
    <2>2. CASE TryAcquire(i) BY <2>2 DEF LeaderTypes, TryAcquire
    <2>3. CASE Prepare(i)
      BY <2>3, <1>0 DEF LeaderTypes, Prepare, Leading
    <2>4. CASE BeginRound(i) BY <2>4 DEF LeaderTypes, BeginRound, Leading
    <2>5. CASE RequestShutdown(i) BY <2>5, FaultTypes DEF LeaderTypes, RequestShutdown
    <2> QED BY <1>1, <2>1, <2>2, <2>3, <2>4, <2>5
  <1>2. ASSUME NEW i \in Instance, Exit(i) \/ LoseLeadership(i) \/ Crash(i)
        PROVE  LeaderTypes'
    BY <1>2, RetireTypes, FaultTypes DEF Exit, LoseLeadership, Crash, LeaderTypes
  <1>3. ASSUME NEW i \in Instance, BeginJob(i) PROVE LeaderTypes'
    <2>1. position[i] \in Jobs BY <1>3 DEF BeginJob, Due
    <2>2. unled' \in [Instance -> SUBSET Jobs] BY <1>3, <2>1 DEF LeaderTypes, BeginJob
    <2>3. phase' \in [Instance -> {"down", "standby", "prepare"} \cup Leading]
      BY <1>3 DEF LeaderTypes, BeginJob, Leading
    <2> QED BY <1>3, <2>2, <2>3 DEF LeaderTypes, BeginJob
  <1>4. ASSUME NEW i \in Instance, SkipJob(i) PROVE LeaderTypes'
    <2>1. position' \in [Instance -> 1 .. Len(Job) + 1]
      BY <1>4, <1>0 DEF LeaderTypes, SkipJob, Jobs
    <2> QED BY <1>4, <2>1 DEF LeaderTypes, SkipJob
  <1>5. ASSUME NEW i \in Instance, EndRound(i) PROVE LeaderTypes'
    <2>1. position' \in [Instance -> 1 .. Len(Job) + 1]
      BY <1>5, <1>0 DEF LeaderTypes, EndRound
    <2> QED BY <1>5, <2>1 DEF LeaderTypes, EndRound, Leading
  <1>6. ASSUME NEW i \in Instance, FinishJob(i) PROVE LeaderTypes'
    <2>1. phase[i] = "working" /\ position[i] \in Jobs BY <1>6 DEF FinishJob, AtJob
    <2>2. Interval[Job[position[i]]] \in Nat BY <2>1, JobTypes
    <2> QED BY <1>0, <1>6, <2>1, <2>2, RescheduleTypes DEF FinishJob
  <1>7. ASSUME NEW i \in Instance, DeferJob(i) PROVE LeaderTypes'
    <2>1. Today \in Nat BY <1>0, DayBounds DEF Today
    <2>2. Tomorrow(i) \in Nat BY <2>1, ApiBudgetAssumption, Z3 DEF Tomorrow
    <2> QED BY <1>7, <2>2, RescheduleTypes DEF DeferJob
  <1>8. ASSUME UNCHANGED leaderVars PROVE LeaderTypes'
    BY <1>8 DEF LeaderTypes, leaderVars
  <1>9. CASE LoseSession BY <1>9, FaultTypes DEF LeaderTypes, LoseSession
  <1>10. ASSUME NEW i \in Instance, Call(i) \/ IdleRound(i) PROVE UNCHANGED leaderVars
    BY <1>10 DEF Call, IdleRound, vars
  <1>11. CASE UNCHANGED vars BY <1>11, <1>8 DEF vars
  <1> QED BY <1>1, <1>2, <1>3, <1>4, <1>5, <1>6, <1>7, <1>8, <1>9, <1>10, <1>11 DEF Next, Step

LEMMA AtJobStep ==
    ASSUME LeaderTypes, AtJob, [Next]_vars
    PROVE  AtJob'
  <1> SUFFICES ASSUME NEW i \in Instance, phase'[i] = "working" PROVE position'[i] \in Jobs
    BY DEF AtJob
  <1>1. ASSUME NEW e \in Instance, BeginJob(e) PROVE position'[i] \in Jobs
    BY <1>1 DEF BeginJob, Due, LeaderTypes, AtJob
  <1>2. ASSUME NEW e \in Instance,
               \/ Boot(e) \/ TryAcquire(e) \/ Prepare(e) \/ BeginRound(e) \/ SkipJob(e)
               \/ EndRound(e) \/ RequestShutdown(e)
        PROVE  position'[i] \in Jobs
    BY <1>2 DEF Boot, TryAcquire, Prepare, BeginRound, SkipJob, EndRound, RequestShutdown,
                LeaderTypes, AtJob
  <1>3. ASSUME NEW e \in Instance, LoseLeadership(e) \/ Exit(e) \/ Crash(e)
        PROVE  position'[i] \in Jobs
    BY <1>3 DEF LoseLeadership, Exit, Crash, Retire, LeaderTypes, AtJob
  <1>4. ASSUME NEW e \in Instance, FinishJob(e) \/ DeferJob(e) PROVE position'[i] \in Jobs
    BY <1>4 DEF FinishJob, DeferJob, Reschedule, LeaderTypes, AtJob
  <1>5. ASSUME UNCHANGED <<phase, position>> PROVE position'[i] \in Jobs
    BY <1>5 DEF AtJob
  <1>6. ASSUME NEW e \in Instance, Call(e) \/ IdleRound(e) PROVE UNCHANGED <<phase, position>>
    BY <1>6 DEF Call, IdleRound, vars, leaderVars
  <1>7. CASE LoseSession BY <1>7, <1>5 DEF LoseSession
  <1>8. CASE UNCHANGED leaderVars BY <1>8, <1>5 DEF leaderVars
  <1> QED BY <1>1, <1>2, <1>3, <1>4, <1>5, <1>6, <1>7, <1>8 DEF Next, Step, vars

\* Outside a job no call is left open.
LEMMA CallsAtWorkStep ==
    ASSUME BudgetTypeOK, LeaderTypes, CallsAtWork, [Next]_vars
    PROVE  CallsAtWork'
  <1> SUFFICES ASSUME NEW i \in Instance, call'[i].step # "none" PROVE phase'[i] = "working"
    BY DEF CallsAtWork
  <1>1. ASSUME NEW e \in Instance, Call(e) PROVE phase'[i] = "working"
    <2>1. phase' = phase BY <1>1 DEF Call, leaderVars
    <2>2. CASE Request(e) BY <2>1, <2>2 DEF Request, Ask, BudgetTypeOK, CallsAtWork, Instance
    <2>3. CASE CallStep(e)
      <3>1. call[i].step # "none"
        BY <2>3 DEF CallStep, Allow, Refuse, Record, Send, NoCall, BudgetTypeOK, Instance
      <3> QED BY <2>1, <3>1 DEF CallsAtWork
    <2> QED BY <1>1, <2>2, <2>3 DEF Call
  <1>2. ASSUME NEW e \in Instance, EndCall(e), \A j \in Instance : j # e => phase'[j] = phase[j]
        PROVE  phase'[i] = "working"
    <2>1. i # e BY <1>2 DEF EndCall, NoCall, BudgetTypeOK, Instance
    <2>2. call'[i] = call[i] BY <1>2, <2>1 DEF EndCall, BudgetTypeOK, Instance
    <2> QED BY <1>2, <2>1, <2>2 DEF CallsAtWork
  <1>3. ASSUME NEW e \in Instance, Crash(e) \/ FinishJob(e) \/ DeferJob(e)
        PROVE  phase'[i] = "working"
    BY <1>3, <1>2 DEF Crash, Retire, FinishJob, DeferJob, Reschedule, LeaderTypes
  <1>4. ASSUME call' = call, NEW e \in Instance, call[e].step = "none",
               \A j \in Instance : j # e => phase'[j] = phase[j]
        PROVE  phase'[i] = "working"
    BY <1>4 DEF CallsAtWork
  <1>5. ASSUME NEW e \in Instance, Exit(e) PROVE phase'[i] = "working"
    BY <1>5, <1>4 DEF Exit, Retire, budgetVars, LeaderTypes
  <1>6. ASSUME NEW e \in Instance,
               \/ Boot(e) \/ TryAcquire(e) \/ Prepare(e) \/ LoseLeadership(e) \/ BeginRound(e)
               \/ BeginJob(e) \/ EndRound(e)
        PROVE  phase'[i] = "working"
    <2>1. phase[e] # "working"
      BY <1>6 DEF Boot, TryAcquire, Prepare, LoseLeadership, BeginRound, BeginJob, EndRound
    <2>2. call[e].step = "none" BY <2>1 DEF CallsAtWork
    <2>3. call' = call /\ \A j \in Instance : j # e => phase'[j] = phase[j]
      BY <1>6 DEF Boot, TryAcquire, Prepare, LoseLeadership, BeginRound, BeginJob, EndRound,
                  Retire, LeaderTypes, budgetVars
    <2> QED BY <2>2, <2>3, <1>4
  <1>7. ASSUME UNCHANGED <<call, phase>> PROVE phase'[i] = "working"
    BY <1>7 DEF CallsAtWork
  <1>8. ASSUME NEW e \in Instance, SkipJob(e) \/ RequestShutdown(e) \/ IdleRound(e)
        PROVE  UNCHANGED <<call, phase>>
    BY <1>8 DEF SkipJob, RequestShutdown, IdleRound, vars, budgetVars, leaderVars
  <1>9. CASE LoseSession \/ (Tick /\ UNCHANGED leaderVars) \/ UNCHANGED vars
    BY <1>9, <1>7 DEF LoseSession, Tick, vars, leaderVars, budgetVars
  <1> QED BY <1>1, <1>3, <1>5, <1>6, <1>7, <1>8, <1>9 DEF Next, Step

LEMMA HolderStep ==
    ASSUME LeaderTypes, HolderIsUp, [Next]_vars
    PROVE  HolderIsUp'
  <1> SUFFICES ASSUME NEW i \in Instance, holder' = i
               PROVE  phase'[i] \notin {"down", "standby"}
    BY DEF HolderIsUp
  <1>0. NoClient \notin Instance BY ApiBudgetAssumption DEF Instance
  <1>1. ASSUME NEW e \in Instance, TryAcquire(e) PROVE phase'[i] \notin {"down", "standby"}
    BY <1>1 DEF TryAcquire, LeaderTypes
  <1>2. ASSUME NEW e \in Instance, LoseLeadership(e) \/ Exit(e) \/ Crash(e)
        PROVE  phase'[i] \notin {"down", "standby"}
    <2>1. i # e /\ holder = i
      BY <1>0, <1>2 DEF LoseLeadership, Exit, Crash, Retire
    <2> QED BY <1>2, <2>1 DEF LoseLeadership, Exit, Crash, Retire, LeaderTypes, HolderIsUp
  <1>3. ASSUME NEW e \in Instance, Boot(e) PROVE phase'[i] \notin {"down", "standby"}
    BY <1>3 DEF Boot, LeaderTypes, HolderIsUp
  <1>4. ASSUME NEW e \in Instance,
               \/ Prepare(e) \/ BeginRound(e) \/ BeginJob(e) \/ EndRound(e)
               \/ FinishJob(e) \/ DeferJob(e)
        PROVE  phase'[i] \notin {"down", "standby"}
    BY <1>4 DEF Prepare, BeginRound, BeginJob, EndRound, FinishJob, DeferJob, Reschedule,
                LeaderTypes, HolderIsUp
  <1>5. ASSUME NEW e \in Instance, SkipJob(e) \/ RequestShutdown(e) \/ IdleRound(e) \/ Call(e)
        PROVE  UNCHANGED <<holder, phase>>
    BY <1>5 DEF SkipJob, RequestShutdown, IdleRound, Call, vars, leaderVars
  <1>6. CASE LoseSession BY <1>0, <1>6 DEF LoseSession
  <1>7. CASE UNCHANGED <<holder, phase>> BY <1>7 DEF HolderIsUp
  <1> QED BY <1>1, <1>2, <1>3, <1>4, <1>5, <1>6, <1>7 DEF Next, Step, vars, leaderVars

-----------------------------------------------------------------------------
(* The round without leadership.                                           *)

LEMMA BehindStep ==
    ASSUME LeaderTypes, AtJob, Behind, [Next]_vars
    PROVE  Behind'
  <1>0. /\ NoClient \notin Instance
        /\ \A i \in Instance : position[i] \in Nat /\ unled[i] \subseteq Nat
    BY JobTypes, ApiBudgetAssumption DEF Instance, LeaderTypes
  <1>1. ASSUME NEW e \in Instance,
               Boot(e) \/ TryAcquire(e) \/ Prepare(e) \/ BeginRound(e) \/ EndRound(e)
        PROVE  Behind'
    <2>1. /\ unled' = unled
          /\ \A i \in Instance : i # e => phase'[i] = phase[i] /\ position'[i] = position[i]
      BY <1>1 DEF Boot, TryAcquire, Prepare, BeginRound, EndRound, LeaderTypes
    <2>2. \A i \in Instance : i # e /\ holder' = i => holder = i
      BY <1>1 DEF Boot, TryAcquire, Prepare, BeginRound, EndRound
    <2>3. phase'[e] \in {"standby", "prepare", "jobs"} \/ holder' = e => unled[e] = {}
      BY <1>1 DEF Boot, TryAcquire, Prepare, BeginRound, EndRound, Healthy, LeaderTypes, Behind
    <2>4. phase'[e] \in {"standby", "prepare", "round", "jobs"}
      BY <1>1 DEF Boot, TryAcquire, Prepare, BeginRound, EndRound, LeaderTypes
    <2> QED BY <2>1, <2>2, <2>3, <2>4 DEF Behind
  <1>2. ASSUME NEW e \in Instance, LoseLeadership(e) \/ Exit(e) \/ Crash(e)
        PROVE  Behind'
    <2>1. unled'[e] = {}
      BY <1>2 DEF LoseLeadership, Exit, Crash, Retire, LeaderTypes
    <2>2. \A i \in Instance : i # e => /\ phase'[i] = phase[i] /\ position'[i] = position[i]
                                      /\ unled'[i] = unled[i] /\ (holder' = i => holder = i)
      BY <1>0, <1>2 DEF LoseLeadership, Exit, Crash, Retire, LeaderTypes
    <2> QED BY <2>1, <2>2 DEF Behind
  <1>3. ASSUME NEW e \in Instance, BeginJob(e) PROVE Behind'
    <2>1. /\ holder' = holder /\ position' = position
          /\ \A i \in Instance : i # e => phase'[i] = phase[i] /\ unled'[i] = unled[i]
      BY <1>3 DEF BeginJob, LeaderTypes
    <2>2. phase[e] = "jobs" /\ phase'[e] = "working" BY <1>3 DEF BeginJob, LeaderTypes
    <2>3. /\ holder = e => unled'[e] = {}
          /\ \A j \in unled'[e] : j \in unled[e] \/ j = position[e]
      BY <1>3 DEF BeginJob, LeaderTypes, Behind
    <2> QED BY <1>0, <2>1, <2>2, <2>3 DEF Behind
  <1>4. ASSUME NEW e \in Instance, SkipJob(e) \/ FinishJob(e) \/ DeferJob(e) PROVE Behind'
    <2>1. /\ holder' = holder /\ unled' = unled /\ position'[e] = position[e] + 1
          /\ phase'[e] = "jobs" /\ phase[e] \in {"jobs", "working"}
          /\ \A i \in Instance : i # e => phase'[i] = phase[i] /\ position'[i] = position[i]
      BY <1>4 DEF SkipJob, FinishJob, DeferJob, Reschedule, LeaderTypes
    <2>2. \A j \in unled'[e] : j < position'[e]
      <3>1. ASSUME NEW j \in unled[e] PROVE j <= position[e] BY <2>1, <3>1 DEF Behind
      <3> QED BY <3>1, <2>1, <1>0
    <2>3. \A j \in unled'[e] : j <= position'[e] BY <2>1, <2>2, <1>0
    <2> QED BY <2>1, <2>2, <2>3 DEF Behind
  <1>5. ASSUME NEW e \in Instance, RequestShutdown(e) \/ IdleRound(e) \/ Call(e)
        PROVE  UNCHANGED <<holder, phase, position, unled>>
    BY <1>5 DEF RequestShutdown, IdleRound, Call, vars, leaderVars
  <1>6. CASE LoseSession BY <1>0, <1>6 DEF LoseSession, Behind
  <1>7. CASE UNCHANGED <<holder, phase, position, unled>> BY <1>7 DEF Behind
  <1> QED BY <1>1, <1>2, <1>3, <1>4, <1>5, <1>6, <1>7 DEF Next, Step, vars, leaderVars

-----------------------------------------------------------------------------
(* The theorems.                                                           *)

LEMMA EngineInvInit == Init => EngineInv
  <1> SUFFICES ASSUME Init PROVE EngineInv
    OBVIOUS
  <1>1. BudgetTypeOK BY BudgetInvInit DEF Init, BudgetInv
  <1>2. LeaderTypes
    <2>1. Len(Job) \in Nat /\ 1 \in 1 .. Len(Job) + 1 BY JobTypes
    <2>2. 0 \in 0 .. MaxFaults BY RuntimeAssumption
    <2> QED BY <2>1, <2>2 DEF Init, LeaderTypes, Never
  <1>3. CallsAtWork BY DEF Init, BudgetInit, NoCall, CallsAtWork, Instance
  <1>4. HolderIsUp BY ApiBudgetAssumption DEF Init, HolderIsUp, Instance
  <1>5. AtJob /\ Behind BY DEF Init, AtJob, Behind
  <1> QED BY <1>1, <1>2, <1>3, <1>4, <1>5, TypeParts DEF EngineInv

LEMMA EngineInvStep == EngineInv /\ [Next]_vars => EngineInv'
  <1> SUFFICES ASSUME EngineInv, [Next]_vars PROVE EngineInv'
    OBVIOUS
  <1>1. BudgetTypeOK /\ LeaderTypes /\ CallsAtWork /\ HolderIsUp /\ AtJob /\ Behind
    BY TypeParts DEF EngineInv
  <1>2. BudgetTypeOK' BY <1>1, EngineMakesCalls, TypeStep
  <1>3. LeaderTypes' /\ CallsAtWork' /\ HolderIsUp' /\ AtJob' /\ Behind'
    BY <1>1, LeaderTypesStep, CallsAtWorkStep, HolderStep, AtJobStep, BehindStep
  <1>4. TypeOK'
    BY <1>2, <1>3 DEF TypeOK, LeaderTypes, CallsAtWork, HolderIsUp
  <1> QED BY <1>3, <1>4 DEF EngineInv

THEOREM EngineInvariance == Spec => []EngineInv
  BY EngineInvInit, EngineInvStep, PTL DEF Spec

\* Every reachable state of the engine is well typed, and a process calls the
\* provider only inside a job.
THEOREM EngineTyping == Spec => []TypeOK
  <1>1. EngineInv => TypeOK BY DEF EngineInv
  <1> QED BY <1>1, EngineInvariance, PTL

\* By construction every step of the engine is one of the budget or leaves its
\* variables alone, so what holds of the budget holds of the engine.
LEMMA EngineStepsAreBudgetSteps == Spec => BudgetSpec
  <1>1. Init => BudgetInit BY DEF Init
  <1>2. EngineInv /\ [Next]_vars => [BudgetNext]_budgetVars
    BY EngineMakesCalls DEF EngineInv
  <1> QED BY <1>1, <1>2, EngineInvariance, PTL DEF Spec, BudgetSpec

\* Whatever the schedule, its processes keep to the day's limits ...
THEOREM EngineWithinBudget == Spec => []WithinBudget
  BY EngineStepsAreBudgetSteps, BudgetIsKept, PTL

\* ... to the quota as the provider counts it ...
THEOREM EngineQuotaKept == Spec => []QuotaKept
  BY EngineStepsAreBudgetSteps, ProviderQuota, PTL

\* ... and training to what the operational reserve leaves.
THEOREM EngineTrainingLeavesReserve == Spec => TrainingLeavesReserve
  BY EngineStepsAreBudgetSteps, ReserveIsKept, PTL

\* A process without the lock begins no job twice: two processes run the same
\* job together only until the first one's round ends.
THEOREM UnledJobsBeginOnce == Spec => UnledRoundEnds
  <1>1. EngineInv /\ [Next]_vars =>
           [\A i \in Instance :
               phase[i] # "working" /\ phase'[i] = "working" => position[i] \notin unled[i]]_vars
    <2> SUFFICES ASSUME EngineInv, [Next]_vars, NEW i \in Instance,
                        phase[i] # "working", phase'[i] = "working"
                 PROVE  position[i] \notin unled[i]
      OBVIOUS
    <2>1. LeaderTypes /\ Behind BY TypeParts DEF EngineInv
    <2>2. phase[i] = "jobs"
      <3>1. ASSUME NEW e \in Instance, BeginJob(e) PROVE phase[i] = "jobs"
        BY <2>1, <3>1 DEF BeginJob, LeaderTypes
      <3>2. ASSUME NEW e \in Instance,
                   \/ Boot(e) \/ TryAcquire(e) \/ Prepare(e) \/ LoseLeadership(e)
                   \/ BeginRound(e) \/ EndRound(e) \/ FinishJob(e) \/ DeferJob(e)
                   \/ Exit(e) \/ Crash(e)
            PROVE  FALSE
        BY <2>1, <3>2 DEF Boot, TryAcquire, Prepare, LoseLeadership, BeginRound, EndRound,
                         FinishJob, DeferJob, Exit, Crash, Retire, Reschedule, LeaderTypes
      <3>3. ASSUME NEW e \in Instance,
                   SkipJob(e) \/ IdleRound(e) \/ Call(e) \/ RequestShutdown(e)
            PROVE  FALSE
        BY <3>3 DEF SkipJob, IdleRound, Call, RequestShutdown, vars, leaderVars
      <3>4. CASE LoseSession \/ (Tick /\ UNCHANGED leaderVars) \/ UNCHANGED vars
        BY <3>4 DEF LoseSession, vars, leaderVars
      <3> QED BY <3>1, <3>2, <3>3, <3>4 DEF Next, Step
    <2>3. position[i] \in Nat BY <2>1, JobTypes DEF LeaderTypes
    <2> QED BY <2>1, <2>2, <2>3 DEF Behind
  <1> QED BY <1>1, EngineInvariance, PTL DEF Spec, UnledRoundEnds

=============================================================================
