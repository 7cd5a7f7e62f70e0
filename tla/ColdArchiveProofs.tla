------------------------- MODULE ColdArchiveProofs --------------------------
(***************************************************************************)
(* Proofs about ShadowPicks, and about ColdArchive around it, for any      *)
(* observations, lines, runs, workers, labs, batch sizes and crashes.      *)
(* The four labs guard one bet per fixture in two places (a unique index   *)
(* on decisions, a lookup at the bet), and what makes both together sound  *)
(* is what a run at its bet already knows about its own decision           *)
(* (BetterDecided). The archive keeps the evidence of decisions in the     *)
(* table however many faults there are, and one fault of any kind loses no *)
(* observation.                                                            *)
(***************************************************************************)
EXTENDS ColdArchive, FiniteSetTheorems, SequenceTheorems, TLAPS

-----------------------------------------------------------------------------
(* The inductive invariant of the labs.                                    *)

RunRecord == [pc : {"decide", "bet"}, lab : Lab, todo : SUBSET Obs, pick : Obs \cup {NoPick}]

\* Rows and runs have their shapes.
ShadowTypes ==
    /\ log \in Seq(Obs) /\ hot \subseteq Obs
    /\ picks \in [Lab -> SUBSET Obs] /\ bets \in [Lab -> SUBSET Obs]
    /\ work \in [Worker -> RunRecord \cup {Idle}]

\* A run about to bet has its PICK decision in the table, but in GoalLab.
BetterDecided ==
    \A w \in Worker : work[w].pc = "bet" =>
        work[w].lab = "GOAL" \/ work[w].pick \in picks[work[w].lab]

\* At most one bet, without counting.
BetsAgree == \A lab \in Lab : \A x, y \in bets[lab] : x = y

\* Where no run died in between, a decided fixture without its bet has a run
\* that will write it, for a decision that is in the table.
DecidedHasBetter ==
    \A lab \in Lab \ crashed :
        picks[lab] # {} =>
            \/ bets[lab] # {}
            \/ \E w \in Worker : /\ work[w].pc = "bet" /\ work[w].lab = lab
                                 /\ work[w].pick \in picks[lab]

\* What a decision names is in the table.
DecidedIsHot == Referenced \subseteq hot

ShadowInv ==
    /\ ShadowTypes /\ BetterDecided /\ BetsAgree /\ BetsHaveDecisions
    /\ DecidedHasBetter /\ DecidedIsHot

-----------------------------------------------------------------------------
(* One lemma for each kind of step.                                        *)

\* A run in progress has the fields of a run.
LEMMA RunFields ==
    ASSUME ShadowTypes, NEW w \in Worker
    PROVE  /\ work[w].pc \in {"decide", "bet"} => work[w] \in RunRecord
           /\ work[w].pc = "idle" <=> work[w] = Idle
           /\ Idle.pc = "idle"
  BY DEF ShadowTypes, RunRecord, Idle

LEMMA CaptureKeeps ==
    ASSUME ShadowInv, NEW o \in Obs, Capture(o)
    PROVE  ShadowInv'
  <1>1. ShadowTypes' BY DEF ShadowInv, ShadowTypes, Capture
  <1>2. DecidedIsHot' BY DEF ShadowInv, DecidedIsHot, Referenced, Capture
  <1> QED
    BY <1>1, <1>2
    DEF ShadowInv, BetterDecided, BetsAgree, BetsHaveDecisions, DecidedHasBetter, Capture

LEMMA AgeKeeps ==
    ASSUME ShadowInv, Age
    PROVE  ShadowInv'
  BY DEF ShadowInv, ShadowTypes, BetterDecided, BetsAgree, BetsHaveDecisions,
         DecidedHasBetter, DecidedIsHot, Referenced, Age

LEMMA EvaluateKeeps ==
    ASSUME ShadowInv, NEW w \in Worker, NEW lab \in Lab, Evaluate(w, lab)
    PROVE  ShadowInv'
  <1>0. ShadowTypes BY DEF ShadowInv
  <1>1. PICK pick \in (NewestOfLine \ ColdObs) \cup {NoPick} :
          work' = [work EXCEPT ![w] = Deciding(lab, NewestOfLine, pick)]
    BY DEF Evaluate
  <1>2. NewestOfLine \subseteq Obs BY <1>0 DEF NewestOfLine, ShadowTypes
  <1>3. /\ Deciding(lab, NewestOfLine, pick) \in RunRecord
        /\ Deciding(lab, NewestOfLine, pick).pc = "decide"
    BY <1>2 DEF Deciding, RunRecord
  <1>4. /\ work[w] = Idle /\ work'[w].pc = "decide"
        /\ \A u \in Worker : u # w => work'[u] = work[u]
        /\ UNCHANGED <<log, hot, picks, passes, bets, crashed>>
    BY <1>0, <1>1, <1>3 DEF Evaluate, ShadowTypes
  <1>5. ShadowTypes' BY <1>0, <1>1, <1>3, <1>4 DEF ShadowTypes
  <1>6. BetterDecided' BY <1>4 DEF ShadowInv, BetterDecided
  <1>7. DecidedHasBetter' BY <1>0, <1>4, RunFields DEF ShadowInv, DecidedHasBetter
  <1>8. DecidedIsHot' BY <1>4 DEF ShadowInv, DecidedIsHot, Referenced
  <1> QED BY <1>4, <1>5, <1>6, <1>7, <1>8 DEF ShadowInv, BetsAgree, BetsHaveDecisions

LEMMA DecideKeeps ==
    ASSUME ShadowInv, NEW w \in Worker, Decide(w)
    PROVE  ShadowInv'
  <1>0. ShadowTypes /\ work[w].pc = "decide" BY DEF ShadowInv, Decide
  <1>1. /\ work[w] \in RunRecord /\ work[w].lab \in Lab /\ work[w].todo \subseteq Obs
        /\ UNCHANGED <<log, hot, bets, crashed>>
    BY <1>0, RunFields DEF RunRecord, Decide
  <1> DEFINE t == work[w]
             lab == work[w].lab
  <1>2. PICK o \in t.todo :
          LET isPick == o = t.pick
              inserted == ~isPick \/ ClashingPicks(lab, o) = {}
              refused == inserted /\ o \notin hot
          IN  /\ picks' = IF isPick /\ inserted /\ ~refused
                            THEN [picks EXCEPT ![lab] = @ \cup {o}] ELSE picks
              /\ passes' = IF ~isPick /\ ~refused THEN passes \cup {o} ELSE passes
              /\ work' = [work EXCEPT ![w] =
                    IF refused THEN Idle
                    ELSE IF isPick /\ BetsOn(lab, inserted)
                         THEN [t EXCEPT !.pc = "bet", !.todo = @ \ {o}]
                         ELSE Continue(t, t.todo \ {o})]
    BY DEF Decide
  <1> DEFINE next == work'[w]
  <1>3. o \in Obs /\ \A u \in Worker : u # w => work'[u] = work[u]
    BY <1>0, <1>1, <1>2 DEF ShadowTypes
  <1>4. \/ next = Idle
        \/ next = Deciding(lab, t.todo \ {o}, t.pick)
        \/ /\ next = [t EXCEPT !.pc = "bet", !.todo = @ \ {o}]
           /\ o = t.pick
           /\ \/ lab = "GOAL"
              \/ ClashingPicks(lab, o) = {} /\ o \in hot
    BY <1>0, <1>2 DEF ShadowTypes, Continue, BetsOn
  <1>5. /\ next \in RunRecord \cup {Idle}
        /\ next.pc = "bet" => next.lab = lab /\ next.pick = t.pick /\ o = t.pick
    <2>1. CASE next = Idle BY <2>1 DEF Idle
    <2>2. CASE next = Deciding(lab, t.todo \ {o}, t.pick)
      BY <1>1, <2>2 DEF RunRecord, Deciding
    <2>3. CASE next = [t EXCEPT !.pc = "bet", !.todo = @ \ {o}] /\ o = t.pick
      <3>1. next \in RunRecord BY <1>1, <2>3 DEF RunRecord
      <3>2. next.lab = lab /\ next.pick = t.pick BY <1>1, <2>3 DEF RunRecord
      <3> QED BY <3>1, <3>2, <2>3
    <2> QED BY <2>1, <2>2, <2>3, <1>4
  <1>6. /\ \A l \in Lab : picks[l] \subseteq picks'[l]
        /\ picks' \in [Lab -> SUBSET Obs]
        /\ \A l \in Lab : l # lab => picks'[l] = picks[l]
        /\ picks'[lab] \subseteq picks[lab] \cup {o}
    BY <1>0, <1>1, <1>2, <1>3 DEF ShadowTypes
  <1>7. ShadowTypes'
    <2>1. work' \in [Worker -> RunRecord \cup {Idle}] BY <1>0, <1>2, <1>5 DEF ShadowTypes
    <2> QED BY <2>1, <1>0, <1>1, <1>6 DEF ShadowTypes
  <1>8. next.pc = "bet" /\ lab # "GOAL" => o \in picks'[lab]
    <2>1. SUFFICES ASSUME next.pc = "bet", lab # "GOAL" PROVE o \in picks'[lab] OBVIOUS
    <2>2. ClashingPicks(lab, o) = {} /\ o \in hot /\ o = t.pick
      BY <2>1, <1>4 DEF Deciding, Idle
    <2>3. picks' = [picks EXCEPT ![lab] = @ \cup {o}] BY <1>2, <2>2
    <2> QED BY <2>3, <1>0, <1>1 DEF ShadowTypes
  <1>9. picks'[lab] # picks[lab] =>
          /\ next.pc = "bet" /\ next.lab = lab /\ next.pick = o /\ o \in picks'[lab]
    <2>1. SUFFICES ASSUME picks'[lab] # picks[lab]
                   PROVE  /\ next.pc = "bet" /\ next.lab = lab /\ next.pick = o
                          /\ o \in picks'[lab]
      OBVIOUS
    <2>2. /\ o = t.pick /\ ClashingPicks(lab, o) = {} /\ o \in hot
          /\ picks' = [picks EXCEPT ![lab] = @ \cup {o}]
      BY <1>2, <2>1
    <2>3. next = [t EXCEPT !.pc = "bet", !.todo = @ \ {o}]
      BY <1>0, <1>2, <2>2 DEF ShadowTypes, BetsOn
    <2> QED BY <2>2, <2>3, <1>0, <1>1 DEF ShadowTypes, RunRecord
  <1>10. BetterDecided'
    BY <1>3, <1>5, <1>6, <1>8, RunFields, <1>0 DEF ShadowInv, BetterDecided, RunRecord
  <1>11. DecidedHasBetter'
    <2> SUFFICES ASSUME NEW l \in Lab \ crashed, picks'[l] # {}, bets[l] = {}
                 PROVE  \E u \in Worker : /\ work'[u].pc = "bet" /\ work'[u].lab = l
                                          /\ work'[u].pick \in picks'[l]
      BY <1>1 DEF DecidedHasBetter
    <2>1. CASE l = lab /\ picks'[lab] # picks[lab] BY <2>1, <1>9
    <2>2. CASE picks'[l] = picks[l]
      <3>1. PICK u \in Worker : /\ work[u].pc = "bet" /\ work[u].lab = l
                                /\ work[u].pick \in picks[l]
        BY <2>2 DEF ShadowInv, DecidedHasBetter
      <3> QED BY <3>1, <2>2, <1>0, <1>3
    <2> QED BY <2>1, <2>2, <1>6
  <1>12. DecidedIsHot'
    <2>1. passes' \subseteq passes \cup (hot \cap {o}) BY <1>2
    <2>2. \A l \in Lab : picks'[l] \subseteq picks[l] \cup (hot \cap {o})
      BY <1>0, <1>1, <1>2 DEF ShadowTypes
    <2> QED BY <2>1, <2>2, <1>1 DEF ShadowInv, DecidedIsHot, Referenced
  <1>13. BetsHaveDecisions' BY <1>1, <1>6 DEF ShadowInv, BetsHaveDecisions
  <1> QED BY <1>1, <1>7, <1>10, <1>11, <1>12, <1>13 DEF ShadowInv, BetsAgree

LEMMA BetKeeps ==
    ASSUME ShadowInv, NEW w \in Worker, Bet(w)
    PROVE  ShadowInv'
  <1>0. ShadowTypes /\ work[w].pc = "bet" BY DEF ShadowInv, Bet
  <1> DEFINE t == work[w]
             lab == work[w].lab
             next == work'[w]
  <1>1. /\ work[w] \in RunRecord /\ work[w].lab \in Lab
        /\ UNCHANGED <<log, hot, picks, passes, crashed>>
    BY <1>0, RunFields DEF RunRecord, Bet
  <1>2. /\ bets' = IF MayBet(lab, t.pick) THEN [bets EXCEPT ![lab] = @ \cup {t.pick}] ELSE bets
        /\ work' = [work EXCEPT ![w] = IF lab = "GOAL" /\ t.pick \notin picks[lab]
                                         THEN Idle ELSE Continue(t, t.todo)]
    BY DEF Bet
  <1>3. t.pick \in picks[lab] \/ lab = "GOAL" BY <1>0 DEF ShadowInv, BetterDecided
  <1>4. /\ MayBet(lab, t.pick) => t.pick \in picks[lab] /\ bets[lab] = {}
        /\ t.pick \in picks[lab] => MayBet(lab, t.pick) \/ bets[lab] # {}
    BY <1>3 DEF MayBet
  <1>5. /\ next \in RunRecord \cup {Idle} /\ next.pc # "bet"
        /\ \A u \in Worker : u # w => work'[u] = work[u]
    <2>1. next = Idle \/ next = Deciding(lab, t.todo, t.pick)
      BY <1>0, <1>2 DEF ShadowTypes, Continue
    <2>2. Deciding(lab, t.todo, t.pick) \in RunRecord BY <1>1 DEF RunRecord, Deciding
    <2> QED BY <2>1, <2>2, <1>0, <1>2 DEF ShadowTypes, Idle, Deciding
  <1>6. /\ bets' \in [Lab -> SUBSET Obs]
        /\ \A l \in Lab : bets[l] \subseteq bets'[l]
        /\ \A l \in Lab : l # lab => bets'[l] = bets[l]
        /\ bets'[lab] = bets[lab] \/ (bets'[lab] = {t.pick} /\ t.pick \in picks[lab])
        /\ t.pick \in picks[lab] => bets'[lab] # {}
    <2>1. CASE MayBet(lab, t.pick)
      <3>1. /\ bets' = [bets EXCEPT ![lab] = @ \cup {t.pick}]
            /\ bets[lab] = {} /\ t.pick \in picks[lab]
        BY <2>1, <1>2, <1>4
      <3>2. t.pick \in Obs BY <3>1, <1>0, <1>1 DEF ShadowTypes
      <3> QED BY <3>1, <3>2, <1>0, <1>1 DEF ShadowTypes
    <2>2. CASE ~MayBet(lab, t.pick)
      <3>1. bets' = bets BY <2>2, <1>2
      <3>2. t.pick \in picks[lab] => bets[lab] # {} BY <2>2, <1>4
      <3>3. bets' \in [Lab -> SUBSET Obs] BY <3>1, <1>0 DEF ShadowTypes
      <3>4. bets'[lab] = bets[lab] /\ (t.pick \in picks[lab] => bets'[lab] # {})
        BY <3>1, <3>2
      <3> QED BY <3>1, <3>3, <3>4
    <2> QED BY <2>1, <2>2
  <1>7. ShadowTypes'
    <2>1. work' \in [Worker -> RunRecord \cup {Idle}] BY <1>0, <1>2, <1>5 DEF ShadowTypes
    <2> QED BY <2>1, <1>0, <1>1, <1>6 DEF ShadowTypes
  <1>8. BetterDecided' BY <1>1, <1>5 DEF ShadowInv, BetterDecided
  <1>9. BetsAgree' BY <1>6 DEF ShadowInv, BetsAgree
  <1>10. BetsHaveDecisions' BY <1>1, <1>6 DEF ShadowInv, BetsHaveDecisions
  <1>11. DecidedHasBetter'
    <2> SUFFICES ASSUME NEW l \in Lab \ crashed, picks[l] # {}, bets'[l] = {}
                 PROVE  \E u \in Worker : /\ work'[u].pc = "bet" /\ work'[u].lab = l
                                          /\ work'[u].pick \in picks[l]
      BY <1>1 DEF DecidedHasBetter
    <2>1. bets[l] = {} BY <1>6
    <2>2. PICK u \in Worker : /\ work[u].pc = "bet" /\ work[u].lab = l
                              /\ work[u].pick \in picks[l]
      BY <2>1 DEF ShadowInv, DecidedHasBetter
    <2>3. u # w BY <2>2, <1>6
    <2> QED BY <2>2, <2>3, <1>5
  <1>12. DecidedIsHot' BY <1>1 DEF ShadowInv, DecidedIsHot, Referenced
  <1> QED BY <1>7, <1>8, <1>9, <1>10, <1>11, <1>12 DEF ShadowInv

LEMMA CrashKeeps ==
    ASSUME ShadowInv, NEW w \in Worker, WorkerCrash(w)
    PROVE  ShadowInv'
  <1>0. ShadowTypes BY DEF ShadowInv
  <1>1. /\ work' \in [Worker -> RunRecord \cup {Idle}] /\ work'[w] = Idle
        /\ \A u \in Worker : u # w => work'[u] = work[u]
        /\ UNCHANGED <<log, hot, picks, passes, bets>>
        /\ crashed \subseteq crashed'
        /\ work[w].pc = "bet" => work[w].lab \in crashed'
    BY <1>0 DEF ShadowTypes, WorkerCrash
  <1>2. ShadowTypes' BY <1>0, <1>1 DEF ShadowTypes
  <1>3. BetterDecided' BY <1>0, <1>1, RunFields DEF ShadowInv, BetterDecided
  <1>4. DecidedHasBetter'
    <2> SUFFICES ASSUME NEW l \in Lab \ crashed', picks[l] # {}, bets[l] = {}
                 PROVE  \E u \in Worker : /\ work'[u].pc = "bet" /\ work'[u].lab = l
                                          /\ work'[u].pick \in picks[l]
      BY <1>1 DEF DecidedHasBetter
    <2>1. PICK u \in Worker : /\ work[u].pc = "bet" /\ work[u].lab = l
                              /\ work[u].pick \in picks[l]
      BY <1>1 DEF ShadowInv, DecidedHasBetter
    <2> QED BY <2>1, <1>1
  <1>5. DecidedIsHot' BY <1>1 DEF ShadowInv, DecidedIsHot, Referenced
  <1> QED BY <1>1, <1>2, <1>3, <1>4, <1>5 DEF ShadowInv, BetsAgree, BetsHaveDecisions

-----------------------------------------------------------------------------
LEMMA ShadowInvInit == ShadowInit => ShadowInv
  <1> SUFFICES ASSUME ShadowInit PROVE ShadowInv OBVIOUS
  <1>1. ShadowTypes BY DEF ShadowInit, ShadowTypes
  <1>2. DecidedIsHot BY DEF ShadowInit, DecidedIsHot, Referenced
  <1> QED
    BY <1>1, <1>2
    DEF ShadowInit, ShadowInv, BetterDecided, BetsAgree, BetsHaveDecisions, DecidedHasBetter,
        Idle

LEMMA ShadowInvSame ==
    ASSUME ShadowInv, UNCHANGED shadowVars
    PROVE  ShadowInv'
  BY DEF shadowVars, ShadowInv, ShadowTypes, BetterDecided, BetsAgree, BetsHaveDecisions,
         DecidedHasBetter, DecidedIsHot, Referenced

LEMMA ShadowInvStep ==
    ASSUME ShadowInv, ShadowNext
    PROVE  ShadowInv'
  BY CaptureKeeps, AgeKeeps, EvaluateKeeps, DecideKeeps, BetKeeps, CrashKeeps DEF ShadowNext

THEOREM ShadowInvariance == ShadowSpec => []ShadowInv
  <1>1. ShadowInv /\ [ShadowNext]_<<shadowVars, faults>> => ShadowInv'
    BY ShadowInvStep, ShadowInvSame
  <1> QED BY <1>1, ShadowInvInit, PTL DEF ShadowSpec

\* A set of which any two members agree has at most one.
LEMMA AtMostOne ==
    ASSUME NEW S, \A x, y \in S : x = y
    PROVE  Cardinality(S) <= 1
  <1>1. CASE S = {} BY <1>1, FS_EmptySet
  <1>2. CASE S # {}
    <2>1. PICK x \in S : TRUE BY <1>2
    <2>2. S = {x} BY <2>1
    <2> QED BY <2>2, FS_Singleton
  <1> QED BY <1>1, <1>2

LEMMA InvGivesBets == ShadowInv => OneBetPerFixture /\ BetsHaveDecisions /\ PickedFixtureHasBet
  <1> SUFFICES ASSUME ShadowInv
               PROVE  OneBetPerFixture /\ BetsHaveDecisions /\ PickedFixtureHasBet
    OBVIOUS
  <1>1. OneBetPerFixture BY AtMostOne DEF ShadowInv, BetsAgree, OneBetPerFixture
  <1>2. PickedFixtureHasBet BY DEF ShadowInv, DecidedHasBetter, PickedFixtureHasBet
  <1> QED BY <1>1, <1>2 DEF ShadowInv

\* However many runs of a lab overlap and crash, a fixture carries one bet of it.
THEOREM BetsAreSingle == ShadowSpec => []OneBetPerFixture
  BY ShadowInvariance, InvGivesBets, PTL

\* The bet has its own PICK decision: a run that crashes before the bet leaves a
\* decision, never a bet without one.
THEOREM BetsAreDecided == ShadowSpec => []BetsHaveDecisions
  BY ShadowInvariance, InvGivesBets, PTL

\* A decided fixture is without a bet only while a run is about to write it, or
\* after a run of that lab died exactly there.
THEOREM DecisionsAreBet == ShadowSpec => []PickedFixtureHasBet
  BY ShadowInvariance, InvGivesBets, PTL

-----------------------------------------------------------------------------
(* The inductive invariant of the archive.                                 *)

Marker == {0} \cup {Greatest(S) : S \in SUBSET Obs}

RunRow ==
    [pc : {"select", "put", "verify", "register", "scan", "delete", "mark", "done"},
     cutoff : SUBSET Obs, after : Marker, batches : Nat,
     rows : SUBSET Obs, doomed : SUBSET Obs]

\* Runs have their shape, and what is cold was captured.
ArchiveTypes ==
    /\ run \in [Archiver -> RunRow \cup {NoRun}]
    /\ cold \in Nat /\ cold <= Len(log)
    /\ faults \in Nat

\* Without a fault so far, a run in progress has the lock,
LockHeld == faults = 0 => \A a \in Archiver : run[a].pc # "off" => lock = a

\* and what it uploads is still in the table.
UploadsHot == faults = 0 => \A a \in Archiver : run[a].pc = "put" => run[a].rows \subseteq hot

\* A batch past its verification reads back; past its registration, it is in
\* the catalog; and only its rows are deleted.
Verified ==
    \A a \in Archiver :
        /\ run[a].pc \in {"register", "scan", "delete"} => run[a].rows \in store
        /\ run[a].pc \in {"scan", "delete"} => run[a].rows \in catalog
        /\ run[a].pc = "delete" => run[a].doomed \subseteq run[a].rows

ArchiveInv ==
    /\ ShadowInv /\ ArchiveTypes
    /\ LockHeld /\ UploadsHot /\ Verified /\ NothingLost

-----------------------------------------------------------------------------
(* The evidence, whatever the faults.                                      *)

LEMMA DeleteKeepsShadow ==
    ASSUME ShadowInv, NEW a \in Archiver, Delete(a), UNCHANGED labVars
    PROVE  ShadowInv'
  <1>1. hot' \subseteq hot BY DEF Delete
  <1>2. ShadowTypes' BY <1>1 DEF ShadowInv, ShadowTypes, labVars
  <1>3. Referenced' = Referenced BY DEF labVars, Referenced
  <1>4. DecidedIsHot'
    BY <1>3 DEF ShadowInv, DecidedIsHot, Delete, ForeignKeysAllow
  <1> QED
    BY <1>2, <1>4
    DEF ShadowInv, BetterDecided, BetsAgree, BetsHaveDecisions, DecidedHasBetter, labVars

LEMMA ArchiveKeepsShadow ==
    ASSUME ShadowInv, [Next]_vars
    PROVE  ShadowInv'
  <1>1. CASE UNCHANGED vars BY <1>1, ShadowInvSame DEF vars
  <1>2. CASE ShadowNext BY <1>2, ShadowInvStep
  <1>3. ASSUME NEW a \in Archiver, StartRun(a) \/ ArchiveFault(a) PROVE ShadowInv'
    BY <1>3, ShadowInvSame DEF StartRun, ArchiveFault, labVars, shadowVars
  <1>4. ASSUME NEW a \in Archiver, RunStep(a) PROVE ShadowInv'
    <2>1. CASE UNCHANGED hot BY <2>1, <1>4, ShadowInvSame DEF RunStep, labVars, shadowVars
    <2>2. CASE Delete(a) BY <2>2, <1>4, DeleteKeepsShadow DEF RunStep
    <2> QED BY <1>4, <2>1, <2>2 DEF RunStep
  <1> QED BY <1>1, <1>2, <1>3, <1>4 DEF Next

\* No decision, however it interleaves with the archive's snapshot and DELETE,
\* loses the observation it stands on.
THEOREM EvidenceNeverLeaves == Spec => []EvidenceStaysHot
  <1>1. Init => ShadowInv BY ShadowInvInit DEF Init
  <1>2. ShadowInv => EvidenceStaysHot BY DEF ShadowInv, DecidedIsHot, EvidenceStaysHot
  <1> QED BY <1>1, <1>2, ArchiveKeepsShadow, PTL DEF Spec

-----------------------------------------------------------------------------
(* Steps of the labs.                                                      *)

\* The labs only add rows, and what they capture is in the table.
LEMMA LabsOnlyAdd ==
    ASSUME ShadowInv, ArchiveTypes, ShadowNext
    PROVE  /\ hot \subseteq hot' /\ Captured' \subseteq Captured \cup hot'
           /\ cold' \in Nat /\ cold' <= Len(log')
           /\ faults' \in Nat /\ faults' >= faults
  <1>0. /\ log \in Seq(Obs) /\ cold \in Nat /\ cold <= Len(log) /\ faults \in Nat
    BY DEF ShadowInv, ShadowTypes, ArchiveTypes
  <1>1. CASE UNCHANGED <<log, cold, hot>> /\ faults' \in {faults, faults + 1}
    BY <1>0, <1>1 DEF Captured
  <1>2. ASSUME NEW o \in Obs, Capture(o), UNCHANGED faults
        PROVE  /\ hot \subseteq hot' /\ Captured' \subseteq Captured \cup hot'
               /\ cold' \in Nat /\ cold' <= Len(log')
    <2>1. /\ log' = Append(log, o) /\ hot' = hot \cup {o} /\ cold' = cold BY <1>2 DEF Capture
    <2>2. Len(log') = Len(log) + 1 /\ Len(log) \in Nat BY <1>0, <2>1
    <2>3. \A i \in DOMAIN log' : (i \in DOMAIN log /\ log'[i] = log[i]) \/ log'[i] = o
      BY <1>0, <2>1
    <2>4. Captured' \subseteq Captured \cup {o} BY <2>3 DEF Captured, ToSet
    <2> QED BY <1>0, <2>1, <2>2, <2>4
  <1>3. CASE Age /\ UNCHANGED faults BY <1>0, <1>3 DEF Age, Captured
  <1>4. ASSUME NEW w \in Worker,
               \/ \E lab \in Lab : Evaluate(w, lab)
               \/ Decide(w) \/ Bet(w) \/ WorkerCrash(w)
        PROVE  UNCHANGED <<log, cold, hot>>
    BY <1>4 DEF Evaluate, Decide, Bet, WorkerCrash
  <1>5. CASE \E o \in Obs : Capture(o) /\ UNCHANGED faults BY <1>0, <1>2, <1>5
  <1> QED BY <1>0, <1>1, <1>3, <1>4, <1>5 DEF ShadowNext

LEMMA LabsKeepArchive ==
    ASSUME ArchiveInv, ShadowNext, UNCHANGED archiveVars
    PROVE  ArchiveInv'
  <1>1. ShadowInv' BY ShadowInvStep DEF ArchiveInv
  <1>2. /\ hot \subseteq hot' /\ Captured' \subseteq Captured \cup hot'
        /\ cold' \in Nat /\ cold' <= Len(log')
        /\ faults' \in Nat /\ faults' >= faults /\ faults \in Nat
        /\ UNCHANGED <<run, lock, store, catalog>>
    BY LabsOnlyAdd DEF ArchiveInv, ArchiveTypes, archiveVars
  <1>3. ArchiveTypes' BY <1>2 DEF ArchiveInv, ArchiveTypes
  <1>4. faults' = 0 => faults = 0 BY <1>2
  <1>5. LockHeld' /\ UploadsHot' BY <1>2, <1>4 DEF ArchiveInv, LockHeld, UploadsHot
  <1>6. Verified' BY <1>2 DEF ArchiveInv, Verified
  <1>7. NothingLost' BY <1>2 DEF ArchiveInv, NothingLost
  <1> QED BY <1>1, <1>3, <1>5, <1>6, <1>7 DEF ArchiveInv

-----------------------------------------------------------------------------
(* Steps of a run.                                                         *)

LEMMA RowFields ==
    ASSUME ArchiveTypes, NEW a \in Archiver
    PROVE  run[a].pc # "off" => run[a] \in RunRow
  BY DEF ArchiveTypes, RunRow, NoRun

\* A run starts when nobody has the lock.
LEMMA StartKeeps ==
    ASSUME ArchiveInv, NEW a \in Archiver, StartRun(a)
    PROVE  ArchiveInv'
  <1>0. ShadowTypes /\ ArchiveTypes BY DEF ArchiveInv, ShadowInv
  <1>1. /\ lock = None /\ lock' = a /\ run' = [run EXCEPT ![a] = NewRun(ColdObs)]
        /\ UNCHANGED <<log, cold, hot, picks, passes, bets, work, crashed, faults,
                       store, catalog>>
    BY DEF StartRun, Start, labVars
  <1>2. ShadowInv' BY <1>1, ShadowInvSame DEF ArchiveInv, shadowVars
  <1>3. ColdObs \subseteq Obs
    <2>1. \A i \in 1 .. cold : log[i] \in Obs BY <1>0 DEF ShadowTypes, ArchiveTypes
    <2> QED BY <2>1 DEF ColdObs
  <1>4. NewRun(ColdObs) \in RunRow /\ NewRun(ColdObs).pc = "select"
    BY <1>3 DEF NewRun, RunRow, Marker
  <1>5. ArchiveTypes' BY <1>0, <1>1, <1>4 DEF ArchiveTypes
  <1>6. /\ run'[a].pc = "select"
        /\ \A b \in Archiver : b # a => run'[b] = run[b]
    BY <1>0, <1>1, <1>4 DEF ArchiveTypes
  <1>7. LockHeld'
    BY <1>1, <1>6, ArchiveAssumption DEF ArchiveInv, LockHeld
  <1>8. UploadsHot' /\ Verified' BY <1>1, <1>6 DEF ArchiveInv, UploadsHot, Verified
  <1>9. NothingLost' BY <1>1 DEF ArchiveInv, NothingLost, Captured
  <1> QED BY <1>2, <1>5, <1>7, <1>8, <1>9 DEF ArchiveInv

\* A run that goes on: it has the lock as before, and the archive only grows.
LEMMA StepKeeps ==
    ASSUME ArchiveInv, NEW a \in Archiver, NEW next \in RunRow,
           run[a].pc # "off", run' = [run EXCEPT ![a] = next],
           UNCHANGED <<labVars, hot, faults, lock>>,
           store \subseteq store', catalog \subseteq catalog',
           next.pc = "put" => next.rows \subseteq hot,
           next.pc \in {"register", "scan", "delete"} => next.rows \in store',
           next.pc \in {"scan", "delete"} => next.rows \in catalog',
           next.pc = "delete" => next.doomed \subseteq next.rows
    PROVE  ArchiveInv'
  <1>0. ArchiveTypes BY DEF ArchiveInv
  <1>1. ShadowInv' BY ShadowInvSame DEF ArchiveInv, shadowVars, labVars
  <1>2. ArchiveTypes' BY <1>0 DEF ArchiveTypes, labVars
  <1>3. /\ run'[a] = next
        /\ \A b \in Archiver : b # a => run'[b] = run[b]
    BY <1>0 DEF ArchiveTypes
  <1>4. LockHeld' BY <1>3 DEF ArchiveInv, LockHeld
  <1>5. UploadsHot' BY <1>3 DEF ArchiveInv, UploadsHot
  <1>6. Verified' BY <1>3 DEF ArchiveInv, Verified
  <1>7. NothingLost' BY DEF ArchiveInv, NothingLost, Captured, labVars
  <1> QED BY <1>1, <1>2, <1>4, <1>5, <1>6, <1>7 DEF ArchiveInv

LEMMA DeleteKeeps ==
    ASSUME ArchiveInv, NEW a \in Archiver, Delete(a), UNCHANGED <<labVars, faults>>
    PROVE  ArchiveInv'
  <1>0. ArchiveTypes /\ run[a].pc = "delete" /\ run[a] \in RunRow
    BY RowFields DEF ArchiveInv, Delete
  <1>1. ShadowInv' BY DeleteKeepsShadow DEF ArchiveInv
  <1> DEFINE next == [run[a] EXCEPT !.pc =
                        IF ForeignKeysAllow(run[a].doomed) THEN "mark" ELSE "done"]
  <1>2. run' = [run EXCEPT ![a] = next] /\ UNCHANGED <<lock, store, catalog>>
    BY <1>0 DEF Delete, ArchiveTypes
  <1>3. next \in RunRow /\ next.pc \in {"mark", "done"} BY <1>0 DEF RunRow
  <1> HIDE DEF next
  <1>4. ArchiveTypes' BY <1>0, <1>2, <1>3 DEF ArchiveTypes, labVars
  <1>5. /\ run'[a] = next
        /\ \A b \in Archiver : b # a => run'[b] = run[b]
    BY <1>0, <1>2 DEF ArchiveTypes
  <1>6. LockHeld' BY <1>0, <1>2, <1>5 DEF ArchiveInv, LockHeld
  <1>7. UploadsHot'
    <2>1. ASSUME NEW b \in Archiver, faults = 0, run'[b].pc = "put" PROVE FALSE
      <3>1. b # a /\ run[b].pc = "put" BY <2>1, <1>3, <1>5
      <3>2. lock = a /\ lock = b BY <2>1, <3>1, <1>0 DEF ArchiveInv, LockHeld
      <3> QED BY <3>1, <3>2
    <2> QED BY <2>1 DEF UploadsHot
  <1>8. Verified' BY <1>2, <1>3, <1>5 DEF ArchiveInv, Verified
  <1>9. NothingLost'
    <2>1. hot \ run[a].doomed \subseteq hot' BY DEF Delete
    <2>2. run[a].doomed \subseteq run[a].rows /\ run[a].rows \in catalog \cap store
      BY <1>0 DEF ArchiveInv, Verified
    <2> QED BY <2>1, <2>2, <1>2 DEF ArchiveInv, NothingLost, Captured, labVars
  <1> QED BY <1>1, <1>4, <1>6, <1>7, <1>8, <1>9 DEF ArchiveInv

\* A run ends, or dies: the others are where they were.
LEMMA EndKeeps ==
    ASSUME ArchiveInv, NEW a \in Archiver, run' = [run EXCEPT ![a] = NoRun],
           lock' = (IF lock = a THEN None ELSE lock),
           UNCHANGED <<shadowVars, store, catalog>>, faults' \in {faults, faults + 1}
    PROVE  ArchiveInv'
  <1>0. ArchiveTypes BY DEF ArchiveInv
  <1>1. ShadowInv' BY ShadowInvSame DEF ArchiveInv
  <1>2. ArchiveTypes' BY <1>0 DEF ArchiveTypes, shadowVars
  <1>3. /\ run'[a].pc = "off" /\ \A b \in Archiver : b # a => run'[b] = run[b]
        /\ faults' = 0 => faults = 0
    BY <1>0 DEF ArchiveTypes, NoRun
  <1>4. LockHeld' BY <1>3 DEF ArchiveInv, LockHeld
  <1>5. UploadsHot' BY <1>3 DEF ArchiveInv, UploadsHot, shadowVars
  <1>6. Verified' BY <1>3 DEF ArchiveInv, Verified
  <1>7. NothingLost' BY DEF ArchiveInv, NothingLost, Captured, shadowVars
  <1> QED BY <1>1, <1>2, <1>4, <1>5, <1>6, <1>7 DEF ArchiveInv

LEMMA RunStepKeeps ==
    ASSUME ArchiveInv, NEW a \in Archiver, RunStep(a)
    PROVE  ArchiveInv'
  <1>0. /\ ShadowTypes /\ ArchiveTypes /\ UNCHANGED <<labVars, faults>>
        /\ run[a].pc # "off" => run[a] \in RunRow
    BY RowFields DEF ArchiveInv, ShadowInv, RunStep
  <1>1. CASE Select(a) /\ UNCHANGED hot
    <2> DEFINE rows == FirstRows(ArchiveCandidates(run[a]))
               next == [run[a] EXCEPT !.rows = rows, !.pc = IF rows = {} THEN "done" ELSE "put"]
    <2>1. rows \subseteq hot /\ rows \subseteq Obs
      BY <1>0 DEF FirstRows, ArchiveCandidates, Unreferenced, ShadowTypes
    <2>2. /\ run[a].pc = "select" /\ run' = [run EXCEPT ![a] = next]
          /\ UNCHANGED <<lock, store, catalog>>
      BY <1>0, <1>1 DEF Select, ArchiveTypes
    <2> HIDE DEF rows
    <2>3. next \in RunRow /\ next.rows = rows /\ next.pc \in {"done", "put"}
      BY <1>0, <2>1, <2>2 DEF RunRow
    <2> HIDE DEF next
    <2> QED BY <1>0, <1>1, <2>1, <2>2, <2>3, StepKeeps
  <1>2. CASE Put(a) /\ UNCHANGED hot
    <2> DEFINE next == [run[a] EXCEPT !.pc = "verify"]
    <2>1. /\ run[a].pc = "put" /\ run' = [run EXCEPT ![a] = next]
          /\ UNCHANGED <<lock, catalog>> /\ store \subseteq store'
      BY <1>0, <1>2 DEF Put, ArchiveTypes
    <2>2. next \in RunRow /\ next.pc = "verify" BY <1>0, <2>1 DEF RunRow
    <2> HIDE DEF next
    <2> QED BY <1>0, <1>2, <2>1, <2>2, StepKeeps
  <1>3. CASE Verify(a) /\ UNCHANGED hot
    <2> DEFINE next == [run[a] EXCEPT !.pc = IF ReadsBack(run[a].rows) THEN "register"
                                                                      ELSE "done"]
    <2>1. /\ run[a].pc = "verify" /\ run' = [run EXCEPT ![a] = next]
          /\ UNCHANGED <<lock, store, catalog>>
      BY <1>0, <1>3 DEF Verify, ArchiveTypes
    <2>2. /\ next \in RunRow /\ next.rows = run[a].rows /\ next.pc \in {"register", "done"}
          /\ next.pc = "register" => run[a].rows \in store
      BY <1>0, <2>1 DEF RunRow, ReadsBack
    <2> HIDE DEF next
    <2> QED BY <1>0, <1>3, <2>1, <2>2, StepKeeps
  <1>4. CASE Register(a) /\ UNCHANGED hot
    <2> DEFINE next == [run[a] EXCEPT !.pc = "scan"]
    <2>1. /\ run[a].pc = "register" /\ run' = [run EXCEPT ![a] = next]
          /\ UNCHANGED <<lock, store>> /\ catalog' = catalog \cup {run[a].rows}
          /\ run[a].rows \in store
      BY <1>0, <1>4 DEF Register, ArchiveTypes, ArchiveInv, Verified
    <2>2. next \in RunRow /\ next.rows = run[a].rows /\ next.pc = "scan"
      BY <1>0, <2>1 DEF RunRow
    <2> HIDE DEF next
    <2> QED BY <1>0, <1>4, <2>1, <2>2, StepKeeps
  <1>5. CASE Scan(a) /\ UNCHANGED hot
    <2> DEFINE doomed == Unreferenced(run[a].rows \cap hot)
               next == [run[a] EXCEPT !.doomed = doomed, !.pc = "delete"]
    <2>1. /\ run[a].pc = "scan" /\ run' = [run EXCEPT ![a] = next]
          /\ UNCHANGED <<lock, store, catalog>>
          /\ run[a].rows \in store /\ run[a].rows \in catalog
      BY <1>0, <1>5 DEF Scan, ArchiveTypes, ArchiveInv, Verified
    <2>2. doomed \subseteq run[a].rows BY DEF Unreferenced
    <2> HIDE DEF doomed
    <2>3. /\ next \in RunRow /\ next.rows = run[a].rows /\ next.doomed = doomed
          /\ next.pc = "delete"
      BY <1>0, <2>1, <2>2 DEF RunRow
    <2> HIDE DEF next
    <2> QED BY <1>0, <1>5, <2>1, <2>2, <2>3, StepKeeps
  <1>6. CASE Mark(a) /\ UNCHANGED hot
    <2> DEFINE last == Cardinality(run[a].rows) < BatchSize \/ run[a].batches + 1 = MaxBatches
               next == [NewRun(run[a].cutoff) EXCEPT !.pc = IF last THEN "done" ELSE "select",
                                                     !.after = Greatest(run[a].rows),
                                                     !.batches = run[a].batches + 1]
    <2>1. /\ run[a].pc = "mark" /\ run' = [run EXCEPT ![a] = next]
          /\ UNCHANGED <<lock, store, catalog>>
      BY <1>0, <1>6 DEF Mark, ArchiveTypes
    <2> HIDE DEF last
    <2>2. run[a].rows \in SUBSET Obs /\ run[a].batches \in Nat /\ run[a].cutoff \in SUBSET Obs
      BY <1>0, <2>1 DEF RunRow
    <2>3. next.pc \in {"done", "select"} BY DEF NewRun
    <2>4. /\ next = [NewRun(run[a].cutoff) EXCEPT !.pc = next.pc,
                                                  !.after = Greatest(run[a].rows),
                                                  !.batches = run[a].batches + 1]
          /\ NewRun(run[a].cutoff) =
                 [pc |-> "select", cutoff |-> run[a].cutoff, after |-> 0, batches |-> 0,
                  rows |-> {}, doomed |-> {}]
      BY <2>3 DEF NewRun
    <2>5. Greatest(run[a].rows) \in Marker /\ run[a].batches + 1 \in Nat /\ 0 \in Marker
      BY <2>2 DEF Marker
    <2>6. next \in RunRow
      <3> HIDE DEF next
      <3>1. NewRun(run[a].cutoff) \in RunRow BY <2>2, <2>5, <2>4 DEF RunRow
      <3>2. [NewRun(run[a].cutoff) EXCEPT !.pc = next.pc] \in RunRow
        BY <3>1, <2>3 DEF RunRow
      <3>3. [NewRun(run[a].cutoff) EXCEPT !.pc = next.pc, !.after = Greatest(run[a].rows)]
              \in RunRow
        BY <3>2, <2>5 DEF RunRow
      <3> QED BY <3>3, <2>4, <2>5 DEF RunRow
    <2> HIDE DEF next
    <2> QED BY <1>0, <1>6, <2>1, <2>3, <2>6, StepKeeps
  <1>7. CASE Finish(a) /\ UNCHANGED hot
    BY <1>0, <1>7, EndKeeps DEF Finish, labVars, shadowVars
  <1> QED BY <1>0, <1>1, <1>2, <1>3, <1>4, <1>5, <1>6, <1>7, DeleteKeeps DEF RunStep

-----------------------------------------------------------------------------
(* One fault.                                                              *)

LEMMA FaultKeeps ==
    ASSUME MaxFaults <= 1, ArchiveInv, NEW a \in Archiver, ArchiveFault(a)
    PROVE  ArchiveInv'
  <1>0. ArchiveTypes /\ UNCHANGED shadowVars BY DEF ArchiveInv, ArchiveFault
  <1>1. faults = 0 /\ faults' = 1
    BY <1>0, MaxFaultsAssumption DEF ArchiveTypes, ArchiveFault
  <1>2. CASE ArchiverCrash(a)
    <2>1. faults' \in {faults, faults + 1} BY <1>1
    <2>2. /\ run' = [run EXCEPT ![a] = NoRun] /\ lock' = (IF lock = a THEN None ELSE lock)
          /\ UNCHANGED <<shadowVars, store, catalog>>
      BY <1>0, <1>2 DEF ArchiverCrash
    <2> QED BY <2>1, <2>2, EndKeeps
  <1>3. CASE LoseLock(a)
    <2>1. UNCHANGED <<run, store, catalog>> BY <1>3 DEF LoseLock
    <2>2. ShadowInv' BY <1>0, ShadowInvSame DEF ArchiveInv
    <2>3. ArchiveTypes' BY <1>0, <1>1, <2>1 DEF ArchiveTypes, shadowVars
    <2>4. LockHeld' /\ UploadsHot' BY <1>1 DEF LockHeld, UploadsHot
    <2>5. Verified' BY <2>1 DEF ArchiveInv, Verified
    <2>6. NothingLost' BY <1>0, <2>1 DEF ArchiveInv, NothingLost, Captured, shadowVars
    <2> QED BY <2>2, <2>3, <2>4, <2>5, <2>6 DEF ArchiveInv
  <1>4. CASE PutDamaged(a)
    <2> DEFINE next == [run[a] EXCEPT !.pc = "verify"]
    <2>1. /\ run[a].pc = "put" /\ run' = [run EXCEPT ![a] = next]
          /\ store' = store \ {run[a].rows} /\ catalog' = catalog
      BY <1>0, <1>4 DEF PutDamaged, ArchiveTypes
    <2>2. next \in RunRow /\ next.pc = "verify" BY <1>0, <2>1, RowFields DEF RunRow
    <2> HIDE DEF next
    <2>3. /\ run'[a] = next
          /\ \A b \in Archiver : b # a => run'[b] = run[b] /\ run[b].pc = "off"
      BY <1>0, <1>1, <2>1 DEF ArchiveInv, ArchiveTypes, LockHeld
    <2>4. ShadowInv' BY <1>0, ShadowInvSame DEF ArchiveInv
    <2>5. ArchiveTypes' BY <1>0, <1>1, <2>1, <2>2 DEF ArchiveTypes, shadowVars
    <2>6. LockHeld' /\ UploadsHot' BY <1>1 DEF LockHeld, UploadsHot
    <2>7. Verified' BY <2>2, <2>3 DEF Verified
    <2>8. NothingLost'
      <3>1. run[a].rows \subseteq hot BY <1>1, <2>1 DEF ArchiveInv, UploadsHot
      <3> QED BY <3>1, <1>0, <2>1 DEF ArchiveInv, NothingLost, Captured, shadowVars
    <2> QED BY <2>4, <2>5, <2>6, <2>7, <2>8 DEF ArchiveInv
  <1> QED BY <1>2, <1>3, <1>4 DEF ArchiveFault

LEMMA ArchiveInvInit == Init => ArchiveInv
  <1> SUFFICES ASSUME Init PROVE ArchiveInv OBVIOUS
  <1>1. ShadowInv BY ShadowInvInit DEF Init
  <1>2. ArchiveTypes /\ LockHeld /\ UploadsHot /\ Verified
    BY DEF Init, ShadowInit, ArchiveTypes, LockHeld, UploadsHot, Verified, NoRun
  <1>3. NothingLost BY DEF Init, ShadowInit, NothingLost, Captured, ToSet
  <1> QED BY <1>1, <1>2, <1>3 DEF ArchiveInv

LEMMA ArchiveInvStep ==
    ASSUME MaxFaults <= 1, ArchiveInv, [Next]_vars
    PROVE  ArchiveInv'
  <1>1. CASE UNCHANGED vars
    <2>1. ShadowInv' BY <1>1, ShadowInvSame DEF vars, ArchiveInv
    <2>2. ArchiveTypes' /\ LockHeld' /\ UploadsHot' /\ Verified' /\ NothingLost'
      BY <1>1
      DEF vars, shadowVars, archiveVars, ArchiveInv, ArchiveTypes, LockHeld, UploadsHot,
          Verified, NothingLost, Captured
    <2> QED BY <2>1, <2>2 DEF ArchiveInv
  <1> QED BY <1>1, LabsKeepArchive, StartKeeps, RunStepKeeps, FaultKeeps DEF Next

\* With at most one fault (a damaged upload, a dead run or worker, a lost lock),
\* every captured observation stays in the table or in an object that is
\* registered and reads back as it was sent.
THEOREM NothingIsLost ==
    ASSUME MaxFaults <= 1
    PROVE  Spec => []NothingLost
  <1>1. ArchiveInv /\ [Next]_vars => ArchiveInv' BY ArchiveInvStep
  <1>2. ArchiveInv => NothingLost BY DEF ArchiveInv
  <1> QED BY <1>1, <1>2, ArchiveInvInit, PTL DEF Spec

=============================================================================
