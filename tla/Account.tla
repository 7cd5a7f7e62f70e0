------------------------------ MODULE Account ------------------------------
(***************************************************************************)
(* What the bankroll promises, without sessions, locks, requests or rows:  *)
(* one balance that pays a stake once per pick, only while it holds it,    *)
(* and that gets the pick's return back once. The ledger of Bankroll       *)
(* implements it (Bankroll!LedgerIsAnAccount). docs/DASHBOARD_SPEC.md asks *)
(* that the balance "be reproducible from the ledger"; the constraints of  *)
(* migrations 005 and 007 state pieces of the rest.                        *)
(***************************************************************************)
EXTENDS Integers

CONSTANTS
    Pick,       \* picks that may be staked
    Stake,      \* what a pick costs
    Initial,    \* what the account starts with
    Return      \* what the account receives for a pick of each outcome

VARIABLES
    opened,     \* the initial amount was paid in
    balance,    \* available money
    staked,     \* picks whose stake is out
    returned    \* outcome of each pick whose stake was released

account == <<opened, balance, staked, returned>>

AccountInit ==
    /\ opened = FALSE
    /\ balance = 0
    /\ staked = {}
    /\ returned = {}

PayIn ==
    /\ ~opened
    /\ opened' = TRUE
    /\ balance' = Initial
    /\ UNCHANGED <<staked, returned>>

Reserve(p) ==
    /\ opened /\ balance >= Stake
    /\ p \notin staked /\ \A r \in returned : r.pick # p
    /\ staked' = staked \cup {p}
    /\ balance' = balance - Stake
    /\ UNCHANGED <<opened, returned>>

Release(p, outcome) ==
    /\ p \in staked
    /\ staked' = staked \ {p}
    /\ returned' = returned \cup {[pick |-> p, outcome |-> outcome]}
    /\ balance' = balance + Return[outcome]
    /\ UNCHANGED opened

AccountNext ==
    \/ PayIn
    \/ \E p \in Pick : Reserve(p) \/ \E outcome \in DOMAIN Return : Release(p, outcome)

AccountSpec == AccountInit /\ [][AccountNext]_account
=============================================================================
