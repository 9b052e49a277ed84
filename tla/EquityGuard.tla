----------------------------- MODULE EquityGuard ------------------------------
(***************************************************************************)
(* What EquityGuard promises, in its smallest setting: a Token-2022 mint    *)
(* whose issuer may rewrite its scaled-amount state at any time, the chain  *)
(* clock, and transactions whose guard instruction was built from one       *)
(* snapshot of mint and clock and is checked again when the transaction     *)
(* lands.  Everything may happen between the two moments.                    *)
(*                                                                           *)
(* The program is atomic: a failed guard aborts its whole transaction, so a  *)
(* transaction is either executed or rejected in one step.                   *)
(***************************************************************************)
EXTENDS GuardCheck, Absent

CONSTANTS
    Txs,      \* transaction identifiers
    Windows   \* protection windows that clients configure

ASSUME EquityGuardConstants == Windows \subseteq ProtectionWindow

VARIABLES
    clock,         \* Clock::unix_timestamp of the current bank
    mint,          \* the mint account: its decoding and its protected state
    status,        \* where each transaction is
    request,       \* the guard payload of each signed transaction
    authorizedAt,  \* history: chain time of the snapshot it was built from
    verdict,       \* the program's answer when it landed
    landedAt,      \* history: chain time of that answer
    landedMint     \* history: the mint account of that answer

vars == <<clock, mint, status, request, authorizedAt, verdict, landedAt, landedMint>>

history == <<verdict, landedAt, landedMint>>

\* decode_protected_state: a readable protected mint, or why it is not one.
MintAccount ==
    [decode : {"Ok"}, state : ProtectedState] \cup [decode : DecodeErrors, state : {None}]

Statuses == {"idle", "signed", "executed", "rejected", "expired"}

Verdicts == {None, "Ok"} \cup DecodeErrors \cup CheckErrors

Init ==
    /\ clock \in Timestamps
    /\ mint \in [decode : {"Ok"}, state : ProtectedState]
    /\ status = [t \in Txs |-> "idle"]
    /\ request = [t \in Txs |-> None]
    /\ authorizedAt = [t \in Txs |-> None]
    /\ verdict = [t \in Txs |-> None]
    /\ landedAt = [t \in Txs |-> None]
    /\ landedMint = [t \in Txs |-> None]

\* The bank's clock never goes back.
ClockAdvances ==
    /\ \E now \in Timestamps : now > clock /\ clock' = now
    /\ UNCHANGED <<mint, status, request, authorizedAt, history>>

\* The issuer writes any state: an immediate update, a new schedule, a
\* cancelled one, or the state of some earlier moment.
IssuerUpdates ==
    /\ \E state \in ProtectedState : mint' = [decode |-> "Ok", state |-> state]
    /\ UNCHANGED <<clock, status, request, authorizedAt, history>>

\* The account stops being a readable protected mint.
MintUnreadable ==
    /\ \E error \in DecodeErrors : mint' = [decode |-> error, state |-> None]
    /\ UNCHANGED <<clock, status, request, authorizedAt, history>>

\* fetchGuardSnapshot, expectationFromSnapshot and the encoding of the payload.
\* The snapshot throws for a mint that does not decode.
Authorize(t, window) ==
    /\ status[t] = "idle"
    /\ mint.decode = "Ok"
    /\ status' = [status EXCEPT ![t] = "signed"]
    /\ request' = [request EXCEPT ![t] = ExpectationFromSnapshot(mint.state, clock, window)]
    /\ authorizedAt' = [authorizedAt EXCEPT ![t] = clock]
    /\ UNCHANGED <<clock, mint, history>>

\* The transaction reaches a block: the guard decides it.
Land(t) ==
    /\ status[t] = "signed"
    /\ LET answer == AssertSafeExecutionVerdict(request[t], mint, clock)
       IN  /\ verdict' = [verdict EXCEPT ![t] = answer]
           /\ status' = [status EXCEPT ![t] =
                           IF answer = "Ok" THEN "executed" ELSE "rejected"]
    /\ landedAt' = [landedAt EXCEPT ![t] = clock]
    /\ landedMint' = [landedMint EXCEPT ![t] = mint]
    /\ UNCHANGED <<clock, mint, request, authorizedAt>>

\* The blockhash of a transaction that was never included runs out.
Expire(t) ==
    /\ status[t] = "signed"
    /\ status' = [status EXCEPT ![t] = "expired"]
    /\ UNCHANGED <<clock, mint, request, authorizedAt, history>>

Next ==
    \/ ClockAdvances
    \/ IssuerUpdates
    \/ MintUnreadable
    \/ \E t \in Txs : \E window \in Windows : Authorize(t, window)
    \/ \E t \in Txs : Land(t)
    \/ \E t \in Txs : Expire(t)

Spec == Init /\ [][Next]_vars
-------------------------------------------------------------------------------
\* The type of every variable.
TypeOK ==
    /\ clock \in Timestamps
    /\ mint \in MintAccount
    /\ status \in [Txs -> Statuses]
    /\ request \in [Txs -> AssertSafeExecution \cup {None}]
    /\ authorizedAt \in [Txs -> Timestamps \cup {None}]
    /\ verdict \in [Txs -> Verdicts]
    /\ landedAt \in [Txs -> Timestamps \cup {None}]
    /\ landedMint \in [Txs -> MintAccount \cup {None}]

\* guard.rs check: whatever the issuer and the clock did since the snapshot, a
\* transaction executes only while the multiplier in force is the one that was
\* in force when it was authorized.
ExecutesAtAuthorizedMultiplier ==
    \A t \in Txs : status[t] = "executed" =>
        /\ landedMint[t].decode = "Ok"
        /\ EffectiveMultiplier(landedMint[t].state, landedAt[t])
             = EffectiveMultiplier(request[t].expected, authorizedAt[t])

\* ProtectionWindow::contains: no transaction executes within its own window of
\* a multiplier change that is scheduled at that moment, on either side of it.
ExecutesOutsideTransition ==
    \A t \in Txs : status[t] = "executed" =>
        LET state == landedMint[t].state
        IN  HasScheduledChange(state) =>
              \/ landedAt[t] < state.effectiveTimestamp - request[t].window.beforeSecs
              \/ landedAt[t] > state.effectiveTimestamp + request[t].window.afterSecs

\* guard.rs has_scheduled_change shortcut: the guard refuses a readable mint
\* only for a cause the trader would recognise: the stored state is not the one
\* that was seen, or a scheduled change is too near or has gone through.
RejectionsAreJustified ==
    \A t \in Txs : status[t] = "rejected" =>
        LET account == landedMint[t]
            now     == landedAt[t]
        IN  \/ account.decode # "Ok"
            \/ account.state # request[t].expected
            \/ /\ HasScheduledChange(account.state)
               /\ \/ WindowOverflows(request[t].window, account.state.effectiveTimestamp)
                  \/ WindowContains(request[t].window, account.state.effectiveTimestamp, now)
                  \/ EffectiveMultiplier(account.state, now)
                       # EffectiveMultiplier(request[t].expected, authorizedAt[t])
===============================================================================
