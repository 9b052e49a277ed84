------------------------------ MODULE GuardCheck ------------------------------
(***************************************************************************)
(* The execution-time policy of the on-chain program, as operators: the     *)
(* protected ScaledUiAmount state of a Token-2022 mint (state.rs), the       *)
(* activation phase, the protection window and the check itself (guard.rs),  *)
(* and the client's offline mirror of that check (offline-check.ts).         *)
(*                                                                           *)
(* A stored multiplier is compared by its bytes only, so it is an            *)
(* uninterpreted value.  Timestamps are i64: the two ends of the range are   *)
(* constants, and window arithmetic that leaves the range fails closed.      *)
(***************************************************************************)
EXTENDS Integers

CONSTANTS
    Multipliers,  \* stored multipliers the program accepts (positive, normal)
    Timestamps,   \* the chain times and effective timestamps considered
    MinI64,       \* least i64
    MaxI64        \* greatest i64

ASSUME GuardConstants ==
    /\ MinI64 \in Int
    /\ MaxI64 \in Int
    /\ Timestamps \subseteq MinI64 .. MaxI64

Phases == {"Pending", "Activated"}

\* What the program protects: StoredMultiplier x StoredMultiplier x i64.
ProtectedState ==
    [multiplier : Multipliers, newMultiplier : Multipliers,
     effectiveTimestamp : Timestamps]

\* before_secs and after_secs are u32, so never negative.
ProtectionWindow == [beforeSecs : Nat, afterSecs : Nat]

\* The state part of an ABI v2 payload.
AssertSafeExecution ==
    [expected : ProtectedState, expectedPhase : Phases, window : ProtectionWindow]

HasScheduledChange(state) == state.multiplier # state.newMultiplier

PhaseAt(state, now) ==
    IF now >= state.effectiveTimestamp THEN "Activated" ELSE "Pending"

\* Token-2022's own rule for the multiplier in force at a time.
EffectiveMultiplier(state, now) ==
    IF now >= state.effectiveTimestamp THEN state.newMultiplier ELSE state.multiplier

WindowOverflows(window, activation) ==
    \/ activation - window.beforeSecs < MinI64
    \/ activation + window.afterSecs > MaxI64

\* Faulty variant: the far end of the window is taken to be outside it.
WindowContainsHalfOpen(window, activation, now) ==
    /\ activation - window.beforeSecs <= now
    /\ now < activation + window.afterSecs

\* Both ends are inside the window.
WindowContains(window, activation, now) ==
    /\ activation - window.beforeSecs <= now
    /\ now <= activation + window.afterSecs

\* Faulty variant: the window is trusted to notice a crossed activation.
CheckWithoutPhase(request, actual, now) ==
    CASE actual # request.expected -> "MultiplierChanged"
      [] actual = request.expected /\ ~HasScheduledChange(actual) -> "Ok"
      [] OTHER ->
           IF WindowOverflows(request.window, actual.effectiveTimestamp)
               THEN "ArithmeticOverflow"
           ELSE IF WindowContains(request.window, actual.effectiveTimestamp, now)
               THEN "InsideTransitionWindow"
           ELSE "Ok"

\* Faulty variant: the clock is checked when no change is scheduled, too.
CheckWithoutShortcut(request, actual, now) ==
    IF actual # request.expected
        THEN "MultiplierChanged"
    ELSE IF WindowOverflows(request.window, actual.effectiveTimestamp)
        THEN "ArithmeticOverflow"
    ELSE IF WindowContains(request.window, actual.effectiveTimestamp, now)
        THEN "InsideTransitionWindow"
    ELSE IF PhaseAt(actual, now) # request.expectedPhase
        THEN "ActivationPhaseChanged"
    ELSE "Ok"

\* guard.rs: the stored bytes first, then the clock.
Check(request, actual, now) ==
    IF actual.multiplier # request.expected.multiplier
        THEN "MultiplierChanged"
    ELSE IF actual.newMultiplier # request.expected.newMultiplier
        THEN "NewMultiplierChanged"
    ELSE IF actual.effectiveTimestamp # request.expected.effectiveTimestamp
        THEN "EffectiveTimestampChanged"
    ELSE IF ~HasScheduledChange(actual)
        THEN "Ok"
    ELSE IF WindowOverflows(request.window, actual.effectiveTimestamp)
        THEN "ArithmeticOverflow"
    ELSE IF WindowContains(request.window, actual.effectiveTimestamp, now)
        THEN "InsideTransitionWindow"
    ELSE IF PhaseAt(actual, now) # request.expectedPhase
        THEN "ActivationPhaseChanged"
    ELSE "Ok"

CheckErrors ==
    {"MultiplierChanged", "NewMultiplierChanged", "EffectiveTimestampChanged",
     "ArithmeticOverflow", "InsideTransitionWindow", "ActivationPhaseChanged"}

\* decode_protected_state and its TypeScript counterpart: every way in which an
\* account is not a readable protected mint.
DecodeErrors ==
    {"InvalidMintOwner", "InvalidMintData", "MissingScaledUiAmount",
     "InvalidExtensionCombination", "InvalidMultiplier"}

\* assert_safe_execution on a well-formed payload whose downstream action is the
\* committed one: decode the mint, then check it against the clock.
AssertSafeExecutionVerdict(req, account, now) ==
    IF account.decode # "Ok" THEN account.decode
    ELSE Check(req, account.state, now)

\* The client's mirror works on unbounded integers and compares the finished
\* bounds with the i64 range.
CheckGuardOffline(request, actual, now) ==
    LET expected == request.expected
        t        == actual.effectiveTimestamp
        start    == t - request.window.beforeSecs
        end      == t + request.window.afterSecs
    IN  CASE actual.multiplier # expected.multiplier -> "MultiplierChanged"
          [] OTHER ->
        CASE actual.newMultiplier # expected.newMultiplier -> "NewMultiplierChanged"
          [] OTHER ->
        CASE t # expected.effectiveTimestamp -> "EffectiveTimestampChanged"
          [] OTHER ->
        CASE ~HasScheduledChange(actual) -> "Ok"
          [] OTHER ->
        CASE start < MinI64 \/ end > MaxI64 -> "ArithmeticOverflow"
          [] OTHER ->
        CASE start <= now /\ now <= end -> "InsideTransitionWindow"
          [] OTHER ->
        CASE PhaseAt(actual, now) # request.expectedPhase -> "ActivationPhaseChanged"
          [] OTHER -> "Ok"

\* Faulty variant: the window's start is passed as an offset instead of a length.
ExpectationWithSignedOffset(state, now, window) ==
    [expected |-> state, expectedPhase |-> PhaseAt(state, now),
     window |-> [window EXCEPT !.beforeSecs = -window.beforeSecs]]

\* fetchGuardSnapshot and expectationFromSnapshot: state and phase come from one
\* read of the mint and the Clock.
ExpectationFromSnapshot(state, now, window) ==
    [expected |-> state, expectedPhase |-> PhaseAt(state, now), window |-> window]
===============================================================================
