--------------------------- MODULE EquityGuardProofs ---------------------------
(***************************************************************************)
(* Proofs about EquityGuard, for every set of transactions,                  *)
(* multipliers, timestamps and windows, and, in the second part, about the   *)
(* files of the observation tools that record the guarded mints, for every    *)
(* number of tools, line, span and crash (CaptureTools).                      *)
(***************************************************************************)
EXTENDS EquityGuard, CaptureTools, SequenceTheorems, WellFoundedInduction, TLAPS

\* The client's offline check and the program's check are the same function: a
\* wallet that asks the mirror (offline-check.ts) gets the program's answer
\* (guard.rs), overflow at the ends of i64 included.
THEOREM OfflineMirrorsProgram ==
    ASSUME NEW req \in AssertSafeExecution, NEW actual \in ProtectedState,
           NEW at \in Timestamps
    PROVE  CheckGuardOffline(req, actual, at) = Check(req, actual, at)
  BY DEF CheckGuardOffline, Check, WindowOverflows, WindowContains

\* guard.rs: an accepted request is for the very state the mint holds.
LEMMA AcceptedStateIsExpected ==
    ASSUME NEW req \in AssertSafeExecution, NEW actual \in ProtectedState,
           NEW at \in Timestamps, Check(req, actual, at) = "Ok"
    PROVE  /\ actual = req.expected
           /\ HasScheduledChange(actual) =>
                /\ ~WindowContains(req.window, actual.effectiveTimestamp, at)
                /\ PhaseAt(actual, at) = req.expectedPhase
  <1>1. /\ actual.multiplier = req.expected.multiplier
        /\ actual.newMultiplier = req.expected.newMultiplier
        /\ actual.effectiveTimestamp = req.expected.effectiveTimestamp
    BY DEF Check
  <1>2. actual = req.expected
    BY <1>1 DEF AssertSafeExecution, ProtectedState
  <1> QED
    BY <1>2 DEF Check

\* state.rs phase_at against Token-2022's rule: the stored state and the phase
\* together determine the multiplier in force.
LEMMA PhaseDeterminesMultiplier ==
    ASSUME NEW state \in ProtectedState, NEW t1 \in Timestamps, NEW t2 \in Timestamps,
           HasScheduledChange(state) => PhaseAt(state, t1) = PhaseAt(state, t2)
    PROVE  EffectiveMultiplier(state, t1) = EffectiveMultiplier(state, t2)
  BY DEF HasScheduledChange, PhaseAt, EffectiveMultiplier

LEMMA TimestampsAreIntegers == Timestamps \subseteq Int
  BY GuardConstants

\* An error of the guard is none of the decoding errors.
LEMMA CheckType ==
    ASSUME NEW req, NEW actual, NEW at
    PROVE  Check(req, actual, at) \in {"Ok"} \cup CheckErrors
  BY DEF Check, CheckErrors

\* The payload built from a snapshot is encodable.
LEMMA ExpectationType ==
    ASSUME NEW state \in ProtectedState, NEW at, NEW window \in ProtectionWindow
    PROVE  ExpectationFromSnapshot(state, at, window) \in AssertSafeExecution
  BY DEF ExpectationFromSnapshot, AssertSafeExecution, PhaseAt, Phases
-------------------------------------------------------------------------------

\* Both the guard's errors and the decoding errors are verdicts.
LEMMA VerdictType ==
    ASSUME NEW req, NEW account \in MintAccount, NEW at
    PROVE  AssertSafeExecutionVerdict(req, account, at) \in Verdicts
  BY CheckType DEF AssertSafeExecutionVerdict, MintAccount, Verdicts

LEMMA ReadableMint ==
    ASSUME NEW account \in MintAccount, account.decode = "Ok"
    PROVE  account.state \in ProtectedState
  BY DEF MintAccount, DecodeErrors

\* What the guarantees rest on: the payload of a transaction states the phase
\* of its snapshot, and a verdict is the program's answer on the recorded mint
\* and time.
SignedFromSnapshot(t) ==
    status[t] # "idle" =>
      /\ request[t] \in AssertSafeExecution
      /\ authorizedAt[t] \in Timestamps
      /\ request[t].expectedPhase = PhaseAt(request[t].expected, authorizedAt[t])

DecidedByGuard(t) ==
    status[t] \in {"executed", "rejected"} =>
      /\ landedMint[t] \in MintAccount
      /\ landedAt[t] \in Timestamps
      /\ LET answer == AssertSafeExecutionVerdict(request[t], landedMint[t], landedAt[t])
         IN  status[t] = IF answer = "Ok" THEN "executed" ELSE "rejected"

IInv ==
    /\ TypeOK
    /\ \A t \in Txs : SignedFromSnapshot(t) /\ DecidedByGuard(t)

LEMMA InitIInv == Init => IInv
  BY DEF Init, IInv, TypeOK, MintAccount, Statuses, Verdicts, SignedFromSnapshot,
         DecidedByGuard

LEMMA NextTypeOK == TypeOK /\ [Next]_vars => TypeOK'
  <1> SUFFICES ASSUME TypeOK, [Next]_vars PROVE TypeOK'
    OBVIOUS
  <1> USE DEF TypeOK, history
  <1>1. CASE ClockAdvances
    BY <1>1 DEF ClockAdvances
  <1>2. CASE IssuerUpdates
    BY <1>2 DEF IssuerUpdates, MintAccount
  <1>3. CASE MintUnreadable
    BY <1>3 DEF MintUnreadable, MintAccount
  <1>4. ASSUME NEW t \in Txs, NEW window \in Windows, Authorize(t, window)
        PROVE  TypeOK'
    <2>1. ExpectationFromSnapshot(mint.state, clock, window) \in AssertSafeExecution
      BY <1>4, ExpectationType, ReadableMint, EquityGuardConstants DEF Authorize
    <2> QED
      BY <1>4, <2>1 DEF Authorize, Statuses
  <1>5. ASSUME NEW t \in Txs, Land(t)
        PROVE  TypeOK'
    <2>1. AssertSafeExecutionVerdict(request[t], mint, clock) \in Verdicts
      BY VerdictType
    <2> QED
      BY <1>5, <2>1 DEF Land, Statuses
  <1>6. ASSUME NEW t \in Txs, Expire(t)
        PROVE  TypeOK'
    BY <1>6 DEF Expire, Statuses
  <1>7. CASE UNCHANGED vars
    BY <1>7 DEF vars
  <1> QED
    BY <1>1, <1>2, <1>3, <1>4, <1>5, <1>6, <1>7 DEF Next

LEMMA NextIInv == IInv /\ [Next]_vars => IInv'
  <1> SUFFICES ASSUME IInv, [Next]_vars PROVE IInv'
    OBVIOUS
  <1>0. TypeOK /\ TypeOK'
    BY NextTypeOK DEF IInv
  <1> SUFFICES ASSUME NEW u \in Txs
               PROVE  SignedFromSnapshot(u)' /\ DecidedByGuard(u)'
    BY <1>0 DEF IInv
  <1>i. SignedFromSnapshot(u) /\ DecidedByGuard(u)
    BY DEF IInv
  <1>1. CASE UNCHANGED <<status, request, authorizedAt, history>>
    BY <1>1, <1>i DEF SignedFromSnapshot, DecidedByGuard, history
  <1>2. CASE ClockAdvances \/ IssuerUpdates \/ MintUnreadable \/ UNCHANGED vars
    BY <1>1, <1>2 DEF ClockAdvances, IssuerUpdates, MintUnreadable, vars, history
  <1>3. ASSUME NEW t \in Txs, NEW window \in Windows, Authorize(t, window)
        PROVE  SignedFromSnapshot(u)' /\ DecidedByGuard(u)'
    <2>1. CASE u = t
      <3>1. /\ status'[u] = "signed"
            /\ request'[u] = ExpectationFromSnapshot(mint.state, clock, window)
            /\ authorizedAt'[u] = clock
        BY <1>0, <1>3, <2>1 DEF Authorize, TypeOK
      <3>2. request'[u] \in AssertSafeExecution
        BY <1>0, <1>3, <3>1, ExpectationType, ReadableMint, EquityGuardConstants
           DEF Authorize, TypeOK
      <3> QED
        BY <1>0, <3>1, <3>2
           DEF SignedFromSnapshot, DecidedByGuard, ExpectationFromSnapshot, TypeOK
    <2>2. CASE u # t
      <3>1. /\ status'[u] = status[u] /\ request'[u] = request[u]
            /\ authorizedAt'[u] = authorizedAt[u]
            /\ landedAt'[u] = landedAt[u] /\ landedMint'[u] = landedMint[u]
        BY <1>0, <1>3, <2>2 DEF Authorize, TypeOK, history
      <3> QED
        BY <1>i, <3>1 DEF SignedFromSnapshot, DecidedByGuard
    <2> QED
      BY <2>1, <2>2
  <1>4. ASSUME NEW t \in Txs, Land(t)
        PROVE  SignedFromSnapshot(u)' /\ DecidedByGuard(u)'
    <2>1. request'[u] = request[u] /\ authorizedAt'[u] = authorizedAt[u]
      BY <1>4 DEF Land
    <2>2. CASE u = t
      <3>1. /\ status[u] = "signed"
            /\ landedAt'[u] = clock
            /\ landedMint'[u] = mint
            /\ status'[u] = IF AssertSafeExecutionVerdict(request[u], mint, clock) = "Ok"
                            THEN "executed" ELSE "rejected"
        BY <1>0, <1>4, <2>2 DEF Land, TypeOK
      <3> QED
        BY <1>0, <1>i, <2>1, <3>1 DEF SignedFromSnapshot, DecidedByGuard, TypeOK
    <2>3. CASE u # t
      <3>1. /\ status'[u] = status[u]
            /\ landedAt'[u] = landedAt[u] /\ landedMint'[u] = landedMint[u]
        BY <1>0, <1>4, <2>3 DEF Land, TypeOK
      <3> QED
        BY <1>i, <2>1, <3>1 DEF SignedFromSnapshot, DecidedByGuard
    <2> QED
      BY <2>2, <2>3
  <1>5. ASSUME NEW t \in Txs, Expire(t)
        PROVE  SignedFromSnapshot(u)' /\ DecidedByGuard(u)'
    <2>1. /\ request'[u] = request[u] /\ authorizedAt'[u] = authorizedAt[u]
          /\ landedAt'[u] = landedAt[u] /\ landedMint'[u] = landedMint[u]
      BY <1>5 DEF Expire, history
    <2>2. status'[u] = status[u] \/ (status[u] = "signed" /\ status'[u] = "expired")
      BY <1>0, <1>5 DEF Expire, TypeOK
    <2> QED
      BY <1>i, <2>1, <2>2 DEF SignedFromSnapshot, DecidedByGuard
  <1> QED
    BY <1>2, <1>3, <1>4, <1>5 DEF Next

LEMMA IInvHolds == Spec => []IInv
  BY InitIInv, NextIInv, PTL DEF Spec

\* Every variable of the guarded lifecycle keeps its type: the payload built from
\* a snapshot is always encodable, the program's answer is a declared error.
THEOREM TypeCorrect == Spec => []TypeOK
  <1>1. IInv => TypeOK
    BY DEF IInv
  <1> QED
    BY <1>1, IInvHolds, PTL
-------------------------------------------------------------------------------
\* What an executed transaction says about the mint it landed on.
LEMMA ExecutedFacts ==
    ASSUME IInv, NEW t \in Txs, status[t] = "executed"
    PROVE  /\ request[t] \in AssertSafeExecution
           /\ authorizedAt[t] \in Timestamps
           /\ landedAt[t] \in Timestamps
           /\ landedMint[t].decode = "Ok"
           /\ landedMint[t].state \in ProtectedState
           /\ Check(request[t], landedMint[t].state, landedAt[t]) = "Ok"
           /\ request[t].expectedPhase = PhaseAt(request[t].expected, authorizedAt[t])
  <1>1. SignedFromSnapshot(t) /\ DecidedByGuard(t)
    BY DEF IInv
  <1>2. AssertSafeExecutionVerdict(request[t], landedMint[t], landedAt[t]) = "Ok"
    BY <1>1 DEF DecidedByGuard
  <1>3. landedMint[t] \in MintAccount
    BY <1>1 DEF DecidedByGuard
  <1>4. landedMint[t].decode = "Ok"
    BY <1>2, <1>3 DEF AssertSafeExecutionVerdict, MintAccount, DecodeErrors
  <1> QED
    BY <1>1, <1>2, <1>3, <1>4, ReadableMint
       DEF SignedFromSnapshot, DecidedByGuard, AssertSafeExecutionVerdict

\* The main guarantee of guard.rs, for every instance: a transaction never
\* executes at a multiplier other than the one in force when it was authorized.
THEOREM AuthorizedMultiplier == Spec => []ExecutesAtAuthorizedMultiplier
  <1>1. IInv => ExecutesAtAuthorizedMultiplier
    <2> SUFFICES ASSUME IInv, NEW t \in Txs, status[t] = "executed"
                 PROVE  /\ landedMint[t].decode = "Ok"
                        /\ EffectiveMultiplier(landedMint[t].state, landedAt[t])
                             = EffectiveMultiplier(request[t].expected, authorizedAt[t])
      BY DEF ExecutesAtAuthorizedMultiplier
    <2>1. /\ landedMint[t].state = request[t].expected
          /\ HasScheduledChange(landedMint[t].state) =>
               PhaseAt(landedMint[t].state, landedAt[t]) = request[t].expectedPhase
      BY ExecutedFacts, AcceptedStateIsExpected
    <2> QED
      BY <2>1, ExecutedFacts, PhaseDeterminesMultiplier
  <1> QED
    BY <1>1, IInvHolds, PTL

\* ProtectionWindow::contains, for every instance: no transaction executes inside
\* its window around a scheduled change.
THEOREM OutsideTransition == Spec => []ExecutesOutsideTransition
  <1>1. IInv => ExecutesOutsideTransition
    <2> SUFFICES ASSUME IInv, NEW t \in Txs, status[t] = "executed",
                        HasScheduledChange(landedMint[t].state)
                 PROVE  \/ landedAt[t] < landedMint[t].state.effectiveTimestamp
                                           - request[t].window.beforeSecs
                        \/ landedAt[t] > landedMint[t].state.effectiveTimestamp
                                           + request[t].window.afterSecs
      BY DEF ExecutesOutsideTransition
    <2>1. ~WindowContains(request[t].window, landedMint[t].state.effectiveTimestamp,
                          landedAt[t])
      BY ExecutedFacts, AcceptedStateIsExpected
    <2>2. /\ request[t].window \in ProtectionWindow
          /\ landedMint[t].state.effectiveTimestamp \in Timestamps
          /\ landedAt[t] \in Timestamps
      BY ExecutedFacts DEF ProtectedState, AssertSafeExecution
    <2>3. /\ request[t].window.beforeSecs \in Int
          /\ request[t].window.afterSecs \in Int
      BY <2>2 DEF ProtectionWindow
    <2>4. landedAt[t] \in Int /\ landedMint[t].state.effectiveTimestamp \in Int
      BY <2>2, TimestampsAreIntegers
    <2>5. \A a, b, at, T \in Int : ~(T - b <= at /\ at <= T + a) => at < T - b \/ at > T + a
      OBVIOUS
    <2> QED
      BY <2>1, <2>3, <2>4, <2>5 DEF WindowContains
  <1> QED
    BY <1>1, IInvHolds, PTL

\* The guard is no stricter than it needs to be, for every instance: a readable
\* mint is refused only for a changed state or for a scheduled change.
THEOREM JustifiedRejections == Spec => []RejectionsAreJustified
  <1>1. IInv => RejectionsAreJustified
    <2> SUFFICES ASSUME IInv, NEW t \in Txs, status[t] = "rejected",
                        landedMint[t].decode = "Ok",
                        landedMint[t].state = request[t].expected
                 PROVE  /\ HasScheduledChange(landedMint[t].state)
                        /\ \/ WindowOverflows(request[t].window,
                                              landedMint[t].state.effectiveTimestamp)
                           \/ WindowContains(request[t].window,
                                             landedMint[t].state.effectiveTimestamp,
                                             landedAt[t])
                           \/ EffectiveMultiplier(landedMint[t].state, landedAt[t])
                                # EffectiveMultiplier(request[t].expected, authorizedAt[t])
      BY DEF RejectionsAreJustified
    <2>1. SignedFromSnapshot(t) /\ DecidedByGuard(t)
      BY DEF IInv
    <2>2. /\ landedAt[t] \in Timestamps
          /\ authorizedAt[t] \in Timestamps
          /\ request[t].expectedPhase = PhaseAt(request[t].expected, authorizedAt[t])
          /\ Check(request[t], landedMint[t].state, landedAt[t]) # "Ok"
      BY <2>1 DEF SignedFromSnapshot, DecidedByGuard, AssertSafeExecutionVerdict
    <2>3. landedMint[t].state \in ProtectedState
      BY <2>1, ReadableMint DEF DecidedByGuard
    <2> QED
      BY <2>2, <2>3
         DEF Check, HasScheduledChange, PhaseAt, EffectiveMultiplier
  <1> QED
    BY <1>1, IInvHolds, PTL
-------------------------------------------------------------------------------
\* The observation tools.  Sequences whatever their elements are, and one being a
\* beginning of another.
IsSequence(s) == s \in Seq({s[i] : i \in DOMAIN s})

Beginning(s, t) ==
    /\ IsSequence(s) /\ IsSequence(t)
    /\ Len(s) <= Len(t)
    /\ \A i \in 1 .. Len(s) : s[i] = t[i]

LEMMA SequenceFacts ==
    ASSUME NEW s, IsSequence(s)
    PROVE  /\ Len(s) \in Nat
           /\ DOMAIN s = 1 .. Len(s)
           /\ s = [i \in 1 .. Len(s) |-> s[i]]
  <1>1. s \in Seq({s[i] : i \in DOMAIN s})
    BY DEF IsSequence
  <1>2. Len(s) \in Nat /\ s \in [1 .. Len(s) -> {s[i] : i \in DOMAIN s}] /\ DOMAIN s = 1 .. Len(s)
    BY <1>1, LenProperties
  <1> QED
    BY <1>2

LEMMA SequenceOver ==
    ASSUME NEW S, NEW s \in Seq(S)
    PROVE  IsSequence(s)
  <1> DEFINE R == {s[i] : i \in DOMAIN s}
  <1>1. Len(s) \in Nat /\ s \in [1 .. Len(s) -> S] /\ DOMAIN s = 1 .. Len(s)
    BY LenProperties
  <1>2. s \in [1 .. Len(s) -> R]
    BY <1>1
  <1>3. s \in Seq(R)
    BY <1>1, <1>2, SeqDef
  <1> QED
    BY <1>3 DEF IsSequence

LEMMA AppendSequence ==
    ASSUME NEW s, IsSequence(s), NEW x
    PROVE  /\ IsSequence(Append(s, x))
           /\ Len(Append(s, x)) = Len(s) + 1
           /\ DOMAIN Append(s, x) = 1 .. Len(s) + 1
           /\ \A i \in 1 .. Len(s) : Append(s, x)[i] = s[i]
           /\ Append(s, x)[Len(s) + 1] = x
  <1> DEFINE A == {s[i] : i \in DOMAIN s}
             B == A \cup {x}
  <1>1. s \in Seq(A)
    BY DEF IsSequence
  <1> HIDE DEF A
  <1>2. s \in Seq(B) /\ x \in B
    BY <1>1, SeqMonotonic
  <1> HIDE DEF B
  <1>3. /\ Append(s, x) \in Seq(B)
        /\ Len(Append(s, x)) = Len(s) + 1
        /\ \A i \in 1 .. Len(s) : Append(s, x)[i] = s[i]
        /\ Append(s, x)[Len(s) + 1] = x
    BY <1>2, AppendProperties
  <1>4. IsSequence(Append(s, x))
    BY <1>3, SequenceOver
  <1> QED
    BY <1>3, <1>4, SequenceFacts

LEMMA EmptySequence == IsSequence(<<>>) /\ Len(<<>>) = 0
  BY EmptySeq DEF IsSequence

LEMMA Itself ==
    ASSUME NEW s, IsSequence(s)
    PROVE  Beginning(s, s)
  BY SequenceFacts DEF Beginning

LEMMA BeginningAppends ==
    ASSUME NEW s, IsSequence(s), NEW x
    PROVE  Beginning(s, Append(s, x))
  BY AppendSequence, SequenceFacts DEF Beginning

LEMMA BeginningOfBeginning ==
    ASSUME NEW r, NEW s, NEW t, Beginning(r, s), Beginning(s, t)
    PROVE  Beginning(r, t)
  <1>1. Len(r) \in Nat /\ Len(s) \in Nat /\ Len(t) \in Nat
    BY SequenceFacts DEF Beginning
  <1>2. Len(r) <= Len(t) /\ \A i \in 1 .. Len(r) : i \in 1 .. Len(s)
    BY <1>1 DEF Beginning
  <1> QED
    BY <1>2 DEF Beginning

Cut(s, k) == SubSeq(s, 1, k)

LEMMA CutSequence ==
    ASSUME NEW s, IsSequence(s), NEW k \in 0 .. Len(s)
    PROVE  /\ IsSequence(Cut(s, k))
           /\ Len(Cut(s, k)) = k
           /\ \A i \in 1 .. k : Cut(s, k)[i] = s[i]
  <1> DEFINE S == {s[i] : i \in DOMAIN s}
             c == Cut(s, k)
  <1>0. Len(s) \in Nat /\ k \in Nat /\ k <= Len(s) /\ DOMAIN s = 1 .. Len(s)
    BY SequenceFacts
  <1>1. \A i \in 1 .. k : s[i] \in S
    BY <1>0
  <1>2. /\ c \in Seq(S)
        /\ Len(c) = IF 1 <= k THEN k - 1 + 1 ELSE 0
        /\ \A i \in 1 .. k - 1 + 1 : c[i] = s[1 + i - 1]
    BY <1>0, <1>1, SubSeqProperties DEF Cut
  <1>3. Len(c) = k /\ k - 1 + 1 = k
    BY <1>0, <1>2
  <1>4. \A i \in 1 .. k : c[i] = s[i]
    <2> TAKE i \in 1 .. k
    <2>1. c[i] = s[1 + i - 1] /\ 1 + i - 1 = i
      BY <1>0, <1>2, <1>3
    <2> QED
      BY <2>1
  <1> QED
    BY <1>2, <1>3, <1>4, SequenceOver

LEMMA CutIsBeginning ==
    ASSUME NEW s, IsSequence(s), NEW k \in 0 .. Len(s)
    PROVE  Beginning(Cut(s, k), s)
  BY CutSequence, SequenceFacts DEF Beginning

\* What the property calls a prefix.
LEMMA BeginningIsPrefix ==
    ASSUME NEW s, NEW t, Beginning(s, t)
    PROVE  IsPrefix(s, t)
  <1> DEFINE a == Cut(s, Len(s))
             b == Cut(t, Len(s))
  <1>1. IsSequence(s) /\ IsSequence(t) /\ Len(s) \in 0 .. Len(s) /\ Len(s) \in 0 .. Len(t)
    BY SequenceFacts DEF Beginning
  <1>2. /\ IsSequence(a) /\ Len(a) = Len(s) /\ \A i \in 1 .. Len(s) : a[i] = s[i]
        /\ IsSequence(b) /\ Len(b) = Len(s) /\ \A i \in 1 .. Len(s) : b[i] = t[i]
    BY <1>1, CutSequence
  <1> HIDE DEF a, b
  <1>3. \A i \in 1 .. Len(s) : a[i] = b[i]
    BY <1>2 DEF Beginning
  <1>4. a = b
    BY <1>2, <1>3, SequenceFacts
  <1> QED
    BY <1>4 DEF IsPrefix, Beginning, Cut, a, b
\* A nonempty set of positions has a first.
LEMMA FirstPosition ==
    ASSUME NEW S \in SUBSET Nat, S # {}
    PROVE  \E i \in S : \A j \in S : i <= j
  <1> DEFINE R == {x \in Nat \X Nat : x[1] < x[2]}
  <1>1. IsWellFoundedOn(R, Nat)
    BY NatLessThanWellFounded, Zenon DEF OpToRel
  <1>2. \A x : x \in R <=> x \in Nat \X Nat /\ x[1] < x[2]
    OBVIOUS
  <1> HIDE DEF R
  <1>3. PICK i \in S : \A j \in S : <<j, i>> \notin R
    BY <1>1, WFMin
  <1>4. \A j \in S : j \in Nat /\ i \in Nat /\ ~(j < i)
    BY <1>2, <1>3
  <1>5. \A j \in S : i <= j
    BY <1>4
  <1> QED
    BY <1>5

\* What holds at 0 and is passed on holds up to n.
LEMMA UpTo ==
    ASSUME NEW n \in Nat, NEW H, 0 \in H,
           \A k \in 1 .. n : k - 1 \in H => k \in H
    PROVE  \A k \in 0 .. n : k \in H
  <1> DEFINE Bad == {k \in 0 .. n : k \notin H}
  <1> SUFFICES ASSUME Bad # {} PROVE FALSE
    OBVIOUS
  <1>1. Bad \in SUBSET Nat
    OBVIOUS
  <1>2. PICK k \in Bad : \A j \in Bad : k <= j
    BY <1>1, FirstPosition
  <1>3. k \in 1 .. n /\ k - 1 \in 0 .. n
    BY <1>2
  <1>4. k - 1 \notin Bad
    BY <1>2, <1>3
  <1>5. k - 1 \in H
    BY <1>3, <1>4
  <1> QED
    BY <1>2, <1>3, <1>5

\* extract-window.ts: the loop keeps exactly the lines that lie in the window.
LEMMA LoopKeepsWindow ==
    ASSUME NEW lines, IsSequence(lines), NEW span
    PROVE  /\ IsSequence(WindowLines(lines, span))
           /\ ToSet(WindowLines(lines, span)) = {l \in ToSet(lines) : InWindow(l, span)}
  <1> DEFINE N == Len(lines)
             Step(f, n) == IF n = 0 THEN <<>>
                           ELSE IF InWindow(lines[n], span) THEN Append(f[n - 1], lines[n])
                           ELSE f[n - 1]
             Loop(f) == f = [n \in 0 .. N |-> Step(f, n)]
             selected == CHOOSE f : Loop(f)
             Begun(k) == \E f : f = [n \in 0 .. k |-> Step(f, n)]
             H == {k \in 0 .. N : Begun(k)}
  <1>0. N \in Nat /\ DOMAIN lines = 1 .. N
    BY SequenceFacts
  <1>1. WindowLines(lines, span) = selected[N]
    BY DEF WindowLines
  <1>2. 0 \in H
    <2> DEFINE f == [n \in 0 .. 0 |-> <<>>]
    <2>1. f = [n \in 0 .. 0 |-> Step(f, n)]
      OBVIOUS
    <2> HIDE DEF f
    <2>2. Begun(0)
      BY <2>1
    <2> QED
      BY <1>0, <2>2
  <1>3. ASSUME NEW k \in 1 .. N, k - 1 \in H PROVE k \in H
    <2>1. PICK f : f = [n \in 0 .. k - 1 |-> Step(f, n)]
      BY <1>3
    <2> DEFINE g == [n \in 0 .. k |-> IF n = k THEN Step(f, k) ELSE f[n]]
    <2>2. \A n \in 0 .. k : n # 0 => n - 1 \in 0 .. k - 1
      BY <1>0
    <2>3. \A n \in 0 .. k - 1 : g[n] = f[n]
      BY <1>0
    <2>4. \A n \in 0 .. k : Step(g, n) = Step(f, n)
      BY <2>2, <2>3
    <2>5. \A n \in 0 .. k - 1 : f[n] = Step(f, n)
      BY <2>1
    <2>6. \A n \in 0 .. k : g[n] = Step(f, n)
      BY <1>0, <2>5
    <2>7. g = [n \in 0 .. k |-> Step(g, n)]
      BY <2>4, <2>6
    <2>8. Begun(k)
      BY <2>7
    <2> QED
      BY <2>8
  <1>4. N \in H
    <2>1. \A k \in 1 .. N : k - 1 \in H => k \in H
      BY <1>3
    <2> HIDE DEF H
    <2>2. \A k \in 0 .. N : k \in H
      BY <1>0, <1>2, <2>1, UpTo
    <2> QED
      BY <1>0, <2>2
  <1>5. \E f : Loop(f)
    BY <1>4
  <1>6. Loop(selected)
    BY <1>5
  <1> HIDE DEF selected
  <1>7. \A n \in 0 .. N : selected[n] = Step(selected, n)
    BY <1>6
  <1> DEFINE Kept(n) == {l \in {lines[i] : i \in 1 .. n} : InWindow(l, span)}
             Good == {n \in 0 .. N : /\ IsSequence(selected[n])
                                     /\ ToSet(selected[n]) = Kept(n)}
  <1>8. 0 \in Good
    <2>1. selected[0] = <<>>
      BY <1>0, <1>7
    <2>2. ToSet(<<>>) = {} /\ Kept(0) = {}
      BY DEF ToSet
    <2> QED
      BY <1>0, <2>1, <2>2, EmptySequence
  <1>9. ASSUME NEW n \in 1 .. N, n - 1 \in Good PROVE n \in Good
    <2> DEFINE s == selected[n - 1]  x == lines[n]
    <2>1. IsSequence(s) /\ ToSet(s) = Kept(n - 1) /\ n \in 0 .. N
      BY <1>0, <1>9
    <2>2. selected[n] = IF InWindow(x, span) THEN Append(s, x) ELSE s
      BY <1>0, <1>7
    <2>3. {lines[i] : i \in 1 .. n} = {lines[i] : i \in 1 .. n - 1} \cup {x}
      BY <1>0
    <2>4. Kept(n) = IF InWindow(x, span) THEN Kept(n - 1) \cup {x} ELSE Kept(n - 1)
      BY <2>3
    <2>5. IsSequence(Append(s, x)) /\ ToSet(Append(s, x)) = ToSet(s) \cup {x}
      <3> HIDE DEF s, x
      <3>1. /\ IsSequence(Append(s, x))
            /\ DOMAIN Append(s, x) = 1 .. Len(s) + 1
            /\ \A i \in 1 .. Len(s) : Append(s, x)[i] = s[i]
            /\ Append(s, x)[Len(s) + 1] = x
        BY <2>1, AppendSequence
      <3>2. DOMAIN s = 1 .. Len(s) /\ Len(s) \in Nat
        BY <2>1, SequenceFacts
      <3> DEFINE a == Append(s, x)
      <3> HIDE DEF a
      <3>3. {a[i] : i \in DOMAIN a} = {s[i] : i \in DOMAIN s} \cup {x}
        <4>1. \A i \in 1 .. Len(s) + 1 : i \in 1 .. Len(s) \/ i = Len(s) + 1
          BY <3>2
        <4>2. \A i \in 1 .. Len(s) : i \in 1 .. Len(s) + 1
          BY <3>2
        <4>3. Len(s) + 1 \in 1 .. Len(s) + 1
          BY <3>2
        <4> QED
          BY <3>1, <3>2, <4>1, <4>2, <4>3 DEF a
      <3> QED
        BY <3>1, <3>3 DEF ToSet, a
    <2> HIDE DEF s, x, Kept
    <2>6. CASE InWindow(x, span)
      BY <2>1, <2>2, <2>4, <2>5, <2>6
    <2>7. CASE ~InWindow(x, span)
      BY <2>1, <2>2, <2>4, <2>7
    <2> QED
      BY <2>6, <2>7
  <1>10. N \in Good
    <2>1. \A k \in 1 .. N : k - 1 \in Good => k \in Good
      BY <1>9
    <2> HIDE DEF Good
    <2>2. \A k \in 0 .. N : k \in Good
      BY <1>0, <1>8, <2>1, UpTo
    <2> QED
      BY <1>0, <2>2
  <1>11. IsSequence(selected[N]) /\ ToSet(selected[N]) = Kept(N)
    BY <1>10
  <1>12. ToSet(lines) = {lines[i] : i \in 1 .. N}
    BY <1>0 DEF ToSet
  <1> QED
    BY <1>1, <1>11, <1>12
-------------------------------------------------------------------------------
\* What the files and the tools keep to.  The predicates take the files, manifests
\* and reports as parameters, so that they can be compared before and after a step.

Sources == {Capture, ApiCapture}

Timed(line) == line.kind # "junk" => line.wallclock \in Int \cup {Null}

\* Every chain file but a window is a beginning of the capture.
FilesOK(fs) ==
    /\ {Live, Capture, ApiCapture} \subseteq DOMAIN fs
    /\ fs[Capture] = fs[Live]
    /\ IsSequence(fs[Capture].lines) /\ IsSequence(fs[ApiCapture].lines)
    /\ \A i \in DOMAIN fs[Capture].lines : Timed(fs[Capture].lines[i])
    /\ \A p \in DOMAIN fs : p.of = "chain" /\ p # Window =>
          Beginning(fs[p].lines, fs[Capture].lines)

\* A manifest is true of what it was made of, wherever its file is by now.
ManifestOK(m, fs) ==
    /\ m.kind \in {"snapshot", "window"}
    /\ m.kind = "snapshot" =>
         m.source \in Sources /\ Beginning(m.sha256, fs[m.source].lines)
    /\ m.kind = "window" =>
         /\ m.span \in Int \X Int
         /\ Beginning(m.sourceLines, fs[Capture].lines)
         /\ IsSequence(m.sha256)
         /\ ToSet(m.sha256) = {l \in ToSet(m.sourceLines) : InWindow(l, m.span)}

ManifestsOK(ms, fs) == \A p \in DOMAIN ms : ManifestOK(ms[p], fs)

\* A tool that is writing its copy.
CopyOK(me, fs) ==
    /\ me = [pc |-> me.pc, path |-> me.path, bytes |-> me.bytes, manifest |-> me.manifest]
    /\ me.bytes = me.manifest.sha256
    /\ ManifestOK(me.manifest, fs)
    /\ me.manifest.kind = "snapshot" =>
         me.path.name = "snapshot" /\ me.path.of = me.manifest.source.of
    /\ me.manifest.kind = "window" => me.path = Window

\* A file that stays as it is.
Final(p, fs, rs) ==
    p \in DOMAIN fs /\ (p = Window \/ \E r \in rs : r.what = "snapshot" /\ r.path = p)

ToolOK(me, fs, ms, rs) ==
    /\ me.pc = "snapshotRead" => me.source \in Sources
    /\ me.pc = "snapshotName" => ManifestOK(me.manifest, fs) /\ me.manifest.kind = "snapshot"
    /\ me.pc \in {"copy", "sidecar", "verify", "withdraw"} => CopyOK(me, fs)
    /\ me.pc \in {"sidecar", "verify"} => me.path \in DOMAIN fs
    /\ me.pc \in {"verify", "withdraw"} =>
         me.path \in DOMAIN ms /\ me.manifest.kind = "snapshot"
    /\ me.pc = "windowRead" =>
         me.source # Window /\ me.source.of = "chain" /\ me.span \in Spans
    /\ me.pc \in {"analyseRead", "analyseHash"} /\ me.final => Final(me.source, fs, rs)
    /\ me.pc = "analyseHash" /\ me.final => me.bytes = fs[me.source].lines

\* No two tools own the same file, and no two the same manifest.
Apart(me, you) ==
    /\ {me.pc, you.pc} \subseteq {"sidecar", "verify"} => me.path # you.path
    /\ {me.pc, you.pc} \subseteq {"verify", "withdraw"} => me.path # you.path

\* A reported snapshot is there, and no tool owns it any more.
ReportOK(r, fs, ts) ==
    /\ r.what = "snapshot" =>
         /\ r.lines = r.source
         /\ r.path \in DOMAIN fs
         /\ r.path.name = "snapshot"
         /\ \A t \in Tools : ts[t].pc \in {"sidecar", "verify"} => ts[t].path # r.path
    /\ r.what = "analysis" /\ r.final => r.lines = r.sha256

Amounts ==
    [steps : SUBSET Nat, polls : Nat, apiPolls : Nat, mintUpdates : Nat, apiUpdates : Nat,
     faults : Nat, tools : Nat, crashes : Nat, quiet : Nat]

WorldOK ==
    /\ now \in Int
    /\ budget \in Amounts
    /\ tools = [t \in Tools |-> tools[t]]

CaptureInv ==
    /\ WorldOK
    /\ FilesOK(files)
    /\ ManifestsOK(manifests, files)
    /\ \A t \in Tools : ToolOK(tools[t], files, manifests, reports)
    /\ \A t, u \in Tools : t # u => Apart(tools[t], tools[u])
    /\ \A r \in reports : ReportOK(r, files, tools)

LEMMA PathFacts ==
    /\ \A name, of, at : LET p == Path(name, of, at) IN
          p.name = name /\ p.of = of /\ p.at = at
    /\ Live.name = "live" /\ Capture.name = "backup" /\ ApiCapture.name = "watcher"
    /\ Window.name = "window"
    /\ Live.of = "chain" /\ Capture.of = "chain" /\ ApiCapture.of = "api"
  BY DEF Path, Live, Capture, ApiCapture, Window

Extends(fs, gs) == \A p \in Sources : Beginning(fs[p].lines, gs[p].lines)

LEMMA ManifestKept ==
    ASSUME NEW m, NEW fs, NEW gs, ManifestOK(m, fs), Extends(fs, gs)
    PROVE  ManifestOK(m, gs)
  <1>1. Capture \in Sources
    BY DEF Sources
  <1>2. CASE m.kind = "snapshot"
    <2>1. m.source \in Sources /\ Beginning(m.sha256, fs[m.source].lines)
      BY <1>2 DEF ManifestOK
    <2>2. Beginning(m.sha256, gs[m.source].lines)
      BY <2>1, BeginningOfBeginning DEF Extends
    <2> QED
      BY <1>2, <2>1, <2>2 DEF ManifestOK
  <1>3. CASE m.kind = "window"
    <2>1. Beginning(m.sourceLines, gs[Capture].lines)
      BY <1>1, <1>3, BeginningOfBeginning DEF Extends, ManifestOK
    <2> QED
      BY <1>3, <2>1 DEF ManifestOK
  <1> QED
    BY <1>2, <1>3 DEF ManifestOK

LEMMA ToolKept ==
    ASSUME NEW me, NEW fs, NEW ms, NEW rs, NEW gs, NEW ns, NEW ss,
           ToolOK(me, fs, ms, rs), Extends(fs, gs),
           \A p : Final(p, fs, rs) => Final(p, gs, ss) /\ gs[p].lines = fs[p].lines,
           me.pc \in {"sidecar", "verify"} => me.path \in DOMAIN gs,
           me.pc \in {"verify", "withdraw"} => me.path \in DOMAIN ns
    PROVE  ToolOK(me, gs, ns, ss)
  <1>1. me.pc = "snapshotName" => ManifestOK(me.manifest, gs)
    BY ManifestKept DEF ToolOK
  <1>2. me.pc \in {"copy", "sidecar", "verify", "withdraw"} => CopyOK(me, gs)
    BY ManifestKept DEF ToolOK, CopyOK
  <1>3. me.pc \in {"analyseRead", "analyseHash"} /\ me.final => Final(me.source, gs, ss)
    BY DEF ToolOK
  <1>4. me.pc = "analyseHash" /\ me.final => me.bytes = gs[me.source].lines
    BY DEF ToolOK
  <1> QED
    BY <1>1, <1>2, <1>3, <1>4 DEF ToolOK

LEMMA SourcesAreThere ==
    ASSUME NEW fs, FilesOK(fs)
    PROVE  /\ \A p \in Sources : p \in DOMAIN fs /\ IsSequence(fs[p].lines)
           /\ Extends(fs, fs)
  <1>1. \A p \in Sources : p \in DOMAIN fs /\ IsSequence(fs[p].lines)
    BY DEF FilesOK, Sources
  <1> QED
    BY <1>1, Itself DEF Extends

LEMMA IdleFacts ==
    /\ Idle.pc = "idle"
    /\ \A fs, ms, rs : ToolOK(Idle, fs, ms, rs)
    /\ \A you : Apart(Idle, you) /\ Apart(you, Idle)
  BY DEF Idle, ToolOK, Apart
-------------------------------------------------------------------------------
\* One tool moves on.
LEMMA ToolStep ==
    ASSUME CaptureInv, NEW t \in Tools, NEW n, Stays(t, n), WorldOK',
           FilesOK(files'), Extends(files, files'), ManifestsOK(manifests', files'),
           ToolOK(n, files', manifests', reports'),
           \A p : Final(p, files, reports) =>
                    Final(p, files', reports') /\ files'[p].lines = files[p].lines,
           \A u \in Tools \ {t} :
              /\ tools[u].pc \in {"sidecar", "verify"} => tools[u].path \in DOMAIN files'
              /\ tools[u].pc \in {"verify", "withdraw"} => tools[u].path \in DOMAIN manifests'
              /\ Apart(n, tools[u]) /\ Apart(tools[u], n),
           \A r \in reports' : ReportOK(r, files', tools')
    PROVE  CaptureInv'
  <1>1. tools'[t] = n /\ \A u \in Tools \ {t} : tools'[u] = tools[u]
    BY DEF CaptureInv, WorldOK, Stays
  <1>2. \A u \in Tools \ {t} : ToolOK(tools[u], files', manifests', reports')
    <2> TAKE u \in Tools \ {t}
    <2>1. ToolOK(tools[u], files, manifests, reports)
      BY DEF CaptureInv
    <2> QED
      BY <2>1, ToolKept
  <1>3. \A u \in Tools : ToolOK(tools'[u], files', manifests', reports')
    BY <1>1, <1>2
  <1>4. \A u, v \in Tools : u # v => Apart(tools'[u], tools'[v])
    <2> SUFFICES ASSUME NEW u \in Tools, NEW v \in Tools, u # v
                 PROVE  Apart(tools'[u], tools'[v])
      OBVIOUS
    <2>1. CASE u = t
      BY <1>1, <2>1
    <2>2. CASE v = t
      BY <1>1, <2>2
    <2>3. CASE u # t /\ v # t
      <3>1. Apart(tools[u], tools[v])
        BY DEF CaptureInv
      <3> QED
        BY <1>1, <2>3, <3>1
    <2> QED
      BY <2>1, <2>2, <2>3
  <1> QED
    BY <1>3, <1>4 DEF CaptureInv

\* One tool moves on and leaves the files alone.
LEMMA ReadingStep ==
    ASSUME CaptureInv, NEW t \in Tools, NEW n, Stays(t, n), WorldOK',
           UNCHANGED <<files, manifests>>, reports \subseteq reports',
           n.pc \notin {"sidecar", "verify", "withdraw"},
           ToolOK(n, files, manifests, reports),
           \A r \in reports' \ reports : ReportOK(r, files, tools')
    PROVE  CaptureInv'
  <1>1. tools'[t] = n /\ \A u \in Tools \ {t} : tools'[u] = tools[u]
    BY DEF CaptureInv, WorldOK, Stays
  <1>2. FilesOK(files') /\ Extends(files, files') /\ ManifestsOK(manifests', files')
    BY SourcesAreThere DEF CaptureInv
  <1>3. \A p : Final(p, files, reports) =>
                 Final(p, files', reports') /\ files'[p].lines = files[p].lines
    BY DEF Final
  <1>4. ToolOK(n, files', manifests', reports')
    <2>1. n.pc \notin {"sidecar", "verify", "withdraw"}
      OBVIOUS
    <2> QED
      BY <1>2, <1>3, <2>1, ToolKept
  <1>5. \A u \in Tools \ {t} :
              /\ tools[u].pc \in {"sidecar", "verify"} => tools[u].path \in DOMAIN files'
              /\ tools[u].pc \in {"verify", "withdraw"} => tools[u].path \in DOMAIN manifests'
              /\ Apart(n, tools[u]) /\ Apart(tools[u], n)
    BY DEF CaptureInv, ToolOK, Apart
  <1>6. \A r \in reports' : ReportOK(r, files', tools')
    <2> TAKE r \in reports'
    <2>1. CASE r \in reports
      <3>1. ReportOK(r, files, tools)
        BY <2>1 DEF CaptureInv
      <3>2. \A u \in Tools : tools'[u].pc \in {"sidecar", "verify"} => tools'[u] = tools[u]
        BY <1>1
      <3> QED
        BY <3>1, <3>2 DEF ReportOK
    <2>2. CASE r \notin reports
      BY <2>2
    <2> QED
      BY <2>1, <2>2
  <1> QED
    BY <1>2, <1>3, <1>4, <1>5, <1>6, ToolStep
-------------------------------------------------------------------------------
\* The bounds and the clock.
LEMMA WorldKept ==
    ASSUME WorldOK, UNCHANGED <<now, budget>>, tools' = [t \in Tools |-> tools'[t]]
    PROVE  WorldOK'
  BY DEF WorldOK

LEMMA SpendOne ==
    ASSUME NEW what \in {"polls", "apiPolls", "mintUpdates", "apiUpdates", "tools", "crashes",
                         "quiet"},
           budget \in Amounts, Spend(what)
    PROVE  budget' \in Amounts
  <1>1. budget[what] \in Nat /\ budget[what] > 0
    BY DEF Amounts, Spend
  <1>2. budget[what] - 1 \in Nat
    BY <1>1
  <1> QED
    BY <1>2 DEF Amounts, Spend

LEMMA SpendTwo ==
    ASSUME NEW b \in Amounts, b.polls > 0 \/ b.apiPolls > 0, b.faults > 0
    PROVE  /\ b.polls > 0 => [b EXCEPT !.polls = @ - 1, !.faults = @ - 1] \in Amounts
           /\ b.apiPolls > 0 => [b EXCEPT !.apiPolls = @ - 1, !.faults = @ - 1] \in Amounts
  <1>1. \A x, y \in Nat : /\ [b EXCEPT !.polls = x, !.faults = y] \in Amounts
                          /\ [b EXCEPT !.apiPolls = x, !.faults = y] \in Amounts
    BY DEF Amounts
  <1>2. b.polls \in Nat /\ b.apiPolls \in Nat /\ b.faults \in Nat
    BY DEF Amounts
  <1>3. /\ b.faults - 1 \in Nat
        /\ b.polls > 0 => b.polls - 1 \in Nat
        /\ b.apiPolls > 0 => b.apiPolls - 1 \in Nat
    BY <1>2
  <1> QED
    BY <1>1, <1>3

LEMMA ToolsStay ==
    ASSUME WorldOK, NEW t \in Tools, NEW n, Stays(t, n)
    PROVE  tools' = [u \in Tools |-> tools'[u]]
  BY DEF WorldOK, Stays

LEMMA UnspentStep ==
    ASSUME WorldOK, NEW t \in Tools, NEW n, Stays(t, n), UNCHANGED <<now, budget>>
    PROVE  WorldOK'
  BY ToolsStay DEF WorldOK

LEMMA SpentStep ==
    ASSUME WorldOK, NEW t \in Tools, NEW n, Stays(t, n), UNCHANGED now,
           Spend("tools") \/ Spend("crashes")
    PROVE  WorldOK'
  BY ToolsStay, SpendOne DEF WorldOK
-------------------------------------------------------------------------------
\* The analysis tools.
LEMMA AnalyseSteps ==
    ASSUME CaptureInv, NEW t \in Tools,
           (\E p \in ChainFiles : AnalyseCheck(t, p)) \/ AnalyseRead(t) \/ AnalyseHash(t)
    PROVE  CaptureInv'
  <1>0. WorldOK /\ ToolOK(tools[t], files, manifests, reports)
    BY DEF CaptureInv
  <1>1. ASSUME NEW p \in ChainFiles, AnalyseCheck(t, p) PROVE CaptureInv'
    <2> DEFINE n == [pc |-> "analyseRead", source |-> p,
                     final |-> VerifiedManifest(p) /\ Finished(p)]
    <2>1. Stays(t, n) /\ UNCHANGED <<now, files, manifests, reports>> /\ Spend("tools")
      BY <1>1 DEF AnalyseCheck, world
    <2>2. WorldOK'
      BY <1>0, <2>1, SpentStep
    <2>3. n.final => Final(p, files, reports)
      BY <1>1 DEF ChainFiles, Final, Finished
    <2>4. ToolOK(n, files, manifests, reports)
      BY <2>3 DEF ToolOK
    <2>5. n.pc = "analyseRead"
      OBVIOUS
    <2> HIDE DEF n
    <2> QED
      BY <2>1, <2>2, <2>4, <2>5, ReadingStep
  <1>2. CASE AnalyseRead(t)
    <2> DEFINE me == tools[t]
               n == IF me.source \notin DOMAIN files THEN Idle
                    ELSE [pc |-> "analyseHash", source |-> me.source, final |-> me.final,
                          bytes |-> files[me.source].lines]
    <2>1. Stays(t, n) /\ UNCHANGED <<now, budget, files, manifests, reports>>
      BY <1>2 DEF AnalyseRead, world
    <2>2. WorldOK'
      BY <1>0, <2>1, UnspentStep
    <2>3. ToolOK(n, files, manifests, reports) /\ n.pc \in {"idle", "analyseHash"}
      BY <1>0, <1>2, IdleFacts DEF AnalyseRead, ToolOK
    <2> HIDE DEF n
    <2> QED
      BY <2>1, <2>2, <2>3, ReadingStep
  <1>3. CASE AnalyseHash(t)
    <2> DEFINE me == tools[t]
               a == [what |-> "analysis", final |-> me.final, lines |-> me.bytes,
                     sha256 |-> files[me.source].lines]
    <2>1. /\ Stays(t, Idle) /\ UNCHANGED <<now, budget, files, manifests>>
          /\ me.pc = "analyseHash"
          /\ reports' = reports \/ reports' = reports \cup {a}
      BY <1>3 DEF AnalyseHash, world
    <2>2. WorldOK'
      BY <1>0, <2>1, UnspentStep
    <2>3. ReportOK(a, files, tools')
      BY <1>0, <2>1 DEF ToolOK, ReportOK
    <2> HIDE DEF a
    <2> QED
      BY <2>1, <2>2, <2>3, IdleFacts, ReadingStep
  <1> QED
    BY <1>1, <1>2, <1>3

\* A snapshot until it has its name.
LEMMA SnapshotReads ==
    ASSUME CaptureInv, NEW t \in Tools,
           (\E p \in {Live, Capture, ApiCapture} : SnapshotStat(t, p))
           \/ SnapshotRead(t) \/ SnapshotName(t)
    PROVE  CaptureInv'
  <1>0. WorldOK /\ ToolOK(tools[t], files, manifests, reports) /\ FilesOK(files)
    BY DEF CaptureInv
  <1>1. ASSUME NEW p \in {Live, Capture, ApiCapture}, SnapshotStat(t, p) PROVE CaptureInv'
    <2> DEFINE n == [pc |-> "snapshotRead", source |-> p, mtime |-> files[p].mtime]
    <2>1. Stays(t, n) /\ UNCHANGED <<now, files, manifests, reports>> /\ Spend("tools")
      BY <1>1 DEF SnapshotStat, world
    <2>2. WorldOK'
      BY <1>0, <2>1, SpentStep
    <2>3. p \in Sources
      BY <1>1 DEF SnapshotStat, AssertNotProtected, ProtectedPaths, Sources
    <2>4. ToolOK(n, files, manifests, reports) /\ n.pc = "snapshotRead"
      BY <2>3 DEF ToolOK
    <2> HIDE DEF n
    <2> QED
      BY <2>1, <2>2, <2>4, ReadingStep
  <1>2. CASE SnapshotRead(t)
    <2> DEFINE me == tools[t]
               m == [kind |-> "snapshot", source |-> me.source,
                     sha256 |-> files[me.source].lines, sourceMtime |-> me.mtime]
               n == [pc |-> "snapshotName", manifest |-> m]
    <2>1. /\ Stays(t, n) /\ UNCHANGED <<now, budget, files, manifests, reports>>
          /\ me.pc = "snapshotRead"
      BY <1>2 DEF SnapshotRead, world
    <2>2. WorldOK'
      BY <1>0, <2>1, UnspentStep
    <2>3. me.source \in Sources
      BY <1>0, <2>1 DEF ToolOK
    <2>4. Beginning(files[me.source].lines, files[me.source].lines)
      BY <1>0, <2>3, SourcesAreThere, Itself
    <2>5. ManifestOK(m, files)
      BY <2>3, <2>4 DEF ManifestOK
    <2>6. ToolOK(n, files, manifests, reports) /\ n.pc = "snapshotName"
      BY <2>5 DEF ToolOK
    <2> HIDE DEF n
    <2> QED
      BY <2>1, <2>2, <2>6, ReadingStep
  <1>3. CASE SnapshotName(t)
    <2> DEFINE me == tools[t]
               path == Path("snapshot", me.manifest.source.of, now)
               n == Copying(path, me.manifest)
    <2>1. /\ Stays(t, n) /\ UNCHANGED <<now, budget, files, manifests, reports>>
          /\ me.pc = "snapshotName"
      BY <1>3 DEF SnapshotName, world
    <2>2. WorldOK'
      BY <1>0, <2>1, UnspentStep
    <2>3. ManifestOK(me.manifest, files) /\ me.manifest.kind = "snapshot"
      BY <1>0, <2>1 DEF ToolOK
    <2>4. path.name = "snapshot" /\ path.of = me.manifest.source.of
      BY PathFacts
    <2> HIDE DEF path
    <2>5. CopyOK(n, files) /\ n.pc = "copy"
      BY <2>3, <2>4 DEF CopyOK, Copying
    <2>6. ToolOK(n, files, manifests, reports)
      BY <2>5 DEF ToolOK
    <2> HIDE DEF n
    <2> QED
      BY <2>1, <2>2, <2>5, <2>6, ReadingStep
  <1> QED
    BY <1>1, <1>2, <1>3

\* A window until it is written.
LEMMA WindowReads ==
    ASSUME CaptureInv, NEW t \in Tools,
           (\E p \in ChainFiles : \E s \in Spans : WindowCheck(t, p, s)) \/ WindowRead(t)
    PROVE  CaptureInv'
  <1>0. WorldOK /\ ToolOK(tools[t], files, manifests, reports) /\ FilesOK(files)
    BY DEF CaptureInv
  <1>1. ASSUME NEW p \in ChainFiles, NEW s \in Spans, WindowCheck(t, p, s) PROVE CaptureInv'
    <2> DEFINE n == [pc |-> "windowRead", source |-> p, span |-> s]
    <2>1. Stays(t, n) /\ UNCHANGED <<now, files, manifests, reports>> /\ Spend("tools")
      BY <1>1 DEF WindowCheck, world
    <2>2. WorldOK'
      BY <1>0, <2>1, SpentStep
    <2>3. p # Window /\ p.of = "chain"
      BY <1>1 DEF WindowCheck, AssertSafeOutput, ChainFiles
    <2>4. ToolOK(n, files, manifests, reports) /\ n.pc = "windowRead"
      BY <2>3 DEF ToolOK
    <2> HIDE DEF n
    <2> QED
      BY <2>1, <2>2, <2>4, ReadingStep
  <1>2. CASE WindowRead(t)
    <2> DEFINE me == tools[t]
               lines == files[me.source].lines
               m == WindowManifest(lines, me.source, me.span)
               n == IF me.source \notin DOMAIN files THEN Idle ELSE Copying(Window, m)
    <2>1. /\ Stays(t, n) /\ UNCHANGED <<now, budget, files, manifests, reports>>
          /\ me.pc = "windowRead"
      BY <1>2 DEF WindowRead, world
    <2>2. WorldOK'
      BY <1>0, <2>1, UnspentStep
    <2>3. CASE me.source \notin DOMAIN files
      BY <2>1, <2>2, <2>3, IdleFacts, ReadingStep
    <2>4. CASE me.source \in DOMAIN files
      <3>1. me.source # Window /\ me.source.of = "chain" /\ me.span \in Int \X Int
        BY <1>0, <2>1, CaptureConstants DEF ToolOK
      <3>2. Beginning(lines, files[Capture].lines)
        BY <1>0, <2>4, <3>1 DEF FilesOK
      <3>3. /\ m.kind = "window" /\ m.sha256 = WindowLines(lines, me.span)
            /\ m.sourceLines = lines /\ m.span = me.span
        BY DEF WindowManifest
      <3>4. /\ IsSequence(m.sha256)
            /\ ToSet(m.sha256) = {l \in ToSet(m.sourceLines) : InWindow(l, m.span)}
        BY <3>2, <3>3, LoopKeepsWindow DEF Beginning
      <3> HIDE DEF m
      <3>5. ManifestOK(m, files)
        BY <3>1, <3>2, <3>3, <3>4 DEF ManifestOK
      <3>6. CopyOK(Copying(Window, m), files) /\ Copying(Window, m).pc = "copy"
        BY <3>3, <3>5 DEF CopyOK, Copying
      <3>7. ToolOK(Copying(Window, m), files, manifests, reports)
        BY <3>6 DEF ToolOK
      <3>8. Stays(t, Copying(Window, m))
        BY <2>1, <2>4
      <3> QED
        BY <2>1, <2>2, <3>6, <3>7, <3>8, ReadingStep
    <2> QED
      BY <2>3, <2>4
  <1> QED
    BY <1>1, <1>2
-------------------------------------------------------------------------------
\* A new file beside the others.
LEMMA FileCreated ==
    ASSUME CaptureInv, NEW p, p \notin DOMAIN files, NEW file,
           p.of = "chain" /\ p # Window => Beginning(file.lines, files[Capture].lines),
           files' = Created(files, p, file)
    PROVE  /\ DOMAIN files' = DOMAIN files \cup {p}
           /\ \A q \in DOMAIN files : files'[q] = files[q]
           /\ FilesOK(files') /\ Extends(files, files')
           /\ ManifestsOK(manifests, files')
           /\ \A q : Final(q, files, reports) =>
                       Final(q, files', reports) /\ files'[q].lines = files[q].lines
  <1>1. DOMAIN files' = DOMAIN files \cup {p}
    BY DEF Created
  <1>2. files'[p] = file /\ \A q \in DOMAIN files : files'[q] = files[q]
    BY DEF Created
  <1>3. FilesOK(files)
    BY DEF CaptureInv
  <1>4. files'[Capture] = files[Capture] /\ files'[Live] = files[Live]
        /\ files'[ApiCapture] = files[ApiCapture]
    BY <1>2, <1>3 DEF FilesOK
  <1>5. \A q \in DOMAIN files' : q.of = "chain" /\ q # Window =>
           Beginning(files'[q].lines, files'[Capture].lines)
    <2> SUFFICES ASSUME NEW q \in DOMAIN files', q.of = "chain", q # Window
                 PROVE  Beginning(files'[q].lines, files'[Capture].lines)
      OBVIOUS
    <2>1. CASE q = p
      BY <1>2, <1>4, <2>1
    <2>2. CASE q # p
      <3>1. q \in DOMAIN files /\ files'[q] = files[q]
        BY <1>1, <1>2, <2>2
      <3> QED
        BY <1>3, <1>4, <3>1 DEF FilesOK
    <2> QED
      BY <2>1, <2>2
  <1>6. FilesOK(files')
    BY <1>1, <1>3, <1>4, <1>5 DEF FilesOK
  <1>7. Extends(files, files')
    BY <1>3, <1>4, SourcesAreThere DEF Extends, Sources
  <1>8. ManifestsOK(manifests, files')
    BY <1>7, ManifestKept DEF CaptureInv, ManifestsOK
  <1>9. \A q : Final(q, files, reports) =>
                 Final(q, files', reports) /\ files'[q].lines = files[q].lines
    BY <1>1, <1>2 DEF Final
  <1> QED
    BY <1>1, <1>2, <1>6, <1>7, <1>8, <1>9

LEMMA WriteCopyStep ==
    ASSUME CaptureInv, NEW t \in Tools, WriteCopy(t)
    PROVE  CaptureInv'
  <1> DEFINE me == tools[t]
  <1>0. /\ WorldOK /\ ToolOK(me, files, manifests, reports) /\ me.pc = "copy"
        /\ CopyOK(me, files) /\ UNCHANGED <<now, manifests, reports, budget>>
    BY DEF CaptureInv, ToolOK, WriteCopy, world
  <1>1. CASE me.path \in DOMAIN files
    <2>1. Stays(t, Idle) /\ UNCHANGED files
      BY <1>1 DEF WriteCopy
    <2>2. WorldOK'
      BY <1>0, <2>1, UnspentStep
    <2> QED
      BY <1>0, <2>1, <2>2, IdleFacts, ReadingStep
  <1>2. CASE me.path \notin DOMAIN files
    <2> DEFINE file == [lines |-> me.bytes, mtime |-> now]
               n == [me EXCEPT !.pc = "sidecar"]
    <2>1. Stays(t, n) /\ files' = Created(files, me.path, file)
      BY <1>2 DEF WriteCopy
    <2>2. WorldOK'
      BY <1>0, <2>1, UnspentStep
    <2>3. n.pc = "sidecar" /\ n.path = me.path /\ n.bytes = me.bytes /\ n.manifest = me.manifest
          /\ n = [pc |-> n.pc, path |-> n.path, bytes |-> n.bytes, manifest |-> n.manifest]
      BY <1>0 DEF CopyOK
    <2>4. me.path.of = "chain" /\ me.path # Window => Beginning(file.lines, files[Capture].lines)
      <3> SUFFICES ASSUME me.path.of = "chain", me.path # Window
                   PROVE  Beginning(me.bytes, files[Capture].lines)
        OBVIOUS
      <3>1. me.manifest.kind = "snapshot" /\ me.manifest.source.of = "chain"
        BY <1>0 DEF CopyOK, ManifestOK
      <3>2. me.manifest.source = Capture
        BY <1>0, <3>1, PathFacts DEF CopyOK, ManifestOK, Sources
      <3> QED
        BY <1>0, <3>1, <3>2 DEF CopyOK, ManifestOK
    <2> HIDE DEF file, n
    <2>5. /\ DOMAIN files' = DOMAIN files \cup {me.path}
          /\ FilesOK(files') /\ Extends(files, files')
          /\ ManifestsOK(manifests', files')
          /\ \A q : Final(q, files, reports) =>
                      Final(q, files', reports') /\ files'[q].lines = files[q].lines
      BY <1>0, <1>2, <2>1, <2>4, FileCreated
    <2>6. ToolOK(n, files', manifests', reports')
      <3>1. ManifestOK(me.manifest, files')
        BY <1>0, <2>5, ManifestKept DEF CopyOK
      <3>2. CopyOK(n, files')
        BY <1>0, <2>3, <3>1 DEF CopyOK
      <3> QED
        BY <2>3, <2>5, <3>2 DEF ToolOK
    <2>7. \A u \in Tools \ {t} :
              /\ tools[u].pc \in {"sidecar", "verify"} => tools[u].path \in DOMAIN files'
              /\ tools[u].pc \in {"verify", "withdraw"} => tools[u].path \in DOMAIN manifests'
              /\ Apart(n, tools[u]) /\ Apart(tools[u], n)
      <3> TAKE u \in Tools \ {t}
      <3>1. ToolOK(tools[u], files, manifests, reports)
        BY DEF CaptureInv
      <3>2. tools[u].pc \in {"sidecar", "verify"} => tools[u].path # n.path
        BY <1>2, <2>3, <3>1 DEF ToolOK
      <3>3. Apart(n, tools[u]) /\ Apart(tools[u], n)
        BY <2>3, <3>2 DEF Apart
      <3> QED
        BY <1>0, <2>5, <3>1, <3>3 DEF ToolOK
    <2>8. \A r \in reports' : ReportOK(r, files', tools')
      <3> TAKE r \in reports'
      <3>1. ReportOK(r, files, tools)
        BY <1>0 DEF CaptureInv
      <3>2. tools'[t] = n /\ \A u \in Tools \ {t} : tools'[u] = tools[u]
        BY <2>1 DEF CaptureInv, WorldOK, Stays
      <3>3. r.what = "snapshot" => n.path # r.path
        BY <1>2, <2>3, <3>1 DEF ReportOK
      <3> QED
        BY <2>5, <3>1, <3>2, <3>3 DEF ReportOK
    <2> QED
      BY <2>1, <2>2, <2>5, <2>6, <2>7, <2>8, ToolStep
  <1> QED
    BY <1>1, <1>2

LEMMA WriteSidecarStep ==
    ASSUME CaptureInv, NEW t \in Tools, WriteSidecar(t)
    PROVE  CaptureInv'
  <1> DEFINE me == tools[t]
  <1>0. /\ WorldOK /\ ToolOK(me, files, manifests, reports) /\ me.pc = "sidecar"
        /\ CopyOK(me, files) /\ UNCHANGED <<now, files, reports, budget>>
        /\ FilesOK(files)
    BY DEF CaptureInv, ToolOK, WriteSidecar, world
  <1>1. CASE me.path \in DOMAIN manifests
    <2>1. Stays(t, Idle) /\ UNCHANGED manifests
      BY <1>1 DEF WriteSidecar
    <2>2. WorldOK'
      BY <1>0, <2>1, UnspentStep
    <2> QED
      BY <1>0, <2>1, <2>2, IdleFacts, ReadingStep
  <1>2. CASE me.path \notin DOMAIN manifests
    <2> DEFINE n == IF me.manifest.kind = "snapshot" THEN [me EXCEPT !.pc = "verify"] ELSE Idle
    <2>1. Stays(t, n) /\ manifests' = Created(manifests, me.path, me.manifest)
      BY <1>2 DEF WriteSidecar
    <2>2. WorldOK'
      BY <1>0, <2>1, UnspentStep
    <2>3. \/ n = Idle
          \/ /\ n.pc = "verify" /\ n.path = me.path /\ n.bytes = me.bytes
             /\ n.manifest = me.manifest /\ me.manifest.kind = "snapshot"
             /\ n = [pc |-> n.pc, path |-> n.path, bytes |-> n.bytes, manifest |-> n.manifest]
      BY <1>0 DEF CopyOK
    <2> HIDE DEF n
    <2>4. /\ DOMAIN manifests' = DOMAIN manifests \cup {me.path}
          /\ manifests'[me.path] = me.manifest
          /\ \A q \in DOMAIN manifests : manifests'[q] = manifests[q]
      BY <1>2, <2>1 DEF Created
    <2>5. ManifestsOK(manifests', files')
      BY <1>0, <2>4 DEF CaptureInv, ManifestsOK, CopyOK
    <2>6. FilesOK(files') /\ Extends(files, files')
      BY <1>0, SourcesAreThere
    <2>7. ToolOK(n, files', manifests', reports')
      <3>1. CASE n = Idle
        BY <3>1, IdleFacts
      <3>2. CASE n # Idle
        <4>1. CopyOK(n, files')
          BY <1>0, <2>3, <3>2 DEF CopyOK
        <4>2. n.path \in DOMAIN files' /\ n.path \in DOMAIN manifests'
          BY <1>0, <2>3, <2>4, <3>2 DEF ToolOK
        <4> QED
          BY <2>3, <3>2, <4>1, <4>2 DEF ToolOK
      <3> QED
        BY <3>1, <3>2
    <2>8. \A u \in Tools \ {t} :
              /\ tools[u].pc \in {"sidecar", "verify"} => tools[u].path \in DOMAIN files'
              /\ tools[u].pc \in {"verify", "withdraw"} => tools[u].path \in DOMAIN manifests'
              /\ Apart(n, tools[u]) /\ Apart(tools[u], n)
      <3> TAKE u \in Tools \ {t}
      <3>1. ToolOK(tools[u], files, manifests, reports) /\ Apart(me, tools[u])
        BY DEF CaptureInv
      <3>2. tools[u].pc \in {"sidecar", "verify"} => tools[u].path # me.path
        BY <1>0, <3>1 DEF Apart
      <3>3. tools[u].pc \in {"verify", "withdraw"} => tools[u].path # me.path
        BY <1>2, <3>1 DEF ToolOK
      <3>4. Apart(n, tools[u]) /\ Apart(tools[u], n)
        BY <2>3, <3>2, <3>3, IdleFacts DEF Apart
      <3> QED
        BY <1>0, <2>4, <3>1, <3>4 DEF ToolOK
    <2>9. \A r \in reports' : ReportOK(r, files', tools')
      <3> TAKE r \in reports'
      <3>1. ReportOK(r, files, tools)
        BY <1>0 DEF CaptureInv
      <3>2. tools'[t] = n /\ \A u \in Tools \ {t} : tools'[u] = tools[u]
        BY <2>1 DEF CaptureInv, WorldOK, Stays
      <3>3. r.what = "snapshot" => me.path # r.path
        BY <1>0, <3>1 DEF ReportOK
      <3>4. \A u \in Tools : tools'[u].pc \in {"sidecar", "verify"} /\ r.what = "snapshot" =>
               tools'[u].path # r.path
        BY <2>3, <3>1, <3>2, <3>3, IdleFacts DEF ReportOK
      <3> QED
        BY <1>0, <3>1, <3>4 DEF ReportOK
    <2>10. \A q : Final(q, files, reports) =>
                    Final(q, files', reports') /\ files'[q].lines = files[q].lines
      BY <1>0
    <2> QED
      BY <2>1, <2>2, <2>5, <2>6, <2>7, <2>8, <2>9, <2>10, ToolStep
  <1> QED
    BY <1>1, <1>2

LEMMA SnapshotVerifyStep ==
    ASSUME CaptureInv, NEW t \in Tools, SnapshotVerify(t)
    PROVE  CaptureInv'
  <1> DEFINE me == tools[t]
             source == files[me.manifest.source]
             same == source.lines = me.bytes /\ source.mtime = me.manifest.sourceMtime
  <1>0. /\ WorldOK /\ ToolOK(me, files, manifests, reports) /\ me.pc = "verify"
        /\ CopyOK(me, files) /\ UNCHANGED <<now, manifests, budget>>
        /\ FilesOK(files)
    BY DEF CaptureInv, ToolOK, SnapshotVerify, world
  <1>1. /\ me.path.name = "snapshot" /\ me.path \in DOMAIN files
        /\ me.path \notin {Live, Capture, ApiCapture, Window}
    BY <1>0, PathFacts DEF ToolOK, CopyOK
  <1>2. ASSUME NEW u \in Tools \ {t}
        PROVE  /\ tools[u].pc \in {"sidecar", "verify"} => tools[u].path # me.path
               /\ tools[u].pc \in {"verify", "withdraw"} => tools[u].path # me.path
    <2>1. Apart(me, tools[u])
      BY DEF CaptureInv
    <2> QED
      BY <1>0, <2>1 DEF Apart
  <1>3. CASE same
    <2> DEFINE r == Reported(me)
    <2>1. Stays(t, Idle) /\ UNCHANGED files /\ reports' = reports \cup {r}
      BY <1>3 DEF SnapshotVerify
    <2>2. WorldOK'
      BY <1>0, <2>1, UnspentStep
    <2>3. tools'[t] = Idle /\ \A u \in Tools \ {t} : tools'[u] = tools[u]
      BY <1>0, <2>1 DEF WorldOK, Stays
    <2>4. \A u \in Tools : tools'[u].pc \in {"sidecar", "verify"} => tools'[u].path # me.path
      BY <1>2, <2>3, IdleFacts
    <2>5. r.what = "snapshot" /\ r.path = me.path /\ r.lines = r.source
      BY <1>3 DEF Reported
    <2> HIDE DEF r
    <2>6. ReportOK(r, files, tools')
      BY <1>1, <2>4, <2>5 DEF ReportOK
    <2> QED
      BY <1>0, <2>1, <2>2, <2>6, IdleFacts, ReadingStep
  <1>4. CASE ~same
    <2> DEFINE n == [me EXCEPT !.pc = "withdraw"]
    <2>1. Stays(t, n) /\ files' = Removed(files, me.path) /\ UNCHANGED reports
      BY <1>4 DEF SnapshotVerify
    <2>2. WorldOK'
      BY <1>0, <2>1, UnspentStep
    <2>3. n.pc = "withdraw" /\ n.path = me.path /\ n.bytes = me.bytes /\ n.manifest = me.manifest
          /\ n = [pc |-> n.pc, path |-> n.path, bytes |-> n.bytes, manifest |-> n.manifest]
      BY <1>0 DEF CopyOK
    <2> HIDE DEF n
    <2>4. /\ DOMAIN files' = DOMAIN files \ {me.path}
          /\ \A q \in DOMAIN files' : files'[q] = files[q]
      BY <2>1 DEF Removed
    <2>5. {Live, Capture, ApiCapture} \subseteq DOMAIN files'
      BY <1>0, <1>1, <2>4 DEF FilesOK
    <2>6. files'[Capture] = files[Capture] /\ files'[Live] = files[Live]
          /\ files'[ApiCapture] = files[ApiCapture]
      BY <2>4, <2>5
    <2>7. FilesOK(files')
      BY <1>0, <2>4, <2>5, <2>6 DEF FilesOK
    <2>8. Extends(files, files')
      BY <1>0, <2>6, SourcesAreThere DEF Extends, Sources
    <2>9. ManifestsOK(manifests', files')
      BY <1>0, <2>8, ManifestKept DEF CaptureInv, ManifestsOK
    <2>10. ToolOK(n, files', manifests', reports')
      <3>1. ManifestOK(me.manifest, files')
        BY <1>0, <2>8, ManifestKept DEF CopyOK
      <3>2. CopyOK(n, files')
        BY <1>0, <2>3, <3>1 DEF CopyOK
      <3> QED
        BY <1>0, <2>3, <3>2 DEF ToolOK
    <2>11. \A r \in reports : r.what = "snapshot" => r.path # me.path
      BY <1>0 DEF CaptureInv, ReportOK
    <2>12. \A q : Final(q, files, reports) =>
                    Final(q, files', reports') /\ files'[q].lines = files[q].lines
      <3> SUFFICES ASSUME NEW q, Final(q, files, reports)
                   PROVE  Final(q, files', reports') /\ files'[q].lines = files[q].lines
        OBVIOUS
      <3>1. q # me.path
        BY <1>1, <2>11 DEF Final
      <3>2. q \in DOMAIN files' /\ files'[q] = files[q]
        BY <2>4, <3>1 DEF Final
      <3> QED
        BY <2>1, <3>2 DEF Final
    <2>13. \A u \in Tools \ {t} :
              /\ tools[u].pc \in {"sidecar", "verify"} => tools[u].path \in DOMAIN files'
              /\ tools[u].pc \in {"verify", "withdraw"} => tools[u].path \in DOMAIN manifests'
              /\ Apart(n, tools[u]) /\ Apart(tools[u], n)
      <3> TAKE u \in Tools \ {t}
      <3>1. ToolOK(tools[u], files, manifests, reports)
        BY DEF CaptureInv
      <3>2. Apart(n, tools[u]) /\ Apart(tools[u], n)
        BY <1>2, <2>3 DEF Apart
      <3> QED
        BY <1>0, <1>2, <2>4, <3>1, <3>2 DEF ToolOK
    <2>14. \A r \in reports' : ReportOK(r, files', tools')
      <3> TAKE r \in reports'
      <3>1. ReportOK(r, files, tools)
        BY <2>1 DEF CaptureInv
      <3>2. tools'[t] = n /\ \A u \in Tools \ {t} : tools'[u] = tools[u]
        BY <2>1 DEF CaptureInv, WorldOK, Stays
      <3>3. r.what = "snapshot" => r.path \in DOMAIN files'
        BY <2>1, <2>4, <2>11, <3>1 DEF ReportOK
      <3>4. \A u \in Tools : tools'[u].pc \in {"sidecar", "verify"} /\ r.what = "snapshot" =>
               tools'[u].path # r.path
        BY <2>3, <3>1, <3>2 DEF ReportOK
      <3> QED
        BY <3>1, <3>3, <3>4 DEF ReportOK
    <2> QED
      BY <2>1, <2>2, <2>7, <2>8, <2>9, <2>10, <2>12, <2>13, <2>14, ToolStep
  <1> QED
    BY <1>3, <1>4

LEMMA WithdrawSidecarStep ==
    ASSUME CaptureInv, NEW t \in Tools, WithdrawSidecar(t)
    PROVE  CaptureInv'
  <1> DEFINE me == tools[t]
  <1>0. /\ WorldOK /\ me.pc = "withdraw" /\ FilesOK(files)
        /\ UNCHANGED <<now, files, reports, budget>>
        /\ Stays(t, Idle) /\ manifests' = Removed(manifests, me.path)
    BY DEF CaptureInv, WithdrawSidecar, world
  <1>1. WorldOK'
    BY <1>0, UnspentStep
  <1>2. /\ DOMAIN manifests' = DOMAIN manifests \ {me.path}
        /\ \A q \in DOMAIN manifests' : manifests'[q] = manifests[q]
    BY <1>0 DEF Removed
  <1>3. FilesOK(files') /\ Extends(files, files') /\ ManifestsOK(manifests', files')
    BY <1>0, <1>2, SourcesAreThere DEF CaptureInv, ManifestsOK
  <1>4. \A u \in Tools \ {t} :
            /\ tools[u].pc \in {"sidecar", "verify"} => tools[u].path \in DOMAIN files'
            /\ tools[u].pc \in {"verify", "withdraw"} => tools[u].path \in DOMAIN manifests'
            /\ Apart(Idle, tools[u]) /\ Apart(tools[u], Idle)
    <2> TAKE u \in Tools \ {t}
    <2>1. ToolOK(tools[u], files, manifests, reports) /\ Apart(me, tools[u])
      BY DEF CaptureInv
    <2>2. tools[u].pc \in {"verify", "withdraw"} => tools[u].path # me.path
      BY <1>0, <2>1 DEF Apart
    <2> QED
      BY <1>0, <1>2, <2>1, <2>2, IdleFacts DEF ToolOK
  <1>5. \A r \in reports' : ReportOK(r, files', tools')
    <2> TAKE r \in reports'
    <2>1. ReportOK(r, files, tools)
      BY <1>0 DEF CaptureInv
    <2>2. tools'[t] = Idle /\ \A u \in Tools \ {t} : tools'[u] = tools[u]
      BY <1>0 DEF WorldOK, Stays
    <2> QED
      BY <1>0, <2>1, <2>2, IdleFacts DEF ReportOK
  <1>6. \A q : Final(q, files, reports) =>
                 Final(q, files', reports') /\ files'[q].lines = files[q].lines
    BY <1>0
  <1> QED
    BY <1>0, <1>1, <1>3, <1>4, <1>5, <1>6, IdleFacts, ToolStep

\* A killed tool owns nothing any more; what it leaves may be cut short, but it is
\* still a beginning of the capture.
LEMMA CrashStep ==
    ASSUME CaptureInv, NEW t \in Tools, Crash(t)
    PROVE  CaptureInv'
  <1> DEFINE me == tools[t]
  <1>0. /\ WorldOK /\ ToolOK(me, files, manifests, reports)
        /\ UNCHANGED <<now, manifests, reports>> /\ Stays(t, Idle) /\ Spend("crashes")
    BY DEF CaptureInv, Crash, world
  <1>1. WorldOK'
    BY <1>0, SpentStep
  <1>2. CASE UNCHANGED files
    BY <1>0, <1>1, <1>2, IdleFacts, ReadingStep
  <1>3. ASSUME me.pc = "copy", me.path \notin DOMAIN files, NEW k \in 0 .. Len(me.bytes),
               files' = Created(files, me.path,
                                [lines |-> SubSeq(me.bytes, 1, k), mtime |-> now])
        PROVE  CaptureInv'
    <2> DEFINE file == [lines |-> SubSeq(me.bytes, 1, k), mtime |-> now]
    <2>1. CopyOK(me, files)
      BY <1>0, <1>3 DEF ToolOK
    <2>2. me.path.of = "chain" /\ me.path # Window => Beginning(file.lines, files[Capture].lines)
      <3> SUFFICES ASSUME me.path.of = "chain", me.path # Window
                   PROVE  Beginning(Cut(me.bytes, k), files[Capture].lines)
        BY DEF Cut
      <3>1. me.manifest.kind = "snapshot" /\ me.manifest.source.of = "chain"
        BY <2>1 DEF CopyOK, ManifestOK
      <3>2. me.manifest.source = Capture
        BY <2>1, <3>1, PathFacts DEF CopyOK, ManifestOK, Sources
      <3>3. Beginning(me.bytes, files[Capture].lines)
        BY <2>1, <3>1, <3>2 DEF CopyOK, ManifestOK
      <3>4. Beginning(Cut(me.bytes, k), me.bytes)
        BY <1>3, <3>3, CutIsBeginning DEF Beginning
      <3> QED
        BY <3>3, <3>4, BeginningOfBeginning
    <2>3. files' = Created(files, me.path, file)
      BY <1>3
    <2> HIDE DEF file
    <2>4. /\ DOMAIN files' = DOMAIN files \cup {me.path}
          /\ FilesOK(files') /\ Extends(files, files')
          /\ ManifestsOK(manifests', files')
          /\ \A q : Final(q, files, reports) =>
                      Final(q, files', reports') /\ files'[q].lines = files[q].lines
      BY <1>0, <1>3, <2>2, <2>3, FileCreated
    <2>5. \A u \in Tools \ {t} :
              /\ tools[u].pc \in {"sidecar", "verify"} => tools[u].path \in DOMAIN files'
              /\ tools[u].pc \in {"verify", "withdraw"} => tools[u].path \in DOMAIN manifests'
              /\ Apart(Idle, tools[u]) /\ Apart(tools[u], Idle)
      <3> TAKE u \in Tools \ {t}
      <3>1. ToolOK(tools[u], files, manifests, reports)
        BY DEF CaptureInv
      <3> QED
        BY <1>0, <2>4, <3>1, IdleFacts DEF ToolOK
    <2>6. \A r \in reports' : ReportOK(r, files', tools')
      <3> TAKE r \in reports'
      <3>1. ReportOK(r, files, tools)
        BY <1>0 DEF CaptureInv
      <3>2. tools'[t] = Idle /\ \A u \in Tools \ {t} : tools'[u] = tools[u]
        BY <1>0 DEF WorldOK, Stays
      <3> QED
        BY <2>4, <3>1, <3>2, IdleFacts DEF ReportOK
    <2> QED
      BY <1>0, <1>1, <2>4, <2>5, <2>6, IdleFacts, ToolStep
  <1> QED
    BY <1>2, <1>3 DEF Crash
-------------------------------------------------------------------------------
\* The recorder and the watcher append.
LEMMA Appended ==
    ASSUME CaptureInv, NEW paths, paths = {Capture, Live} \/ paths = {ApiCapture},
           NEW line, NEW at, AppendTo(paths, line, at),
           Capture \in paths => Timed(line),
           UNCHANGED <<manifests, tools, reports>>, WorldOK'
    PROVE  CaptureInv'
  <1>0. FilesOK(files)
    BY DEF CaptureInv
  <1>1. /\ DOMAIN files' = DOMAIN files
        /\ \A p \in DOMAIN files \ paths : files'[p] = files[p]
        /\ \A p \in paths \cap DOMAIN files :
              files'[p] = [lines |-> Append(files[p].lines, line), mtime |-> at]
    BY DEF AppendTo
  <1>2. /\ Capture \in paths <=> Live \in paths
        /\ ApiCapture \in paths <=> Capture \notin paths
        /\ Window \notin paths
        /\ \A p \in paths : p.name # "snapshot"
    BY PathFacts
  <1>3. /\ {Live, Capture, ApiCapture} \subseteq DOMAIN files
        /\ files[Capture] = files[Live]
        /\ IsSequence(files[Capture].lines) /\ IsSequence(files[ApiCapture].lines)
    BY <1>0 DEF FilesOK
  <1>4. files'[Capture] = files'[Live]
    BY <1>1, <1>2, <1>3
  <1>5. \A p \in Sources : \/ files'[p].lines = files[p].lines
                           \/ files'[p].lines = Append(files[p].lines, line)
    BY <1>1, <1>3 DEF Sources
  <1>6. Extends(files, files')
    <2> SUFFICES ASSUME NEW p \in Sources
                 PROVE  Beginning(files[p].lines, files'[p].lines)
      BY DEF Extends
    <2>1. IsSequence(files[p].lines)
      BY <1>0, SourcesAreThere
    <2> QED
      BY <1>5, <2>1, Itself, BeginningAppends
  <1>7. IsSequence(files'[Capture].lines) /\ IsSequence(files'[ApiCapture].lines)
    BY <1>6 DEF Extends, Beginning, Sources
  <1>8. \A i \in DOMAIN files'[Capture].lines : Timed(files'[Capture].lines[i])
    <2>1. CASE Capture \in paths
      <3> DEFINE s == files[Capture].lines
      <3>1. files'[Capture].lines = Append(s, line)
        BY <1>1, <1>3, <2>1
      <3>2. /\ DOMAIN Append(s, line) = 1 .. Len(s) + 1
            /\ \A i \in 1 .. Len(s) : Append(s, line)[i] = s[i]
            /\ Append(s, line)[Len(s) + 1] = line
            /\ DOMAIN s = 1 .. Len(s) /\ Len(s) \in Nat
        BY <1>3, AppendSequence, SequenceFacts
      <3>3. \A i \in 1 .. Len(s) : Timed(s[i])
        BY <1>0, <3>2 DEF FilesOK
      <3> HIDE DEF s
      <3>4. \A i \in 1 .. Len(s) + 1 : i \in 1 .. Len(s) \/ i = Len(s) + 1
        BY <3>2
      <3>5. ASSUME NEW i \in 1 .. Len(s) + 1 PROVE Timed(Append(s, line)[i])
        <4>1. CASE i \in 1 .. Len(s)
          BY <3>2, <3>3, <4>1
        <4>2. CASE i = Len(s) + 1
          BY <2>1, <3>2, <4>2
        <4> QED
          BY <3>4, <4>1, <4>2
      <3> QED
        BY <3>1, <3>2, <3>5
    <2>2. CASE Capture \notin paths
      BY <1>0, <1>1, <1>3, <2>2 DEF FilesOK
    <2> QED
      BY <2>1, <2>2
  <1>9. ASSUME NEW p \in DOMAIN files', p.of = "chain", p # Window
        PROVE  Beginning(files'[p].lines, files'[Capture].lines)
    <2>1. p \in DOMAIN files /\ Beginning(files[p].lines, files[Capture].lines)
      BY <1>0, <1>1, <1>9 DEF FilesOK
    <2>2. CASE p \in paths
      <3>1. p = Capture \/ p = Live
        BY <1>9, <2>2, PathFacts
      <3> QED
        BY <1>4, <1>7, <3>1, Itself
    <2>3. CASE p \notin paths
      <3>1. Beginning(files[Capture].lines, files'[Capture].lines)
        BY <1>6 DEF Extends, Sources
      <3> QED
        BY <1>1, <2>1, <2>3, <3>1, BeginningOfBeginning
    <2> QED
      BY <2>2, <2>3
  <1>10. FilesOK(files')
    BY <1>1, <1>3, <1>4, <1>7, <1>8, <1>9 DEF FilesOK
  <1>11. ManifestsOK(manifests', files')
    BY <1>6, ManifestKept DEF CaptureInv, ManifestsOK
  <1>12. \A q : Final(q, files, reports) =>
                  Final(q, files', reports') /\ files'[q].lines = files[q].lines
    <2> SUFFICES ASSUME NEW q, Final(q, files, reports)
                 PROVE  Final(q, files', reports') /\ files'[q].lines = files[q].lines
      OBVIOUS
    <2>1. q \notin paths
      BY <1>2 DEF Final, CaptureInv, ReportOK
    <2> QED
      BY <1>1, <2>1 DEF Final
  <1>13. \A u \in Tools : ToolOK(tools'[u], files', manifests', reports')
    <2> TAKE u \in Tools
    <2>1. ToolOK(tools[u], files, manifests, reports)
      BY DEF CaptureInv
    <2>2. /\ tools[u].pc \in {"sidecar", "verify"} => tools[u].path \in DOMAIN files'
          /\ tools[u].pc \in {"verify", "withdraw"} => tools[u].path \in DOMAIN manifests'
      BY <1>1, <2>1 DEF ToolOK
    <2>3. ToolOK(tools[u], files', manifests', reports')
      BY <1>6, <1>12, <2>1, <2>2, ToolKept
    <2> QED
      BY <2>3
  <1>14. \A r \in reports' : ReportOK(r, files', tools')
    BY <1>1 DEF CaptureInv, ReportOK
  <1> QED
    BY <1>10, <1>11, <1>13, <1>14 DEF CaptureInv

LEMMA WorldStep ==
    ASSUME CaptureInv, UNCHANGED <<files, manifests, tools, reports>>, WorldOK'
    PROVE  CaptureInv'
  BY DEF CaptureInv

LEMMA PollLineTimed ==
    ASSUME NEW at \in Int, NEW bad, NEW code
    PROVE  /\ Timed(PollLine(at, bad, code))
           /\ Timed([PollLine(at, bad, code) EXCEPT !.wallclock = Null])
           /\ Timed([PollLine(at, bad, code) EXCEPT !.blockTime = Null])
  BY DEF PollLine, Timed

LEMMA FaultyLinesTimed ==
    ASSUME NEW at \in Int, NEW line \in UndecodedLines(at) \cup BrokenLines(at)
    PROVE  Timed(line)
  <1>1. CASE line \in UndecodedLines(at)
    <2>1. PICK m \in Mints, c \in ErrorCodes : line = PollLine(at, m, c)
      BY <1>1 DEF UndecodedLines
    <2> QED
      BY <2>1, PollLineTimed
  <1>2. CASE line \in BrokenLines(at)
    <2>1. \/ line = [kind |-> "junk"]
          \/ line = [PollLine(at, Null, Null) EXCEPT !.wallclock = Null]
          \/ line = [PollLine(at, Null, Null) EXCEPT !.blockTime = Null]
      BY <1>2, Zenon DEF BrokenLines
    <2>2. CASE line = [kind |-> "junk"]
      BY <2>2 DEF Timed
    <2>3. CASE line = [PollLine(at, Null, Null) EXCEPT !.wallclock = Null]
      <3>1. Timed([PollLine(at, Null, Null) EXCEPT !.wallclock = Null])
        BY PollLineTimed
      <3> QED
        BY <2>3, <3>1, Zenon
    <2>4. CASE line = [PollLine(at, Null, Null) EXCEPT !.blockTime = Null]
      <3>1. Timed([PollLine(at, Null, Null) EXCEPT !.blockTime = Null])
        BY PollLineTimed
      <3> QED
        BY <2>4, <3>1, Zenon
    <2> QED
      BY <2>1, <2>2, <2>3, <2>4
  <1> QED
    BY <1>1, <1>2

LEMMA Later ==
    ASSUME WorldOK, NEW d \in budget.steps
    PROVE  now + d \in Int
  BY DEF WorldOK, Amounts

LEMMA RecorderSteps ==
    ASSUME CaptureInv, Poll \/ FaultyPoll
    PROVE  CaptureInv'
  <1>0. WorldOK
    BY DEF CaptureInv
  <1>1. CASE Poll
    <2>1. PICK d \in budget.steps :
            /\ Spend("polls")
            /\ AppendTo({Capture, Live}, PollLine(now + d, Null, Null), now + d)
            /\ now' = now + d
            /\ UNCHANGED <<held, published, manifests, tools, reports>>
      BY <1>1 DEF Poll
    <2>2. now + d \in Int
      BY <1>0, Later
    <2>3. WorldOK'
      BY <1>0, <2>1, <2>2, SpendOne DEF WorldOK
    <2>4. Timed(PollLine(now + d, Null, Null))
      BY <2>2, PollLineTimed
    <2> QED
      BY <2>1, <2>3, <2>4, Appended
  <1>2. CASE FaultyPoll
    <2>1. PICK d \in budget.steps :
            \E line \in UndecodedLines(now + d) \cup BrokenLines(now + d) :
              /\ budget.polls > 0 /\ budget.faults > 0
              /\ budget' = [budget EXCEPT !.polls = @ - 1, !.faults = @ - 1]
              /\ AppendTo({Capture, Live}, line, now + d)
              /\ now' = now + d
              /\ UNCHANGED <<held, published, manifests, tools, reports>>
      BY <1>2 DEF FaultyPoll
    <2>2. now + d \in Int
      BY <1>0, Later
    <2>3. PICK line : /\ Timed(line)
                      /\ budget.polls > 0 /\ budget.faults > 0
                      /\ budget' = [budget EXCEPT !.polls = @ - 1, !.faults = @ - 1]
                      /\ AppendTo({Capture, Live}, line, now + d)
                      /\ now' = now + d
                      /\ UNCHANGED <<held, published, manifests, tools, reports>>
      BY <2>1, <2>2, FaultyLinesTimed
    <2>4. budget' \in Amounts
      BY <1>0, <2>3, SpendTwo DEF WorldOK
    <2>5. WorldOK'
      BY <1>0, <2>2, <2>3, <2>4 DEF WorldOK
    <2> QED
      BY <2>3, <2>5, Appended
  <1> QED
    BY <1>1, <1>2

LEMMA WatcherSteps ==
    ASSUME CaptureInv, ApiPoll \/ FaultyApiPoll
    PROVE  CaptureInv'
  <1>0. WorldOK /\ Capture \notin {ApiCapture}
    BY PathFacts DEF CaptureInv
  <1>1. CASE ApiPoll
    <2>1. PICK d \in budget.steps :
            /\ Spend("apiPolls")
            /\ \E line : AppendTo({ApiCapture}, line, now + d)
            /\ now' = now + d
            /\ UNCHANGED <<held, published, manifests, tools, reports>>
      BY <1>1 DEF ApiPoll
    <2>2. now + d \in Int
      BY <1>0, Later
    <2>3. WorldOK'
      BY <1>0, <2>1, <2>2, SpendOne DEF WorldOK
    <2>4. PICK line : AppendTo({ApiCapture}, line, now + d)
      BY <2>1
    <2> QED
      BY <1>0, <2>1, <2>3, <2>4, Appended
  <1>2. CASE FaultyApiPoll
    <2>1. PICK d \in budget.steps : \E line :
            /\ budget.apiPolls > 0 /\ budget.faults > 0
            /\ budget' = [budget EXCEPT !.apiPolls = @ - 1, !.faults = @ - 1]
            /\ AppendTo({ApiCapture}, line, now + d)
            /\ now' = now + d
            /\ UNCHANGED <<held, published, manifests, tools, reports>>
      BY <1>2 DEF FaultyApiPoll
    <2>2. PICK line :
            /\ budget.apiPolls > 0 /\ budget.faults > 0
            /\ budget' = [budget EXCEPT !.apiPolls = @ - 1, !.faults = @ - 1]
            /\ AppendTo({ApiCapture}, line, now + d)
            /\ now' = now + d
            /\ UNCHANGED <<held, published, manifests, tools, reports>>
      BY <2>1
    <2>3. now + d \in Int
      BY <1>0, Later
    <2>4. budget' \in Amounts
      BY <1>0, <2>2, SpendTwo DEF WorldOK
    <2>5. WorldOK'
      BY <1>0, <2>2, <2>3, <2>4 DEF WorldOK
    <2> QED
      BY <1>0, <2>2, <2>5, Appended
  <1> QED
    BY <1>1, <1>2

LEMMA OutsideSteps ==
    ASSUME CaptureInv, MintUpdate \/ ApiUpdate \/ Quiet
    PROVE  CaptureInv'
  <1>0. WorldOK
    BY DEF CaptureInv
  <1>1. /\ UNCHANGED <<files, manifests, tools, reports>>
        /\ now' = now + 1 \/ now' = now + MinInputQuietSecs + 1
        /\ Spend("mintUpdates") \/ Spend("apiUpdates") \/ Spend("quiet")
    BY DEF MintUpdate, ApiUpdate, Quiet
  <1>2. now' \in Int
    BY <1>0, <1>1 DEF WorldOK, MinInputQuietSecs
  <1>3. budget' \in Amounts
    BY <1>0, <1>1, SpendOne DEF WorldOK
  <1>4. WorldOK'
    BY <1>0, <1>1, <1>2, <1>3 DEF WorldOK
  <1> QED
    BY <1>1, <1>4, WorldStep
-------------------------------------------------------------------------------
LEMMA InitCaptureInv == CaptureInit => CaptureInv
  <1> SUFFICES ASSUME CaptureInit PROVE CaptureInv
    OBVIOUS
  <1>1. WorldOK
    BY CaptureConstants DEF CaptureInit, WorldOK, Amounts
  <1>2. /\ DOMAIN files = {Capture, ApiCapture, Live}
        /\ \A p \in DOMAIN files : files[p] = [lines |-> <<>>, mtime |-> 0]
    BY DEF CaptureInit
  <1>3. Beginning(<<>>, <<>>) /\ DOMAIN <<>> = {}
    BY EmptySequence, Itself
  <1>4. FilesOK(files)
    BY <1>2, <1>3, EmptySequence DEF FilesOK
  <1>5. ManifestsOK(manifests, files)
    BY DEF CaptureInit, ManifestsOK
  <1>6. \A t \in Tools : tools[t] = Idle
    BY DEF CaptureInit
  <1> QED
    BY <1>1, <1>4, <1>5, <1>6, IdleFacts DEF CaptureInit, CaptureInv

LEMMA NextCaptureInv == CaptureInv /\ [CaptureNext]_captureVars => CaptureInv'
  <1> SUFFICES ASSUME CaptureInv, [CaptureNext]_captureVars PROVE CaptureInv'
    OBVIOUS
  <1>1. CASE Poll \/ FaultyPoll \/ ApiPoll \/ FaultyApiPoll
    BY <1>1, RecorderSteps, WatcherSteps
  <1>2. CASE MintUpdate \/ ApiUpdate \/ Quiet
    BY <1>2, OutsideSteps
  <1>3. ASSUME NEW t \in Tools,
               \/ \E p \in {Live, Capture, ApiCapture} : SnapshotStat(t, p)
               \/ SnapshotRead(t) \/ SnapshotName(t)
        PROVE  CaptureInv'
    BY <1>3, SnapshotReads
  <1>4. ASSUME NEW t \in Tools,
               \/ \E p \in ChainFiles : AnalyseCheck(t, p)
               \/ AnalyseRead(t) \/ AnalyseHash(t)
        PROVE  CaptureInv'
    BY <1>4, AnalyseSteps
  <1>5. ASSUME NEW t \in Tools,
               \/ \E p \in ChainFiles : \E s \in Spans : WindowCheck(t, p, s)
               \/ WindowRead(t)
        PROVE  CaptureInv'
    BY <1>5, WindowReads
  <1>6. ASSUME NEW t \in Tools,
               WriteCopy(t) \/ WriteSidecar(t) \/ SnapshotVerify(t) \/ WithdrawSidecar(t) \/ Crash(t)
        PROVE  CaptureInv'
    BY <1>6, WriteCopyStep, WriteSidecarStep, SnapshotVerifyStep, WithdrawSidecarStep, CrashStep
  <1>7. CASE UNCHANGED captureVars
    <2>1. UNCHANGED <<now, files, manifests, tools, reports, budget>>
      BY <1>7 DEF captureVars
    <2>2. WorldOK'
      BY <2>1 DEF CaptureInv, WorldOK
    <2> QED
      BY <2>1, <2>2, WorldStep
  <1> QED
    BY <1>1, <1>2, <1>3, <1>4, <1>5, <1>6, <1>7 DEF CaptureNext

LEMMA CaptureInvHolds == CaptureSpec => []CaptureInv
  BY InitCaptureInv, NextCaptureInv, PTL DEF CaptureSpec

\* capture-isolation.ts, for any number of tools, recorders' lines, spans and
\* crashes: what a matching manifest says of its file is true, reports are of files
\* that were looked at again, an analysis of a finished file is of one content, and
\* no tool touches a capture.
THEOREM SealedIsExact == CaptureSpec => []SealedCopiesAreExact
  <1>1. CaptureInv => SealedCopiesAreExact
    <2> SUFFICES ASSUME CaptureInv PROVE SealedCopiesAreExact
      OBVIOUS
    <2>0. FilesOK(files)
      BY DEF CaptureInv
    <2>1. ASSUME NEW p \in DOMAIN manifests, p \in DOMAIN files, VerifiedManifest(p)
          PROVE  LET m == manifests[p]  lines == files[p].lines IN
                 /\ m.kind = "snapshot" => IsPrefix(lines, files[m.source].lines)
                 /\ m.kind = "window" =>
                      /\ IsPrefix(m.sourceLines, files[Capture].lines)
                      /\ ToSet(lines) = {l \in ToSet(m.sourceLines) :
                            Placeable(l) /\ l.wallclock \in m.span[1] .. m.span[2] - 1}
      <3> DEFINE m == manifests[p]
                 lines == files[p].lines
      <3>1. ManifestOK(m, files) /\ m.sha256 = lines
        BY <2>1 DEF CaptureInv, ManifestsOK, VerifiedManifest
      <3>2. m.kind = "snapshot" => IsPrefix(lines, files[m.source].lines)
        BY <3>1, BeginningIsPrefix DEF ManifestOK
      <3>3. ASSUME m.kind = "window"
            PROVE  /\ IsPrefix(m.sourceLines, files[Capture].lines)
                   /\ ToSet(lines) = {l \in ToSet(m.sourceLines) :
                         Placeable(l) /\ l.wallclock \in m.span[1] .. m.span[2] - 1}
        <4> DEFINE src == m.sourceLines
                   cap == files[Capture].lines
        <4>1. /\ Beginning(src, cap) /\ m.span \in Int \X Int
              /\ ToSet(lines) = {l \in ToSet(src) : InWindow(l, m.span)}
          BY <3>1, <3>3 DEF ManifestOK
        <4>2. IsPrefix(src, cap)
          BY <4>1, BeginningIsPrefix
        <4>3. ASSUME NEW l \in ToSet(src)
              PROVE  InWindow(l, m.span) <=>
                       Placeable(l) /\ l.wallclock \in m.span[1] .. m.span[2] - 1
          <5>1. PICK i \in DOMAIN src : l = src[i]
            BY DEF ToSet
          <5>2. i \in DOMAIN cap /\ l = cap[i]
            <6>1. /\ DOMAIN src = 1 .. Len(src) /\ Len(src) \in Nat
                  /\ DOMAIN cap = 1 .. Len(cap) /\ Len(cap) \in Nat
                  /\ Len(src) <= Len(cap) /\ \A j \in 1 .. Len(src) : src[j] = cap[j]
              BY <4>1, SequenceFacts DEF Beginning
            <6> QED
              BY <5>1, <6>1
          <5>3. Timed(l)
            BY <2>0, <5>2 DEF FilesOK
          <5>4. Placeable(l) => l.wallclock \in Int
            BY <5>3 DEF Timed, Placeable
          <5>5. m.span[1] \in Int /\ m.span[2] \in Int
            BY <4>1
          <5>6. \A a, b, w \in Int : a <= w /\ w < b <=> w \in a .. b - 1
            OBVIOUS
          <5> QED
            BY <5>4, <5>5, <5>6 DEF InWindow
        <4> QED
          BY <4>1, <4>2, <4>3
      <3> QED
        BY <3>2, <3>3
    <2>2. \A r \in reports : /\ r.what = "snapshot" => r.lines = r.source
                             /\ r.what = "analysis" /\ r.final => r.lines = r.sha256
      BY DEF CaptureInv, ReportOK
    <2> QED
      BY <2>1, <2>2 DEF SealedCopiesAreExact
  <1> QED
    BY <1>1, CaptureInvHolds, PTL
===============================================================================
