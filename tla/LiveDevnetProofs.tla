--------------------------- MODULE LiveDevnetProofs ---------------------------
(***************************************************************************)
(* Proofs about LiveDevnet, for every clock, delay and scenario, every        *)
(* number of blocks, transactions and attempts at once and every rewriting of *)
(* a mint: what executes, what is submitted and what the page claims.         *)
(***************************************************************************)
EXTENDS LiveDevnet, SequenceTheorems, TLAPS

\* An error of the guard is none of the decoding errors.
LEMMA CheckType ==
    ASSUME NEW req, NEW actual, NEW now
    PROVE  Check(req, actual, now) \in {"Ok"} \cup CheckErrors
  BY DEF Check, CheckErrors

\* Sequences of submitted transactions: one is appended, or one changes.
LEMMA SequenceDomain ==
    ASSUME NEW s, s \in Seq({s[i] : i \in DOMAIN s})
    PROVE  Len(s) \in Nat /\ DOMAIN s = 1 .. Len(s)
  BY LenProperties

LEMMA FunctionIsSequence ==
    ASSUME NEW S, NEW n \in Nat, NEW f \in [1 .. n -> S]
    PROVE  f \in Seq(S)
  BY SeqDef

LEMMA AppendTransaction ==
    ASSUME NEW s, s \in Seq({s[i] : i \in DOMAIN s}), NEW tx, NEW t, t = Append(s, tx)
    PROVE  /\ t \in Seq({t[i] : i \in DOMAIN t})
           /\ DOMAIN t = DOMAIN s \cup {Len(s) + 1}
           /\ \A i \in DOMAIN s : t[i] = s[i]
           /\ t[Len(s) + 1] = tx
  <1> DEFINE S == {s[i] : i \in DOMAIN s} \cup {tx}
  <1>1. s \in Seq(S)
    BY SeqMonotonic
  <1>2. Len(s) \in Nat /\ DOMAIN s = 1 .. Len(s)
    BY <1>1, LenProperties
  <1> HIDE DEF S
  <1>3. tx \in S
    BY DEF S
  <1>4. /\ t \in Seq(S) /\ Len(t) = Len(s) + 1
        /\ \A i \in 1 .. Len(s) : t[i] = s[i]
        /\ t[Len(s) + 1] = tx
    BY <1>1, <1>2, <1>3, AppendProperties
  <1>5. DOMAIN t = 1 .. Len(s) + 1
    BY <1>4, LenProperties
  <1>6. t \in [1 .. Len(s) + 1 -> {t[i] : i \in DOMAIN t}]
    BY <1>4, <1>5, LenProperties
  <1>7. t \in Seq({t[i] : i \in DOMAIN t})
    BY <1>2, <1>6, FunctionIsSequence
  <1> QED
    BY <1>2, <1>4, <1>5, <1>7

LEMMA ExceptTransaction ==
    ASSUME NEW s, s \in Seq({s[i] : i \in DOMAIN s}), NEW t, DOMAIN t = DOMAIN s,
           t = [i \in DOMAIN t |-> t[i]]
    PROVE  t \in Seq({t[i] : i \in DOMAIN t})
  <1>1. Len(s) \in Nat /\ DOMAIN t = 1 .. Len(s)
    BY SequenceDomain
  <1>2. t \in [1 .. Len(s) -> {t[i] : i \in DOMAIN t}]
    BY <1>1
  <1> QED
    BY <1>1, <1>2, FunctionIsSequence
-------------------------------------------------------------------------------

CallFields == {"kind", "pc", "wallet", "attempt", "action", "held", "ready", "sawFailed",
               "snapshot", "lastValid", "prefix", "before", "tx", "polls"}

WatchFields == {"pc", "attempt", "T", "held", "ready"}

TxFields == {"kind", "attempt", "setup", "wallet", "lastValid", "prefix", "expectation",
             "note", "outcome", "failedAt", "multiplier"}

Actions == [scenario : Scenarios, T : Nat]

\* What the held bytes, and what the fresh transfer, ask the guard for.
Expecting(action, phase_) ==
    [expected |-> ScheduledState(action), expectedPhase |-> phase_, window |-> ZeroWindow]

HeldFits(h) ==
    /\ h.attempt \in Attempts
    /\ \E action \in Actions : h.expectation = Expecting(action, "Pending")

Shape ==
    /\ clock \in Nat
    /\ scenario \in Scenarios
    /\ sent \in Seq({sent[i] : i \in DOMAIN sent})

\* Each transfer asks for its side of an action, and executed on that side.
TxFits(i) ==
    /\ DOMAIN sent[i] = TxFields
    /\ sent[i].kind \in {"prepare", "authorize", "confirm"}
    /\ sent[i].attempt \in Attempts
    /\ sent[i].kind = "authorize" =>
         /\ HeldFits(sent[i])
         /\ sent[i].outcome = "Executed" => sent[i].multiplier = InitialMultiplier
    /\ sent[i].kind = "confirm" =>
         /\ \E action \in Actions : /\ sent[i].expectation = Expecting(action, "Activated")
                                    /\ sent[i].note = action.scenario
         /\ sent[i].outcome = "Executed" => sent[i].multiplier = sent[i].note

\* Where a call of each kind can be.
Steps(kind) ==
    CASE kind = "connect"   -> {"connect"}
      [] kind = "prepare"   -> {"clock", "blockhash", "height", "sign", "status", "metadata",
                                "verify", "balances"}
      [] kind = "authorize" -> {"snapshot", "blockhash", "height", "again", "sign", "afterSign"}
      [] kind = "confirm"   -> {"before", "snapshot", "blockhash", "height", "again", "sign",
                                "status", "metadata", "after"}
      [] kind = "submit"    -> {"height", "send", "status", "metadata", "after"}
      [] kind = "poll"      -> {"height"}
      [] OTHER              -> {}

Submitted == {"status", "metadata", "verify", "balances", "after"}

\* A call works on the action of its click, on what it read of it, and on its own
\* transaction.
CallFits(c) ==
    /\ DOMAIN c = CallFields
    /\ c.pc \in Steps(c.kind)
    /\ c.kind # "connect" => c.attempt \in Attempts
    /\ c.pc = "clock" => c.action \in [scenario : Scenarios, T : {None}]
    /\ (c.kind \in {"prepare", "authorize", "confirm"} /\ c.pc # "clock") => c.action \in Actions
    /\ (c.kind = "authorize" /\ c.pc # "snapshot") =>
         c.snapshot.state = ScheduledState(c.action) /\ c.snapshot.now \in Nat
           /\ c.snapshot.now < c.action.T
    /\ (c.kind = "confirm" /\ c.pc \in {"blockhash", "height", "again", "sign"}) =>
         c.snapshot.state = ScheduledState(c.action) /\ c.snapshot.now \in Nat
           /\ c.snapshot.now > c.action.T
    /\ c.kind \in {"submit", "poll"} => HeldFits(c.held)
    /\ c.pc \in Submitted =>
         c.tx \in DOMAIN sent
           /\ sent[c.tx].kind = IF c.kind = "submit" THEN "authorize" ELSE c.kind

\* The poll that runs is the one of the last render.
WatchFits(w) ==
    /\ DOMAIN w = WatchFields
    /\ w.attempt \in Attempts
    /\ session # None
    /\ \/ w.pc = "clock" /\ phase = "armed"
       \/ w.pc \in {"snapshot", "height"} /\ phase = "locked" /\ held # None /\ HeldFits(w.held)

PageFits ==
    /\ \A c \in calls : CallFits(c)
    /\ \A w \in watch : WatchFits(w)
    /\ \A v, w \in watch : v = w
    /\ session # None => session.action \in Actions /\ session.attempt \in Attempts
    /\ held # None => HeldFits(held)
    /\ stale # None => stale \in DOMAIN sent /\ sent[stale].kind = "authorize"
    /\ updated # None => updated \in DOMAIN sent /\ sent[updated].outcome = "Executed"

IInv ==
    /\ Shape
    /\ \A i \in DOMAIN sent : TxFits(i)
    /\ PageFits
-------------------------------------------------------------------------------
\* The guard's answer on a scheduled state: accepted bytes execute on the side of
\* the activation they ask for.
LEMMA AcceptedOnItsSide ==
    ASSUME NEW action \in Actions, NEW side, NEW actual, NEW now,
           Check(Expecting(action, side), actual, now) = "Ok"
    PROVE  /\ side = "Pending" => EffectiveMultiplier(actual, now) = InitialMultiplier
           /\ side = "Activated" => EffectiveMultiplier(actual, now) = action.scenario
  <1>1. InitialMultiplier # action.scenario
    BY DemoChainConstants DEF ValidateScenarioCatalog, Actions
  <1>2. /\ actual.multiplier = InitialMultiplier
        /\ actual.newMultiplier = action.scenario
        /\ PhaseAt(actual, now) = side
    BY <1>1 DEF Check, Expecting, ScheduledState, HasScheduledChange
  <1> QED
    BY <1>2 DEF PhaseAt, EffectiveMultiplier

\* authorizeDecision and activatedReviewDecision, by what their answers mean.
LEMMA AuthorizedSnapshot ==
    ASSUME NEW action \in Actions, NEW snapshot, snapshot.now \in Nat,
           AuthorizeDecision(action, snapshot) = "sign"
    PROVE  snapshot.state = ScheduledState(action) /\ snapshot.now < action.T
  BY DEF AuthorizeDecision, Actions

LEMMA ReviewedSnapshot ==
    ASSUME NEW action \in Actions, NEW snapshot, snapshot.now \in Nat,
           ReviewDecision(action, snapshot) = "ready"
    PROVE  snapshot.state = ScheduledState(action) /\ snapshot.now > action.T
  BY DEF ReviewDecision, Actions

\* The payload of a snapshot on one side of the activation.
LEMMA Payload ==
    ASSUME NEW action \in Actions, NEW now \in Nat
    PROVE  /\ now < action.T =>
                ExpectationFromSnapshot(ScheduledState(action), now, ZeroWindow)
                  = Expecting(action, "Pending")
           /\ now > action.T =>
                ExpectationFromSnapshot(ScheduledState(action), now, ZeroWindow)
                  = Expecting(action, "Activated")
  <1>1. ScheduledState(action).effectiveTimestamp = action.T /\ action.T \in Nat
    BY DEF ScheduledState, Actions
  <1>2. /\ now < action.T => PhaseAt(ScheduledState(action), now) = "Pending"
        /\ now > action.T => PhaseAt(ScheduledState(action), now) = "Activated"
    BY <1>1 DEF PhaseAt
  <1> QED
    BY <1>2 DEF ExpectationFromSnapshot, Expecting
-------------------------------------------------------------------------------
\* Nothing submitted is taken back or changed once it was decided.
SentGrows ==
    \A i \in DOMAIN sent :
        /\ i \in DOMAIN sent'
        /\ sent'[i].kind = sent[i].kind
        /\ sent[i].outcome # None => sent'[i].outcome = sent[i].outcome

LEMMA CallKept ==
    ASSUME NEW c, CallFits(c), SentGrows
    PROVE  CallFits(c)'
  <1>1. c.pc \in Submitted =>
          c.tx \in DOMAIN sent'
            /\ sent'[c.tx].kind = IF c.kind = "submit" THEN "authorize" ELSE c.kind
    BY DEF CallFits, SentGrows
  <1> QED
    BY <1>1 DEF CallFits, Submitted

LEMMA WatchKept ==
    ASSUME NEW w, WatchFits(w), UNCHANGED <<session, phase, held>>
    PROVE  WatchFits(w)'
  BY DEF WatchFits

\* The links that are shown stay what they are.
LinksFit ==
    /\ stale # None => stale \in DOMAIN sent /\ sent[stale].kind = "authorize"
    /\ updated # None => updated \in DOMAIN sent /\ sent[updated].outcome = "Executed"

LEMMA LinksKept ==
    ASSUME IInv, SentGrows, stale' \in {stale, None}, updated' \in {updated, None}
    PROVE  LinksFit'
  <1>1. \A i \in DOMAIN sent : sent[i].outcome = "Executed" => sent'[i].outcome = "Executed"
    BY DemoChainConstants DEF SentGrows
  <1>2. /\ stale # None => stale \in DOMAIN sent /\ sent[stale].kind = "authorize"
        /\ updated # None => updated \in DOMAIN sent /\ sent[updated].outcome = "Executed"
    BY DEF IInv, PageFits
  <1> QED
    BY <1>1, <1>2 DEF SentGrows, LinksFit

\* A new call that has read nothing.
LEMMA NewCallType ==
    ASSUME NEW kind, NEW pc, NEW w, NEW a, NEW action
    PROVE  LET c == NewCall(kind, pc, w, a, action)
           IN  /\ DOMAIN c = CallFields /\ c.kind = kind /\ c.pc = pc
               /\ c.attempt = a /\ c.action = action
  BY DEF NewCall, CallFields

\* A render: the effects of the new state run on what it holds.
LEMMA RenderFits ==
    ASSUME IInv, NEW rest, NEW polls, polls \subseteq watch, NEW started, NEW p, NEW s, NEW h,
           SetState(rest, polls, started, p, s, h), SentGrows, Shape', LinksFit',
           \A i \in DOMAIN sent' : TxFits(i)',
           \A c \in rest : CallFits(c)',
           s # None => s.action \in Actions /\ s.attempt \in Attempts,
           h # None => HeldFits(h)
    PROVE  IInv'
  <1> DEFINE new == [NewCall("submit", "height", None, s.attempt, None) EXCEPT
                       !.held = h, !.before = s.balances]
  <1>1. phase' = p /\ session' = s /\ held' = h
    BY DEF SetState
  <1>2. ASSUME s # None, h # None PROVE CallFits(new)'
    <2>1. /\ DOMAIN new = CallFields /\ new.kind = "submit" /\ new.pc = "height"
          /\ new.attempt = s.attempt /\ new.held = h
      BY NewCallType DEF CallFields
    <2> HIDE DEF new
    <2> QED
      BY <1>2, <2>1 DEF CallFits, Steps, Submitted
  <1>3. \A c \in Orphaned(polls) : CallFits(c)'
    <2> SUFFICES ASSUME NEW w \in polls, w.pc = "height"
                 PROVE  CallFits([NewCall("poll", "height", None, w.attempt, None) EXCEPT
                                    !.held = w.held, !.ready = w.ready])'
      BY DEF Orphaned
    <2> DEFINE c == [NewCall("poll", "height", None, w.attempt, None) EXCEPT
                                    !.held = w.held, !.ready = w.ready]
    <2>1. HeldFits(w.held) /\ w.attempt \in Attempts
      BY DEF IInv, PageFits, WatchFits
    <2>2. /\ DOMAIN c = CallFields /\ c.kind = "poll" /\ c.pc = "height"
          /\ c.attempt = w.attempt /\ c.held = w.held
      BY NewCallType DEF CallFields
    <2> HIDE DEF c
    <2>3. CallFits(c)'
      BY <2>1, <2>2 DEF CallFits, Steps, Submitted
    <2> QED
      BY <2>3 DEF c
  <1> HIDE DEF new
  <1>4. \A c \in calls' : CallFits(c)'
    <2>1. calls' \subseteq rest \cup {c \in {new} : s # None /\ h # None} \cup Orphaned(polls)
      BY DEF SetState, new
    <2> QED
      BY <1>2, <1>3, <2>1
  <1>5. (\A w \in watch' : WatchFits(w)') /\ \A v, w \in watch' : v = w
    <2>1. CASE watch' = WatchOf(p, s, h)
      <3>1. \A v, w \in watch' : v = w
        BY <2>1 DEF WatchOf
      <3>2. ASSUME NEW w \in watch' PROVE WatchFits(w)'
        BY <1>1, <2>1 DEF WatchOf, WatchFits, WatchFields
      <3> QED
        BY <3>1, <3>2
    <2>2. CASE watch' = watch /\ <<p, s, h>> = <<phase, session, held>>
      BY <1>1, <2>2, WatchKept DEF IInv, PageFits
    <2> QED
      BY <2>1, <2>2 DEF SetState
  <1> QED
    BY <1>1, <1>4, <1>5 DEF IInv, PageFits, LinksFit

\* A step of a call that is not a render.
LEMMA LocalFits ==
    ASSUME IInv, UNCHANGED <<phase, session, held>>, SentGrows, Shape', LinksFit',
           \/ watch' = watch
           \/ (\A w \in watch' : WatchFits(w)') /\ (\A v, w \in watch' : v = w),
           \A i \in DOMAIN sent' : TxFits(i)',
           \A c \in calls' : CallFits(c)'
    PROVE  IInv'
  <1>1. (\A w \in watch' : WatchFits(w)') /\ \A v, w \in watch' : v = w
    BY WatchKept DEF IInv, PageFits
  <1>2. /\ session' # None => session'.action \in Actions /\ session'.attempt \in Attempts
        /\ held' # None => HeldFits(held')
    BY DEF IInv, PageFits
  <1> QED
    BY <1>1, <1>2 DEF IInv, PageFits, LinksFit
-------------------------------------------------------------------------------
LEMMA InitIInv == Init => IInv
  <1> SUFFICES ASSUME Init PROVE IInv
    OBVIOUS
  <1>1. DOMAIN sent = {} /\ sent \in Seq({sent[i] : i \in DOMAIN sent})
    <2>1. sent = <<>>
      BY DEF Init, ChainInit
    <2> QED
      BY <2>1, EmptySeq
  <1>2. Shape
    BY <1>1, LiveDevnetConstants DEF Init, ChainInit, Shape
  <1> QED
    BY <1>1, <1>2 DEF Init, IInv, PageFits

\* A step that leaves the network and the links alone.
Quiet == UNCHANGED <<clock, sent, scenario, stale, updated>>

LEMMA QuietFacts ==
    ASSUME IInv, UNCHANGED <<clock, sent, scenario>>,
           stale' \in {stale, None}, updated' \in {updated, None}
    PROVE  /\ SentGrows /\ Shape' /\ LinksFit'
           /\ \A i \in DOMAIN sent' : TxFits(i)'
           /\ \A c \in calls : CallFits(c)'
  <1>1. SentGrows
    BY DEF SentGrows
  <1>2. Shape'
    BY DEF IInv, Shape
  <1>3. \A i \in DOMAIN sent' : TxFits(i)'
    BY DEF IInv, TxFits
  <1>4. \A c \in calls : CallFits(c)'
    BY <1>1, CallKept DEF IInv, PageFits
  <1> QED
    BY <1>1, <1>2, <1>3, <1>4, LinksKept

LEMMA OthersAreQuiet == UNCHANGED others => Quiet
  BY DEF others, chain, shown, Quiet

LEMMA PhaseKeepsIInv ==
    ASSUME IInv, Quiet, NEW rest, NEW polls, NEW p, SetPhase(rest, polls, p),
           \A c \in rest : c \in calls \/ CallFits(c)', polls \subseteq watch
    PROVE  IInv'
  <1>1. SetState(rest, polls, submitStarted, p, session, held)
    BY DEF SetPhase
  <1>2. /\ session # None => session.action \in Actions /\ session.attempt \in Attempts
        /\ held # None => HeldFits(held)
    BY DEF IInv, PageFits
  <1>3. \A c \in rest : CallFits(c)'
    BY QuietFacts DEF Quiet
  <1> QED
    BY <1>1, <1>2, <1>3, QuietFacts, RenderFits DEF Quiet

LEMMA MoveKeepsIInv ==
    ASSUME IInv, Quiet, NEW rest, Proceed(rest), \A c \in rest : c \in calls \/ CallFits(c)'
    PROVE  IInv'
  <1>1. \A c \in calls' : CallFits(c)'
    BY QuietFacts DEF Quiet, Proceed
  <1> QED
    BY <1>1, QuietFacts, LocalFits DEF Quiet, Proceed

LEMMA LocalKeepsIInv ==
    ASSUME IInv, Quiet, NEW c, NEW next, Local(c, next), CallFits(next)'
    PROVE  IInv'
  BY MoveKeepsIInv DEF Local
-------------------------------------------------------------------------------
LEMMA BlockKeepsIInv ==
    ASSUME IInv, ChainAdvances
    PROVE  IInv'
  <1>1. UNCHANGED <<sent, phase, scenario, session, held, stale, updated, watch, calls>>
    BY DEF ChainAdvances, BlockProduced, page, shown
  <1>2. clock' \in Nat
    BY DemoChainConstants DEF ChainAdvances, BlockProduced, IInv, Shape
  <1>3. SentGrows
    BY <1>1 DEF SentGrows
  <1>4. Shape'
    BY <1>1, <1>2 DEF IInv, Shape
  <1>5. \A i \in DOMAIN sent' : TxFits(i)'
    BY <1>1 DEF IInv, TxFits
  <1>6. \A c \in calls' : CallFits(c)'
    BY <1>1, <1>3, CallKept DEF IInv, PageFits
  <1> QED
    BY <1>1, <1>3, <1>4, <1>5, <1>6, LinksKept, LocalFits

LEMMA RewriteKeepsIInv ==
    ASSUME IInv, NEW a \in Attempts, MintRewritten(a)
    PROVE  IInv'
  <1>1. Quiet /\ Proceed(calls)
    BY DEF MintRewritten, Rewritten, page, shown, Quiet, Proceed
  <1> QED
    BY <1>1, MoveKeepsIInv

\* The network decides one transaction: its outcome is set and, for a transfer, what
\* the token program found.
LEMMA Decided ==
    ASSUME IInv, NEW i \in DOMAIN sent, Lands(i)
    PROVE  /\ sent[i].outcome = None
           /\ DOMAIN sent' = DOMAIN sent
           /\ sent' \in Seq({sent'[j] : j \in DOMAIN sent'})
           /\ \A j \in DOMAIN sent \ {i} : sent'[j] = sent[j]
           /\ DOMAIN sent'[i] = TxFields
           /\ \A f \in TxFields \ {"outcome", "failedAt", "multiplier"} : sent'[i][f] = sent[i][f]
           /\ sent[i].kind # "prepare" =>
                /\ sent'[i].outcome = TransferOutcome(sent[i])[1]
                /\ sent'[i].multiplier = EffectiveMultiplier(mint[sent[i].attempt], clock)
  <1>1. DOMAIN sent[i] = TxFields /\ sent[i].outcome = None
    BY DEF IInv, TxFits, Lands, Included
  <1>2. ASSUME NEW result, sent' = [sent EXCEPT ![i].outcome = result]
        PROVE  /\ DOMAIN sent' = DOMAIN sent /\ sent' = [j \in DOMAIN sent' |-> sent'[j]]
               /\ \A j \in DOMAIN sent \ {i} : sent'[j] = sent[j]
               /\ DOMAIN sent'[i] = TxFields
               /\ \A f \in TxFields \ {"outcome"} : sent'[i][f] = sent[i][f]
    BY <1>1, <1>2
  <1>3. ASSUME NEW result, NEW multiplier,
               sent' = [sent EXCEPT ![i].outcome = result[1], ![i].failedAt = result[2],
                                    ![i].multiplier = multiplier]
        PROVE  /\ DOMAIN sent' = DOMAIN sent /\ sent' = [j \in DOMAIN sent' |-> sent'[j]]
               /\ \A j \in DOMAIN sent \ {i} : sent'[j] = sent[j]
               /\ DOMAIN sent'[i] = TxFields
               /\ \A f \in TxFields \ {"outcome", "failedAt", "multiplier"} :
                    sent'[i][f] = sent[i][f]
               /\ sent'[i].outcome = result[1] /\ sent'[i].multiplier = multiplier
    BY <1>1, <1>3 DEF TxFields
  <1>4. CASE sent[i].kind = "prepare"
    <2>1. PICK result : sent' = [sent EXCEPT ![i].outcome = result]
      BY <1>4 DEF Lands, Included
    <2>2. /\ DOMAIN sent' = DOMAIN sent /\ sent' = [j \in DOMAIN sent' |-> sent'[j]]
          /\ \A j \in DOMAIN sent \ {i} : sent'[j] = sent[j]
          /\ DOMAIN sent'[i] = TxFields
          /\ \A f \in TxFields \ {"outcome"} : sent'[i][f] = sent[i][f]
      BY <1>2, <2>1
    <2>3. sent' \in Seq({sent'[j] : j \in DOMAIN sent'})
      BY <2>2, ExceptTransaction DEF IInv, Shape
    <2> QED
      BY <1>1, <1>4, <2>2, <2>3
  <1>5. CASE sent[i].kind # "prepare"
    <2> DEFINE result == TransferOutcome(sent[i])
               multiplier == EffectiveMultiplier(mint[sent[i].attempt], clock)
    <2>1. sent' = [sent EXCEPT ![i].outcome = result[1], ![i].failedAt = result[2],
                               ![i].multiplier = multiplier]
      BY <1>5 DEF Lands, Included
    <2> HIDE DEF result, multiplier
    <2>2. /\ DOMAIN sent' = DOMAIN sent /\ sent' = [j \in DOMAIN sent' |-> sent'[j]]
          /\ \A j \in DOMAIN sent \ {i} : sent'[j] = sent[j]
          /\ DOMAIN sent'[i] = TxFields
          /\ \A f \in TxFields \ {"outcome", "failedAt", "multiplier"} : sent'[i][f] = sent[i][f]
          /\ sent'[i].outcome = result[1] /\ sent'[i].multiplier = multiplier
      BY <1>3, <2>1
    <2> QED
      BY <1>1, <2>2, ExceptTransaction DEF IInv, Shape, result, multiplier
  <1> QED
    BY <1>4, <1>5

\* Whatever lands executes on its side of the activation.
LEMMA LandKeepsIInv ==
    ASSUME IInv, NEW i \in DOMAIN sent, Lands(i)
    PROVE  IInv'
  <1> DEFINE a == sent[i].attempt
  <1>1. UNCHANGED <<clock, phase, scenario, session, held, stale, updated, watch, calls>>
    BY DEF Lands, Included, page, shown
  <1>2. /\ sent'[i].kind = sent[i].kind /\ sent'[i].attempt = a
        /\ sent'[i].expectation = sent[i].expectation /\ sent'[i].note = sent[i].note
    BY Decided DEF TxFields
  <1>3. SentGrows
    <2>1. /\ DOMAIN sent' = DOMAIN sent /\ sent[i].outcome = None
          /\ \A j \in DOMAIN sent \ {i} : sent'[j] = sent[j]
      BY Decided
    <2> QED
      BY <1>2, <2>1 DEF SentGrows
  <1>4. Shape'
    BY <1>1, Decided DEF IInv, Shape
  <1>5. TxFits(i)
    BY DEF IInv
  <1>6. ASSUME sent[i].kind # "prepare", sent'[i].outcome = "Executed"
        PROVE  Check(sent[i].expectation, mint[a], clock) = "Ok"
    <2>1. TransferOutcome(sent[i])[1] = "Executed"
      BY <1>6, Decided
    <2>2. Check(sent[i].expectation, mint[a], clock) # "Executed"
      BY CheckType DEF CheckErrors
    <2> QED
      BY <2>1, <2>2 DEF TransferOutcome
  <1>7. ASSUME sent[i].kind = "authorize", sent'[i].outcome = "Executed"
        PROVE  sent'[i].multiplier = InitialMultiplier
    <2>1. PICK action \in Actions : sent[i].expectation = Expecting(action, "Pending")
      BY <1>5, <1>7 DEF TxFits, HeldFits
    <2>2. Check(Expecting(action, "Pending"), mint[a], clock) = "Ok"
      BY <1>6, <1>7, <2>1
    <2>3. EffectiveMultiplier(mint[a], clock) = InitialMultiplier
      BY <2>2, AcceptedOnItsSide
    <2> QED
      BY <1>7, <2>3, Decided
  <1>8. ASSUME sent[i].kind = "confirm", sent'[i].outcome = "Executed"
        PROVE  sent'[i].multiplier = sent[i].note
    <2>1. PICK action \in Actions : /\ sent[i].expectation = Expecting(action, "Activated")
                                    /\ sent[i].note = action.scenario
      BY <1>5, <1>8 DEF TxFits
    <2>2. Check(Expecting(action, "Activated"), mint[a], clock) = "Ok"
      BY <1>6, <1>8, <2>1
    <2>3. EffectiveMultiplier(mint[a], clock) = action.scenario
      BY <2>2, AcceptedOnItsSide
    <2> QED
      BY <1>8, <2>1, <2>3, Decided
  <1>9. TxFits(i)'
    <2>1. DOMAIN sent'[i] = TxFields
      BY Decided
    <2> QED
      BY <1>2, <1>5, <1>7, <1>8, <2>1 DEF TxFits, HeldFits
  <1>10. \A j \in DOMAIN sent' : TxFits(j)'
    <2>1. ASSUME NEW j \in DOMAIN sent \ {i}
          PROVE  TxFits(j)'
      <3>1. sent'[j] = sent[j] /\ TxFits(j)
        BY Decided DEF IInv
      <3> QED
        BY <3>1 DEF TxFits
    <2> QED
      BY <1>9, <2>1, Decided
  <1>11. \A c \in calls' : CallFits(c)'
    BY <1>1, <1>3, CallKept DEF IInv, PageFits
  <1> QED
    BY <1>1, <1>3, <1>4, <1>10, <1>11, LinksKept, LocalFits
-------------------------------------------------------------------------------
\* Clicks.

LEMMA ConnectKeepsIInv ==
    ASSUME IInv, ClickConnect
    PROVE  IInv'
  <1>1. Quiet
    BY DEF ClickConnect, Quiet, chain, shown
  <1>2. PICK sawFailed :
          \/ SetPhase(calls, watch, "failed")
          \/ Proceed(calls \cup {[NewCall("connect", "connect", None, None, None) EXCEPT
                                    !.sawFailed = sawFailed]})
    BY DEF ClickConnect
  <1> DEFINE c == [NewCall("connect", "connect", None, None, None) EXCEPT
                     !.sawFailed = sawFailed]
  <1>3. DOMAIN c = CallFields /\ c.kind = "connect" /\ c.pc = "connect"
    BY NewCallType DEF CallFields
  <1>4. SetPhase(calls, watch, "failed") \/ Proceed(calls \cup {c})
    BY <1>2
  <1> HIDE DEF c
  <1>5. CallFits(c)'
    BY <1>3 DEF CallFits, Steps, Submitted
  <1> QED
    BY <1>1, <1>4, <1>5, PhaseKeepsIInv, MoveKeepsIInv

LEMMA AnswerKeepsIInv ==
    ASSUME IInv, NEW c \in calls, ConnectAnswered(c)
    PROVE  IInv'
  <1>1. Quiet
    BY DEF ConnectAnswered, Quiet, chain, shown
  <1>2. PICK p : SetPhase(calls \ {c}, watch, p)
    BY DEF ConnectAnswered
  <1> QED
    BY <1>1, <1>2, PhaseKeepsIInv

LEMMA SelectKeepsIInv ==
    ASSUME IInv, SelectScenario
    PROVE  IInv'
  <1>1. /\ UNCHANGED <<clock, sent, phase, session, held, stale, updated, watch, calls>>
        /\ scenario' \in Scenarios
    BY DEF SelectScenario, chain, shown
  <1>2. SentGrows
    BY <1>1 DEF SentGrows
  <1>3. Shape'
    BY <1>1 DEF IInv, Shape
  <1>4. \A i \in DOMAIN sent' : TxFits(i)'
    BY <1>1 DEF IInv, TxFits
  <1>5. \A c \in calls' : CallFits(c)'
    BY <1>1, <1>2, CallKept DEF IInv, PageFits
  <1> QED
    BY <1>1, <1>2, <1>3, <1>4, <1>5, LinksKept, LocalFits

\* A click that starts a call and sets the phase.
LEMMA StartKeepsIInv ==
    ASSUME IInv, Quiet, NEW kind, NEW pc, NEW w, NEW a \in Attempts, NEW action, NEW p,
           SetPhase(calls \cup {NewCall(kind, pc, w, a, action)}, watch, p),
           \/ kind = "prepare" /\ pc = "clock" /\ action \in [scenario : Scenarios, T : {None}]
           \/ kind = "authorize" /\ pc = "snapshot" /\ action \in Actions
           \/ kind = "confirm" /\ pc = "before" /\ action \in Actions
    PROVE  IInv'
  <1> DEFINE c == NewCall(kind, pc, w, a, action)
  <1>1. /\ DOMAIN c = CallFields /\ c.kind = kind /\ c.pc = pc
        /\ c.attempt = a /\ c.action = action
    BY NewCallType
  <1>2. SetPhase(calls \cup {c}, watch, p)
    OBVIOUS
  <1> HIDE DEF c
  <1>3. CallFits(c)'
    BY <1>1 DEF CallFits, Steps, Submitted
  <1> QED
    BY <1>2, <1>3, PhaseKeepsIInv

LEMMA ClickKeepsIInv ==
    ASSUME IInv, ClickPrepare \/ ClickAuthorize \/ ClickConfirm \/ ClickReset
    PROVE  IInv'
  <1>1. CASE ClickPrepare
    <2>1. Quiet
      BY <1>1 DEF ClickPrepare, Quiet, chain, shown
    <2>2. StartAttempt \in [scenario : Scenarios, T : {None}]
      BY DEF StartAttempt, IInv, Shape
    <2>3. PICK a \in Attempts :
            SetPhase(calls \cup {NewCall("prepare", "clock", wallet, a, StartAttempt)}, watch,
                     "preparing")
      BY <1>1 DEF ClickPrepare
    <2> QED
      BY <2>1, <2>2, <2>3, StartKeepsIInv
  <1>2. CASE ClickAuthorize
    <2>1. Quiet
      BY <1>2 DEF ClickAuthorize, Quiet, chain, shown
    <2>2. session.action \in Actions /\ session.attempt \in Attempts
      BY <1>2 DEF ClickAuthorize, IInv, PageFits
    <2>3. SetPhase(calls \cup {NewCall("authorize", "snapshot", wallet, session.attempt,
                                       session.action)}, watch, "signing")
      BY <1>2 DEF ClickAuthorize
    <2> QED
      BY <2>1, <2>2, <2>3, StartKeepsIInv
  <1>3. CASE ClickConfirm
    <2>1. Quiet
      BY <1>3 DEF ClickConfirm, Quiet, chain, shown
    <2>2. session.action \in Actions /\ session.attempt \in Attempts
      BY <1>3 DEF ClickConfirm, IInv, PageFits
    <2>3. SetPhase(calls \cup {NewCall("confirm", "before", wallet, session.attempt,
                                       session.action)}, watch, "updating")
      BY <1>3 DEF ClickConfirm
    <2> QED
      BY <2>1, <2>2, <2>3, StartKeepsIInv
  <1>4. CASE ClickReset
    <2>1. /\ SetState(calls, watch, FALSE, "ready", None, None)
          /\ UNCHANGED <<clock, sent, scenario>> /\ stale' = None /\ updated' = None
      BY <1>4 DEF ClickReset, chain
    <2> QED
      BY <2>1, QuietFacts, RenderFits
  <1> QED
    BY <1>1, <1>2, <1>3, <1>4
-------------------------------------------------------------------------------
\* Steps of a call.

LEMMA CallFacts ==
    ASSUME IInv, NEW c \in calls
    PROVE  CallFits(c) /\ DOMAIN c = CallFields /\ c.pc \in Steps(c.kind)
  BY DEF IInv, PageFits, CallFits

\* A step forward that keeps what the call has read.
LEMMA ForwardFits ==
    ASSUME NEW c, CallFits(c), SentGrows, NEW next,
           DOMAIN next = CallFields, next.kind = c.kind, next.attempt = c.attempt,
           next.action = c.action, next.held = c.held, next.snapshot = c.snapshot,
           next.pc \in Steps(c.kind), next.pc # "clock", c.pc # "clock",
           c.kind = "authorize" => c.pc # "snapshot",
           (c.kind = "confirm" /\ next.pc \in {"blockhash", "height", "again", "sign"}) =>
             c.pc \in {"blockhash", "height", "again", "sign"},
           next.pc \in Submitted => c.pc \in Submitted /\ next.tx = c.tx
    PROVE  CallFits(next)'
  <1>1. next.pc \in Submitted =>
          next.tx \in DOMAIN sent'
            /\ sent'[next.tx].kind = IF next.kind = "submit" THEN "authorize" ELSE next.kind
    BY DEF CallFits, SentGrows
  <1> QED
    BY <1>1 DEF CallFits

LEMMA FailKeepsIInv ==
    ASSUME IInv, NEW c \in calls, CallFails(c)
    PROVE  IInv'
  <1>1. Quiet
    BY OthersAreQuiet DEF CallFails
  <1>2. Proceed(calls \ {c}) \/ SetPhase(calls \ {c}, watch, "failed")
    BY DEF CallFails
  <1> QED
    BY <1>1, <1>2, MoveKeepsIInv, PhaseKeepsIInv

LEMMA ReadClockKeepsIInv ==
    ASSUME IInv, NEW c \in calls, ReadClock(c)
    PROVE  IInv'
  <1>0. PICK next : next = [c EXCEPT !.pc = "blockhash", !.action.T = ActivationTimestamp(clock)]
    OBVIOUS
  <1>1. Quiet /\ c.pc = "clock" /\ Local(c, next)
    BY <1>0, OthersAreQuiet DEF ReadClock
  <1>2. /\ DOMAIN c = CallFields /\ c.kind = "prepare" /\ c.attempt \in Attempts
        /\ c.action \in [scenario : Scenarios, T : {None}]
    BY <1>1, CallFacts DEF CallFits, Steps
  <1>3. ActivationTimestamp(clock) \in Nat
    BY DemoChainConstants DEF ActivationTimestamp, IInv, Shape
  <1>4. /\ DOMAIN next = CallFields /\ next.kind = "prepare" /\ next.pc = "blockhash"
        /\ next.attempt = c.attempt
        /\ next.action = [c.action EXCEPT !.T = ActivationTimestamp(clock)]
    BY <1>0, <1>2 DEF CallFields
  <1>5. next.action \in Actions
    BY <1>2, <1>3, <1>4 DEF Actions
  <1>6. CallFits(next)'
    BY <1>2, <1>4, <1>5 DEF CallFits, Steps, Submitted
  <1> QED
    BY <1>1, <1>6, LocalKeepsIInv

LEMMA ReadBeforeKeepsIInv ==
    ASSUME IInv, NEW c \in calls, ReadBefore(c)
    PROVE  IInv'
  <1>0. PICK next : next = [c EXCEPT !.pc = "snapshot", !.before = balances[c.attempt]]
    OBVIOUS
  <1>1. Quiet /\ c.pc = "before" /\ Local(c, next)
    BY <1>0, OthersAreQuiet DEF ReadBefore
  <1>2. DOMAIN c = CallFields /\ c.kind = "confirm" /\ CallFits(c)
    BY <1>1, CallFacts DEF Steps
  <1>3. /\ DOMAIN next = CallFields /\ next.pc = "snapshot"
        /\ \A f \in CallFields \ {"pc", "before"} : next[f] = c[f]
    BY <1>0, <1>2 DEF CallFields
  <1>4. /\ next.kind = c.kind /\ next.attempt = c.attempt /\ next.action = c.action
        /\ next.held = c.held /\ next.snapshot = c.snapshot
    BY <1>3 DEF CallFields
  <1>5. SentGrows
    BY <1>1, QuietFacts DEF Quiet
  <1>6. CallFits(next)'
    BY <1>1, <1>2, <1>3, <1>4, <1>5, ForwardFits DEF Steps, Submitted
  <1> QED
    BY <1>1, <1>6, LocalKeepsIInv

\* The snapshot the payload is built from is on the side of its call.
LEMMA ReadSnapshotKeepsIInv ==
    ASSUME IInv, NEW c \in calls, ReadSnapshot(c)
    PROVE  IInv'
  <1>01. PICK snapshot : snapshot = SnapshotOf(c.attempt)
    OBVIOUS
  <1>02. PICK next : next = IF c.pc = "again" THEN [c EXCEPT !.pc = "sign"]
                            ELSE [c EXCEPT !.pc = "blockhash", !.snapshot = snapshot]
    OBVIOUS
  <1>1. Quiet /\ c.pc \in {"snapshot", "again"} /\ c.kind \in {"authorize", "confirm"}
    BY OthersAreQuiet DEF ReadSnapshot
  <1>2. CASE \E p : SetPhase(calls \ {c}, watch, p)
    BY <1>1, <1>2, PhaseKeepsIInv
  <1>3. CASE /\ Local(c, next)
             /\ c.kind = "authorize" => AuthorizeDecision(c.action, snapshot) = "sign"
             /\ c.kind = "confirm" => ReviewDecision(c.action, snapshot) = "ready"
    <2>1. DOMAIN c = CallFields /\ CallFits(c) /\ c.action \in Actions
      BY <1>1, CallFacts DEF CallFits
    <2>2. snapshot.now \in Nat
      BY <1>01 DEF SnapshotOf, IInv, Shape
    <2>3. /\ snapshot.state = ScheduledState(c.action)
          /\ c.kind = "authorize" => snapshot.now < c.action.T
          /\ c.kind = "confirm" => snapshot.now > c.action.T
      BY <1>1, <1>3, <2>1, <2>2, AuthorizedSnapshot, ReviewedSnapshot
    <2>4. CASE c.pc = "snapshot"
      <3>1. /\ DOMAIN next = CallFields /\ next.pc = "blockhash" /\ next.snapshot = snapshot
            /\ next.kind = c.kind /\ next.attempt = c.attempt /\ next.action = c.action
        BY <1>02, <2>1, <2>4 DEF CallFields
      <3>2. CallFits(next)'
        BY <1>1, <2>1, <2>2, <2>3, <3>1 DEF CallFits, Steps, Submitted
      <3> QED
        BY <1>1, <1>3, <3>2, LocalKeepsIInv
    <2>5. CASE c.pc = "again"
      <3>1. /\ DOMAIN next = CallFields /\ next.pc = "sign" /\ next.snapshot = c.snapshot
            /\ next.kind = c.kind /\ next.attempt = c.attempt /\ next.action = c.action
            /\ next.held = c.held
        BY <1>02, <2>1, <2>5 DEF CallFields
      <3>2. SentGrows
        BY <1>1, QuietFacts DEF Quiet
      <3>3. CallFits(next)'
        BY <1>1, <2>1, <2>5, <3>1, <3>2, ForwardFits DEF Steps, Submitted
      <3> QED
        BY <1>1, <1>3, <3>3, LocalKeepsIInv
    <2> QED
      BY <1>1, <2>4, <2>5
  <1>4. \/ \E p : SetPhase(calls \ {c}, watch, p)
        \/ /\ Local(c, next)
           /\ c.kind = "authorize" => AuthorizeDecision(c.action, snapshot) = "sign"
           /\ c.kind = "confirm" => ReviewDecision(c.action, snapshot) = "ready"
    BY <1>01, <1>02 DEF ReadSnapshot
  <1> QED
    BY <1>2, <1>3, <1>4

\* Steps that read nothing the transaction is built from.
LEMMA AdvanceKeepsIInv ==
    ASSUME IInv, Quiet, NEW c \in calls, NEW next, Local(c, next),
           DOMAIN next = CallFields,
           \A f \in {"kind", "attempt", "action", "held", "snapshot", "tx"} : next[f] = c[f],
           next.pc \in Steps(c.kind), next.pc # "clock", c.pc # "clock",
           c.kind = "authorize" => c.pc # "snapshot",
           (c.kind = "confirm" /\ next.pc \in {"blockhash", "height", "again", "sign"}) =>
             c.pc \in {"blockhash", "height", "again", "sign"},
           next.pc \in Submitted => c.pc \in Submitted
    PROVE  IInv'
  <1>1. SentGrows
    BY QuietFacts DEF Quiet
  <1>2. /\ next.kind = c.kind /\ next.attempt = c.attempt /\ next.action = c.action
        /\ next.held = c.held /\ next.snapshot = c.snapshot /\ next.tx = c.tx
    OBVIOUS
  <1>3. CallFits(next)'
    BY <1>1, <1>2, CallFacts, ForwardFits
  <1> QED
    BY <1>3, LocalKeepsIInv

LEMMA ReadsKeepIInv ==
    ASSUME IInv, NEW c \in calls,
           ReadBlockhash(c) \/ ReadHeight(c) \/ WalletSigns(c) \/ ReadStatus(c) \/ VerifyMint(c)
    PROVE  IInv'
  <1>1. Quiet /\ DOMAIN c = CallFields /\ c.pc \in Steps(c.kind)
    BY OthersAreQuiet, CallFacts DEF ReadBlockhash, ReadHeight, WalletSigns, ReadStatus, VerifyMint
  <1>2. CASE \E p : SetPhase(calls \ {c}, watch, p)
    BY <1>1, <1>2, PhaseKeepsIInv
  <1>3. CASE ReadBlockhash(c)
    <2> DEFINE next == [c EXCEPT !.pc = "height", !.lastValid = height + BlockhashLife]
    <2>1. Local(c, next) /\ c.pc = "blockhash"
      BY <1>3 DEF ReadBlockhash
    <2>2. /\ DOMAIN next = CallFields /\ next.pc = "height"
          /\ \A f \in {"kind", "attempt", "action", "held", "snapshot", "tx"} : next[f] = c[f]
      BY <1>1 DEF CallFields
    <2> HIDE DEF next
    <2> QED
      BY <1>1, <2>1, <2>2, AdvanceKeepsIInv DEF Steps, Submitted
  <1>4. ASSUME ReadHeight(c), ~\E p : SetPhase(calls \ {c}, watch, p)
        PROVE  IInv'
    <2> DEFINE pc == IF c.kind = "prepare" THEN "sign" ELSE "again"
               next == [c EXCEPT !.pc = pc]
    <2>1. Local(c, next) /\ c.pc = "height" /\ c.kind \in {"prepare", "authorize", "confirm"}
      BY <1>4 DEF ReadHeight
    <2> HIDE DEF pc
    <2>2. /\ DOMAIN next = CallFields /\ next.pc = pc
          /\ \A f \in {"kind", "attempt", "action", "held", "snapshot", "tx"} : next[f] = c[f]
      BY <1>1 DEF CallFields
    <2> HIDE DEF next
    <2> QED
      BY <1>1, <2>1, <2>2, AdvanceKeepsIInv DEF Steps, Submitted, pc
  <1>5. CASE WalletSigns(c)
    <2>1. PICK prefix : Local(c, [c EXCEPT !.pc = "afterSign", !.prefix = prefix])
      BY <1>5 DEF WalletSigns
    <2> DEFINE next == [c EXCEPT !.pc = "afterSign", !.prefix = prefix]
    <2>2. Local(c, next) /\ c.pc = "sign" /\ c.kind = "authorize"
      BY <1>5, <2>1 DEF WalletSigns
    <2>3. /\ DOMAIN next = CallFields /\ next.pc = "afterSign"
          /\ \A f \in {"kind", "attempt", "action", "held", "snapshot", "tx"} : next[f] = c[f]
      BY <1>1 DEF CallFields
    <2> HIDE DEF next
    <2> QED
      BY <1>1, <2>2, <2>3, AdvanceKeepsIInv DEF Steps, Submitted
  <1>6. CASE ReadStatus(c)
    <2> DEFINE polls == c.polls + 1
               pc == IF polls < MaxPolls THEN "status" ELSE "metadata"
               confirmed == [c EXCEPT !.pc = "metadata"]
               waiting == [c EXCEPT !.polls = polls, !.pc = pc]
    <2>1. Local(c, confirmed) \/ Local(c, waiting)
      BY <1>6 DEF ReadStatus
    <2>2. pc \in {"status", "metadata"} /\ c.pc = "status"
      BY <1>6 DEF ReadStatus
    <2> HIDE DEF polls, pc
    <2>3. /\ DOMAIN confirmed = CallFields /\ confirmed.pc = "metadata"
          /\ \A f \in {"kind", "attempt", "action", "held", "snapshot", "tx"} : confirmed[f] = c[f]
      BY <1>1 DEF CallFields
    <2>4. /\ DOMAIN waiting = CallFields /\ waiting.pc = pc
          /\ \A f \in {"kind", "attempt", "action", "held", "snapshot", "tx"} : waiting[f] = c[f]
      BY <1>1 DEF CallFields
    <2> HIDE DEF confirmed, waiting
    <2>5. PICK next \in {confirmed, waiting} : Local(c, next)
      BY <2>1
    <2>6. /\ DOMAIN next = CallFields /\ next.pc \in {"status", "metadata"}
          /\ \A f \in {"kind", "attempt", "action", "held", "snapshot", "tx"} : next[f] = c[f]
      BY <2>2, <2>3, <2>4, <2>5
    <2>7. next.pc \in Steps(c.kind)
      BY <1>1, <2>2, <2>6 DEF Steps
    <2> QED
      BY <1>1, <2>2, <2>5, <2>6, <2>7, AdvanceKeepsIInv DEF Submitted
  <1>7. ASSUME VerifyMint(c), ~\E p : SetPhase(calls \ {c}, watch, p)
        PROVE  IInv'
    <2> DEFINE next == [c EXCEPT !.pc = "balances"]
    <2>1. Local(c, next) /\ c.pc = "verify"
      BY <1>7 DEF VerifyMint
    <2>2. /\ DOMAIN next = CallFields /\ next.pc = "balances"
          /\ \A f \in {"kind", "attempt", "action", "held", "snapshot", "tx"} : next[f] = c[f]
      BY <1>1 DEF CallFields
    <2> HIDE DEF next
    <2> QED
      BY <1>1, <2>1, <2>2, AdvanceKeepsIInv DEF Steps, Submitted
  <1> QED
    BY <1>2, <1>3, <1>4, <1>5, <1>6, <1>7
-------------------------------------------------------------------------------
\* Submissions.

\* What a new transaction has to be.
Fresh(tx) ==
    /\ DOMAIN tx = TxFields /\ tx.attempt \in Attempts /\ tx.outcome = None
    /\ \/ tx.kind = "prepare"
       \/ tx.kind = "authorize" /\ HeldFits(tx)
       \/ /\ tx.kind = "confirm"
          /\ \E action \in Actions : /\ tx.expectation = Expecting(action, "Activated")
                                     /\ tx.note = action.scenario

LEMMA DemoTransactionType ==
    ASSUME NEW kind, NEW a, NEW setup, NEW w, NEW lastValid, NEW prefix, NEW expectation, NEW note
    PROVE  LET tx == DemoTransaction(kind, a, setup, w, lastValid, prefix, expectation, note)
           IN  /\ DOMAIN tx = TxFields /\ tx.kind = kind /\ tx.attempt = a
               /\ tx.outcome = None /\ tx.expectation = expectation /\ tx.note = note
  BY DEF DemoTransaction, TxFields

LEMMA SendFacts ==
    ASSUME IInv, NEW tx, Fresh(tx), Broadcast(tx), UNCHANGED <<clock, scenario, stale, updated>>
    PROVE  /\ SentGrows /\ Shape' /\ LinksFit'
           /\ \A i \in DOMAIN sent' : TxFits(i)'
           /\ \A c \in calls : CallFits(c)'
           /\ DOMAIN sent' = DOMAIN sent \cup {Len(sent) + 1}
           /\ \A i \in DOMAIN sent : sent'[i] = sent[i]
           /\ sent'[Len(sent) + 1] = tx
  <1>1. /\ sent' \in Seq({sent'[i] : i \in DOMAIN sent'})
        /\ DOMAIN sent' = DOMAIN sent \cup {Len(sent) + 1}
        /\ \A i \in DOMAIN sent : sent'[i] = sent[i]
        /\ sent'[Len(sent) + 1] = tx
    BY AppendTransaction DEF IInv, Shape, Broadcast
  <1>2. SentGrows
    BY <1>1 DEF SentGrows
  <1>3. Shape'
    BY <1>1 DEF IInv, Shape
  <1>4. ASSUME NEW i \in DOMAIN sent PROVE TxFits(i)'
    <2>1. sent'[i] = sent[i] /\ TxFits(i)
      BY <1>1 DEF IInv
    <2> QED
      BY <2>1 DEF TxFits
  <1>5. PICK n : n = Len(sent) + 1
    OBVIOUS
  <1>6. TxFits(n)'
    <2>1. sent'[n] = tx /\ tx.outcome # "Executed"
      BY <1>1, <1>5, DemoChainConstants DEF Fresh
    <2> QED
      BY <2>1 DEF Fresh, TxFits
  <1>7. \A i \in DOMAIN sent' : TxFits(i)'
    BY <1>1, <1>4, <1>5, <1>6
  <1>8. \A c \in calls : CallFits(c)'
    BY <1>2, CallKept DEF IInv, PageFits
  <1> QED
    BY <1>1, <1>2, <1>3, <1>7, <1>8, LinksKept

\* The call waits for the transaction it has submitted, or has failed.
LEMMA SubmissionKeepsIInv ==
    ASSUME IInv, NEW c \in calls, NEW tx, Fresh(tx), Broadcast(tx),
           UNCHANGED <<clock, scenario, stale, updated>>,
           c.kind \in {"prepare", "confirm", "submit"}, c.pc # "clock",
           tx.kind = IF c.kind = "submit" THEN "authorize" ELSE c.kind,
           \/ Local(c, [c EXCEPT !.pc = "status", !.tx = Len(sent) + 1])
           \/ SetPhase(calls \ {c}, watch, "failed")
    PROVE  IInv'
  <1>1. PICK n : n = Len(sent) + 1
    OBVIOUS
  <1>2. n \in DOMAIN sent' /\ sent'[n] = tx
    BY <1>1, SendFacts
  <1> DEFINE next == [c EXCEPT !.pc = "status", !.tx = n]
  <1>3. CallFits(c) /\ DOMAIN c = CallFields
    BY CallFacts
  <1>4. /\ DOMAIN next = CallFields /\ next.pc = "status" /\ next.tx = n
        /\ next.kind = c.kind /\ next.attempt = c.attempt /\ next.action = c.action
        /\ next.held = c.held
    BY <1>3 DEF CallFields
  <1>5. Local(c, next) \/ SetPhase(calls \ {c}, watch, "failed")
    BY <1>1
  <1> HIDE DEF next
  <1>6. CallFits(next)'
    BY <1>2, <1>3, <1>4 DEF CallFits, Steps
  <1>7. CASE Local(c, next)
    <2>1. \A d \in calls' : CallFits(d)'
      BY <1>6, <1>7, SendFacts DEF Local, Proceed
    <2> QED
      BY <1>7, <2>1, SendFacts, LocalFits DEF Local, Proceed
  <1>8. CASE SetPhase(calls \ {c}, watch, "failed")
    <2>1. SetState(calls \ {c}, watch, submitStarted, "failed", session, held)
      BY <1>8 DEF SetPhase
    <2>2. /\ session # None => session.action \in Actions /\ session.attempt \in Attempts
          /\ held # None => HeldFits(held)
      BY DEF IInv, PageFits
    <2>3. \A d \in calls \ {c} : CallFits(d)'
      BY SendFacts
    <2> QED
      BY <2>1, <2>2, <2>3, SendFacts, RenderFits
  <1> QED
    BY <1>5, <1>7, <1>8

\* The payload of a call states the side its snapshot was read on.
LEMMA ExpectationFits ==
    ASSUME NEW c, CallFits(c)
    PROVE  /\ (c.kind = "authorize" /\ c.pc = "afterSign") =>
                Expectation(c) = Expecting(c.action, "Pending") /\ c.action \in Actions
           /\ (c.kind = "confirm" /\ c.pc = "sign") =>
                Expectation(c) = Expecting(c.action, "Activated") /\ c.action \in Actions
  BY Payload DEF CallFits, Expectation

LEMMA WalletSendsKeepsIInv ==
    ASSUME IInv, NEW c \in calls, WalletSends(c)
    PROVE  IInv'
  <1>1. CallFits(c) /\ c.pc = "sign" /\ c.kind \in {"prepare", "confirm"} /\ c.attempt \in Attempts
    BY CallFacts DEF WalletSends, CallFits
  <1> DEFINE setup == DemoTransaction(c.kind, c.attempt, PrepareSessionInstructions(c.action),
                                      c.wallet, c.lastValid, 0, None, None)
             transfer == DemoTransaction(c.kind, c.attempt, <<>>, c.wallet, c.lastValid, 0,
                                         Expectation(c), c.action.scenario)
  <1>2. PICK tx : tx = IF c.kind = "prepare" THEN setup ELSE transfer
    OBVIOUS
  <1>3. Broadcast(tx)
    BY <1>2 DEF WalletSends
  <1>4. Fresh(tx) /\ tx.kind = c.kind
    <2>1. CASE c.kind = "prepare"
      BY <1>1, <1>2, <2>1, DemoTransactionType DEF Fresh
    <2>2. CASE c.kind = "confirm"
      <3>1. tx = transfer
        BY <1>2, <2>2
      <3>2. Expectation(c) = Expecting(c.action, "Activated") /\ c.action \in Actions
        BY <1>1, <2>2, ExpectationFits
      <3> QED
        BY <1>1, <2>2, <3>1, <3>2, DemoTransactionType DEF Fresh
    <2> QED
      BY <1>1, <2>1, <2>2
  <1>5. UNCHANGED <<clock, scenario, stale, updated>>
    BY DEF WalletSends, chain, shown
  <1>6. \/ Local(c, [c EXCEPT !.pc = "status", !.tx = Len(sent) + 1])
        \/ SetPhase(calls \ {c}, watch, "failed")
    BY DEF WalletSends
  <1> QED
    BY <1>1, <1>3, <1>4, <1>5, <1>6, SubmissionKeepsIInv

LEMMA SendHeldKeepsIInv ==
    ASSUME IInv, NEW c \in calls, SendHeld(c)
    PROVE  IInv'
  <1>1. /\ c.pc = "send" /\ c.kind = "submit" /\ HeldFits(c.held)
    BY CallFacts DEF SendHeld, CallFits, Steps
  <1> DEFINE h == c.held
  <1>2. PICK tx : tx = DemoTransaction("authorize", h.attempt, <<>>, h.wallet, h.lastValid,
                                       h.guardInstructionIndex, h.expectation, None)
    OBVIOUS
  <1>3. Broadcast(tx) /\ UNCHANGED <<clock, scenario, stale, updated>>
    BY <1>2 DEF SendHeld, chain, shown
  <1>4. Fresh(tx) /\ tx.kind = "authorize"
    BY <1>1, <1>2, DemoTransactionType DEF Fresh, HeldFits
  <1>5. \/ Local(c, [c EXCEPT !.pc = "status", !.tx = Len(sent) + 1])
        \/ SetPhase(calls \ {c}, watch, "failed")
    BY DEF SendHeld
  <1> QED
    BY <1>1, <1>3, <1>4, <1>5, SubmissionKeepsIInv
-------------------------------------------------------------------------------
\* Results.

LEMMA CheckAfterSignKeepsIInv ==
    ASSUME IInv, NEW c \in calls, CheckAfterSign(c)
    PROVE  IInv'
  <1>1. /\ c.pc = "afterSign" /\ c.kind = "authorize" /\ CallFits(c)
        /\ c.attempt \in Attempts /\ Quiet
    BY CallFacts, OthersAreQuiet DEF CheckAfterSign, CallFits, Steps
  <1>2. CASE SetPhase(calls \ {c}, watch, "elapsed")
    BY <1>1, <1>2, PhaseKeepsIInv
  <1>3. CASE SetState(calls \ {c}, watch, submitStarted, "locked", session,
                      Seal(c, Expectation(c)))
    <2>1. PICK h : h = Seal(c, Expectation(c))
      OBVIOUS
    <2>2. Expectation(c) = Expecting(c.action, "Pending") /\ c.action \in Actions
      BY <1>1, ExpectationFits
    <2>3. HeldFits(h)
      BY <1>1, <2>1, <2>2 DEF Seal, HeldFits
    <2>4. session # None => session.action \in Actions /\ session.attempt \in Attempts
      BY DEF IInv, PageFits
    <2>5. \A d \in calls \ {c} : CallFits(d)'
      BY <1>1, QuietFacts DEF Quiet
    <2> QED
      BY <1>1, <1>3, <2>1, <2>3, <2>4, <2>5, QuietFacts, RenderFits DEF Quiet
  <1> QED
    BY <1>2, <1>3 DEF CheckAfterSign

LEMMA ReportKeepsIInv ==
    ASSUME IInv, NEW rest, NEW polls, NEW h, NEW by, ReportExpired(rest, polls, h, by),
           rest \subseteq calls, polls \subseteq watch
    PROVE  IInv'
  <1>1. Quiet /\ SetPhase(rest, polls, "expired")
    BY DEF ReportExpired, Quiet, chain, shown
  <1> QED
    BY <1>1, PhaseKeepsIInv

LEMMA SubmitKeepsIInv ==
    ASSUME IInv, NEW c \in calls, SubmitHeight(c) \/ SendRefused(c)
    PROVE  IInv'
  <1> DEFINE next == [c EXCEPT !.pc = "send"]
  <1>1. DOMAIN c = CallFields
    BY CallFacts
  <1>2. CASE ReportExpired(calls \ {c}, watch, c.held, "submit")
    BY <1>2, ReportKeepsIInv
  <1>3. CASE c.pc = "height" /\ c.kind = "submit" /\ Local(c, next) /\ UNCHANGED others
    <2>1. /\ DOMAIN next = CallFields /\ next.pc = "send"
          /\ \A f \in {"kind", "attempt", "action", "held", "snapshot", "tx"} : next[f] = c[f]
      BY <1>1 DEF CallFields
    <2> HIDE DEF next
    <2> QED
      BY <1>3, <2>1, OthersAreQuiet, AdvanceKeepsIInv DEF Steps, Submitted
  <1> QED
    BY <1>2, <1>3 DEF SubmitHeight, SendRefused

\* The stale signature is that of held bytes.
LEMMA MetadataKeepsIInv ==
    ASSUME IInv, NEW c \in calls, ReadMetadata(c)
    PROVE  IInv'
  <1>1. /\ CallFits(c) /\ DOMAIN c = CallFields /\ c.pc = "metadata"
        /\ UNCHANGED <<clock, sent, scenario, updated>>
        /\ stale' = IF c.kind = "submit" THEN c.tx ELSE stale
    BY CallFacts DEF ReadMetadata, chain
  <1>2. SentGrows
    BY <1>1 DEF SentGrows
  <1>3. Shape'
    BY <1>1 DEF IInv, Shape
  <1>4. \A i \in DOMAIN sent' : TxFits(i)'
    BY <1>1 DEF IInv, TxFits
  <1>5. \A d \in calls : CallFits(d)'
    BY <1>2, CallKept DEF IInv, PageFits
  <1>6. LinksFit'
    <2>1. c.kind = "submit" => c.tx \in DOMAIN sent /\ sent[c.tx].kind = "authorize"
      BY <1>1 DEF CallFits, Submitted
    <2> QED
      BY <1>1, <2>1 DEF IInv, PageFits, LinksFit
  <1>7. CASE SetPhase(calls \ {c}, watch, "failed")
    <2>1. SetState(calls \ {c}, watch, submitStarted, "failed", session, held)
      BY <1>7 DEF SetPhase
    <2>2. /\ session # None => session.action \in Actions /\ session.attempt \in Attempts
          /\ held # None => HeldFits(held)
      BY DEF IInv, PageFits
    <2> QED
      BY <1>2, <1>3, <1>4, <1>5, <1>6, <2>1, <2>2, RenderFits
  <1> DEFINE pc == IF c.kind = "prepare" THEN "verify" ELSE "after"
             next == [c EXCEPT !.pc = pc]
  <1>8. CASE Local(c, next)
    <2>1. pc \in Steps(c.kind) \cap Submitted
      BY <1>1 DEF CallFits, Steps, Submitted
    <2>2. pc # "clock" /\ pc \notin {"blockhash", "height", "again", "sign"}
      OBVIOUS
    <2> HIDE DEF pc
    <2>3. /\ DOMAIN next = CallFields /\ next.pc = pc /\ next.tx = c.tx
          /\ next.kind = c.kind /\ next.attempt = c.attempt /\ next.action = c.action
          /\ next.held = c.held /\ next.snapshot = c.snapshot
      BY <1>1 DEF CallFields
    <2> HIDE DEF next
    <2>4. c.kind # "authorize"
      BY <1>1 DEF CallFits, Steps
    <2>5. CallFits(next)'
      BY <1>1, <1>2, <2>1, <2>2, <2>3, <2>4, ForwardFits DEF Submitted
    <2>6. \A d \in calls' : CallFits(d)'
      BY <1>5, <1>8, <2>5 DEF Local, Proceed
    <2> QED
      BY <1>2, <1>3, <1>4, <1>6, <1>8, <2>6, LocalFits DEF Local, Proceed
  <1> QED
    BY <1>7, <1>8 DEF ReadMetadata

LEMMA ArmKeepsIInv ==
    ASSUME IInv, NEW c \in calls, ArmSession(c)
    PROVE  IInv'
  <1>1. /\ c.action \in Actions /\ c.attempt \in Attempts /\ Quiet
    BY CallFacts, OthersAreQuiet DEF ArmSession, CallFits, Steps
  <1>2. PICK s : s = [attempt |-> c.attempt, action |-> c.action, balances |-> balances[c.attempt]]
    OBVIOUS
  <1>3. SetState(calls \ {c}, watch, submitStarted, "armed", s, held)
    BY <1>2 DEF ArmSession
  <1>4. s.action \in Actions /\ s.attempt \in Attempts
    BY <1>1, <1>2
  <1>5. \A d \in calls \ {c} : CallFits(d)'
    BY <1>1, QuietFacts DEF Quiet
  <1>6. held # None => HeldFits(held)
    BY DEF IInv, PageFits
  <1> QED
    BY <1>1, <1>3, <1>4, <1>5, <1>6, QuietFacts, RenderFits DEF Quiet

LEMMA ClaimKeepsIInv ==
    ASSUME IInv, NEW c \in calls, ClaimStale(c) \/ ClaimUpdated(c)
    PROVE  IInv'
  <1>1. CASE ClaimStale(c)
    <2>1. Quiet
      BY <1>1, OthersAreQuiet DEF ClaimStale
    <2>2. PICK p : SetPhase(calls \ {c}, watch, p)
      BY <1>1 DEF ClaimStale
    <2> QED
      BY <2>1, <2>2, PhaseKeepsIInv
  <1>2. CASE ClaimUpdated(c)
    <2> DEFINE accepted == AcceptUpdatedExecution(sent[c.tx], c.before, balances[c.attempt])
    <2>1. /\ CallFits(c) /\ c.pc = "after" /\ UNCHANGED <<clock, sent, scenario, stale>>
      BY <1>2, CallFacts DEF ClaimUpdated, chain
    <2>2. PICK p : SetState(calls \ {c}, watch, submitStarted, p, session, held)
      BY <1>2 DEF ClaimUpdated, SetPhase
    <2>3. updated' = updated \/ (updated' = c.tx /\ sent[c.tx].outcome = "Executed")
      BY <1>2 DEF ClaimUpdated, AcceptUpdatedExecution, ConfirmedUpdatedExecution
    <2>4. c.tx \in DOMAIN sent
      BY <2>1 DEF CallFits, Submitted
    <2>5. SentGrows
      BY <2>1 DEF SentGrows
    <2>6. Shape'
      BY <2>1 DEF IInv, Shape
    <2>7. \A i \in DOMAIN sent' : TxFits(i)'
      BY <2>1 DEF IInv, TxFits
    <2>8. \A d \in calls : CallFits(d)'
      BY <2>5, CallKept DEF IInv, PageFits
    <2>9. LinksFit'
      BY <2>1, <2>3, <2>4 DEF IInv, PageFits, LinksFit
    <2>10. /\ session # None => session.action \in Actions /\ session.attempt \in Attempts
           /\ held # None => HeldFits(held)
      BY DEF IInv, PageFits
    <2> QED
      BY <2>2, <2>5, <2>6, <2>7, <2>8, <2>9, <2>10, RenderFits
  <1> QED
    BY <1>1, <1>2

LEMMA OrphanKeepsIInv ==
    ASSUME IInv, NEW c \in calls, OrphanHeight(c)
    PROVE  IInv'
  <1>1. CASE ReportExpired(calls \ {c}, watch, c.held, "poll")
    BY <1>1, ReportKeepsIInv
  <1>2. CASE SetPhase(calls \ {c}, watch, "activating") /\ UNCHANGED others
    BY <1>2, OthersAreQuiet, PhaseKeepsIInv
  <1>3. CASE Proceed(calls \ {c}) /\ UNCHANGED others
    BY <1>3, OthersAreQuiet, MoveKeepsIInv
  <1> QED
    BY <1>1, <1>2, <1>3 DEF OrphanHeight
-------------------------------------------------------------------------------
\* The polls.

LEMMA RewatchKeepsIInv ==
    ASSUME IInv, Quiet, NEW w \in watch, NEW v, w.pc # "clock",
           DOMAIN v = WatchFields, v.attempt = w.attempt, v.held = w.held,
           v.pc \in {"snapshot", "height"}, Rewatch(v)
    PROVE  IInv'
  <1>1. WatchFits(w)
    BY DEF IInv, PageFits
  <1>2. watch' = {v} /\ UNCHANGED <<phase, session, held, calls>>
    BY DEF Rewatch
  <1>3. WatchFits(v)'
    BY <1>1, <1>2 DEF WatchFits
  <1>4. (\A u \in watch' : WatchFits(u)') /\ \A u, x \in watch' : u = x
    BY <1>2, <1>3
  <1> QED
    BY <1>2, <1>4, QuietFacts, LocalFits DEF Quiet

LEMMA WatchKeepsIInv ==
    ASSUME IInv, NEW w \in watch, WatchClock(w) \/ WatchSnapshot(w) \/ WatchHeight(w)
    PROVE  IInv'
  <1>1. WatchFits(w) /\ DOMAIN w = WatchFields /\ \A v \in watch : v = w
    BY DEF IInv, PageFits, WatchFits
  <1>2. CASE WatchClock(w)
    <2>1. Quiet /\ UNCHANGED <<phase, session, held, calls>> /\ watch' \subseteq {w}
      BY <1>2 DEF WatchClock, Quiet, chain
    <2>2. (\A v \in watch' : WatchFits(v)') /\ \A v, u \in watch' : v = u
      BY <1>1, <2>1, WatchKept
    <2> QED
      BY <2>1, <2>2, QuietFacts, LocalFits DEF Quiet
  <1>3. CASE WatchSnapshot(w)
    <2>1. PICK ready : ready = SubmissionPermitted(SnapshotOf(w.attempt), w.held.expectation)
      OBVIOUS
    <2>2. PICK v : v = [w EXCEPT !.pc = "height", !.ready = ready]
      OBVIOUS
    <2>3. Rewatch(v) /\ Quiet /\ w.pc = "snapshot"
      BY <1>3, <2>1, <2>2, OthersAreQuiet DEF WatchSnapshot
    <2>4. /\ DOMAIN v = WatchFields /\ v.attempt = w.attempt /\ v.held = w.held
          /\ v.pc = "height"
      BY <1>1, <2>2 DEF WatchFields
    <2> QED
      BY <2>3, <2>4, RewatchKeepsIInv
  <1>4. CASE WatchHeight(w)
    <2>1. CASE ReportExpired(calls, {}, w.held, "poll")
      BY <2>1, ReportKeepsIInv
    <2>2. CASE SetPhase(calls, {}, "activating") /\ UNCHANGED others
      BY <2>2, OthersAreQuiet, PhaseKeepsIInv
    <2>3. CASE /\ Rewatch([w EXCEPT !.pc = "snapshot", !.ready = FALSE]) /\ UNCHANGED others
      <3>1. PICK v : v = [w EXCEPT !.pc = "snapshot", !.ready = FALSE]
        OBVIOUS
      <3>2. Rewatch(v) /\ Quiet /\ w.pc = "height"
        BY <1>4, <2>3, <3>1, OthersAreQuiet DEF WatchHeight
      <3>3. /\ DOMAIN v = WatchFields /\ v.attempt = w.attempt /\ v.held = w.held
            /\ v.pc = "snapshot"
        BY <1>1, <3>1 DEF WatchFields
      <3> QED
        BY <3>2, <3>3, RewatchKeepsIInv
    <2> QED
      BY <1>4, <2>1, <2>2, <2>3 DEF WatchHeight
  <1> QED
    BY <1>2, <1>3, <1>4

LEMMA WatchFailsKeepsIInv ==
    ASSUME IInv, WatchFails
    PROVE  IInv'
  BY OthersAreQuiet, PhaseKeepsIInv DEF WatchFails
-------------------------------------------------------------------------------
LEMMA NextIInv ==
    ASSUME IInv, [Next]_vars
    PROVE  IInv'
  <1>1. CASE UNCHANGED vars
    <2>1. Quiet /\ Proceed(calls)
      BY <1>1 DEF vars, chain, Quiet, Proceed
    <2> QED
      BY <2>1, MoveKeepsIInv
  <1>2. CASE ChainAdvances
    BY <1>2, BlockKeepsIInv
  <1>3. CASE \E i \in DOMAIN sent : Lands(i)
    BY <1>3, LandKeepsIInv
  <1>4. CASE \E a \in Attempts : MintRewritten(a)
    BY <1>4, RewriteKeepsIInv
  <1>5. CASE SelectScenario \/ ClickConnect
    BY <1>5, SelectKeepsIInv, ConnectKeepsIInv
  <1>6. CASE ClickPrepare \/ ClickAuthorize \/ ClickConfirm \/ ClickReset
    BY <1>6, ClickKeepsIInv
  <1>7. ASSUME NEW c \in calls, Answers(c) PROVE IInv'
    <2>1. CASE ReadClock(c) \/ ReadBefore(c) \/ ReadSnapshot(c)
      BY <2>1, ReadClockKeepsIInv, ReadBeforeKeepsIInv, ReadSnapshotKeepsIInv
    <2>2. CASE ReadBlockhash(c) \/ ReadHeight(c) \/ ReadStatus(c) \/ VerifyMint(c)
      BY <2>2, ReadsKeepIInv
    <2>3. CASE CheckAfterSign(c) \/ SubmitHeight(c) \/ SendRefused(c) \/ SendHeld(c)
      BY <2>3, CheckAfterSignKeepsIInv, SubmitKeepsIInv, SendHeldKeepsIInv
    <2>4. CASE ReadMetadata(c) \/ ArmSession(c) \/ ClaimStale(c) \/ ClaimUpdated(c)
      BY <2>4, MetadataKeepsIInv, ArmKeepsIInv, ClaimKeepsIInv
    <2> QED
      BY <1>7, <2>1, <2>2, <2>3, <2>4, OrphanKeepsIInv DEF Answers
  <1>8. ASSUME NEW c \in calls,
               CallFails(c) \/ ConnectAnswered(c) \/ WalletSigns(c) \/ WalletSends(c)
        PROVE  IInv'
    BY <1>8, FailKeepsIInv, AnswerKeepsIInv, ReadsKeepIInv, WalletSendsKeepsIInv
  <1>9. CASE Watches \/ WatchFails
    BY <1>9, WatchKeepsIInv, WatchFailsKeepsIInv DEF Watches
  <1> QED
    BY <1>1, <1>2, <1>3, <1>4, <1>5, <1>6, <1>7, <1>8, <1>9 DEF Next

LEMMA Invariance == Spec => []IInv
  <1>1. Init => IInv
    BY InitIInv
  <1>2. IInv /\ [Next]_vars => IInv'
    BY NextIInv
  <1> QED
    BY <1>1, <1>2, PTL DEF Spec

\* The live page: for any number of attempts at once, mixed up as its calls may mix
\* them up, the held bytes execute at the multiplier before the action or not at
\* all, and the updated transfer at the one its own scenario brings.
THEOREM LiveReviewedExecution == Spec => []ExecutesAsReviewed
  <1>1. IInv => ExecutesAsReviewed
    <2> SUFFICES ASSUME IInv, NEW i \in DOMAIN sent, sent[i].outcome = "Executed"
                 PROVE  CASE sent[i].kind = "authorize" -> sent[i].multiplier = InitialMultiplier
                          [] sent[i].kind = "confirm"   -> sent[i].multiplier = sent[i].note
                          [] OTHER                      -> TRUE
      BY DEF ExecutesAsReviewed
    <2>1. TxFits(i)
      BY DEF IInv
    <2> QED
      BY <2>1 DEF TxFits
  <1> QED
    BY <1>1, Invariance, PTL
-------------------------------------------------------------------------------\* Attempts overlap, but the authorization of each is in one place at a time: on its
\* way from the preparation to the network, handed over, or given up.

Carries(c, a) ==
    \/ c.kind \in {"prepare", "authorize"} /\ c.attempt = a
    \/ c.kind = "submit" /\ c.pc \in {"height", "send"} /\ c.held.attempt = a

Carriers(a) == {c \in calls : Carries(c, a)}

Offered(a) == phase = "armed" /\ session # None /\ session.attempt = a

Kept(a) == held # None /\ held.attempt = a /\ ~submitStarted

Handed(a) == Transactions("authorize", a)

GivenUp(a) == [attempt |-> a, by |-> "submit"] \in expired

InOnePlace(a) ==
    /\ \A c, d \in Carriers(a) : c = d
    /\ Carriers(a) # {} => ~Offered(a) /\ ~Kept(a) /\ Handed(a) = {} /\ ~GivenUp(a)
    /\ Offered(a) => ~Kept(a) /\ Handed(a) = {} /\ ~GivenUp(a)
    /\ Kept(a) => Handed(a) = {} /\ ~GivenUp(a)
    /\ GivenUp(a) => Handed(a) = {}
    /\ \A i, j \in Handed(a) : i = j

Refusals == {i \in HeldSubmissions : sent[i].outcome = "ActivationPhaseChanged"}

\* What the final phases have behind them.
Results ==
    /\ phase = "protected" => Refusals # {}
    /\ phase = "executed" => updated # None

Orderly ==
    /\ \A a \in Attempts : InOnePlace(a)
    /\ Results

LEMMA InitOrderly == Init => Orderly
  <1> SUFFICES ASSUME Init PROVE Orderly
    OBVIOUS
  <1>1. DOMAIN sent = {} /\ calls = {} /\ phase = "ready" /\ held = None /\ expired = {}
    BY DEF Init, ChainInit
  <1> QED
    BY <1>1 DEF Orderly, InOnePlace, Results, Carriers, Offered, Kept, Handed, GivenUp,
       Transactions

\* Nothing more was handed over, and what the network refused stays refused.
NetworkKept ==
    /\ \A a \in Attempts : Handed(a)' = Handed(a)
    /\ Refusals \subseteq Refusals'

LEMMA SentKept ==
    ASSUME UNCHANGED sent
    PROVE  NetworkKept
  BY DEF NetworkKept, Handed, Transactions, Refusals, HeldSubmissions

\* A step that is not a render: what a call carries stays with it or is lost.
LEMMA MoveKeepsPlace ==
    ASSUME NEW a, InOnePlace(a), UNCHANGED <<phase, session, held, submitStarted, expired>>,
           Handed(a)' = Handed(a),
           \/ Carriers(a)' \subseteq Carriers(a)
           \/ \E c \in Carriers(a), d \in calls' :
                Carriers(a)' \subseteq (Carriers(a) \ {c}) \cup {d}
    PROVE  InOnePlace(a)'
  <1>1. Offered(a)' = Offered(a) /\ Kept(a)' = Kept(a) /\ GivenUp(a)' = GivenUp(a)
    BY DEF Offered, Kept, GivenUp
  <1>2. (\A c, d \in Carriers(a)' : c = d) /\ (Carriers(a)' # {} => Carriers(a) # {})
    BY DEF InOnePlace
  <1> QED
    BY <1>1, <1>2 DEF InOnePlace

LEMMA ResultsKept ==
    ASSUME Results, NetworkKept,
           \/ phase' = phase /\ updated' = updated
           \/ phase' \notin {"protected", "executed"}
    PROVE  Results'
  BY DEF Results, NetworkKept

LEMMA ProceedKeeps ==
    ASSUME IInv, Orderly, NEW rest, Proceed(rest), UNCHANGED <<expired, updated>>, NetworkKept,
           \A c \in rest : c \in calls \/ \A a \in Attempts : ~Carries(c, a)
    PROVE  Orderly'
  <1>1. UNCHANGED <<phase, session, held, submitStarted>> /\ calls' = rest
    BY DEF Proceed
  <1>2. ASSUME NEW a \in Attempts PROVE InOnePlace(a)'
    <2>1. Carriers(a)' \subseteq Carriers(a)
      BY <1>1 DEF Carriers, Carries
    <2> QED
      BY <1>1, <2>1, MoveKeepsPlace DEF Orderly, NetworkKept
  <1> QED
    BY <1>1, <1>2, ResultsKept DEF Orderly

LEMMA LocalKeeps ==
    ASSUME IInv, Orderly, NEW c \in calls, NEW next, Local(c, next),
           UNCHANGED <<expired, updated>>, NetworkKept,
           \A a \in Attempts : Carries(next, a) => Carries(c, a)
    PROVE  Orderly'
  <1>1. UNCHANGED <<phase, session, held, submitStarted>> /\ calls' = (calls \ {c}) \cup {next}
    BY DEF Local, Proceed
  <1>2. ASSUME NEW a \in Attempts PROVE InOnePlace(a)'
    <2>1. Carriers(a)' = {d \in calls' : Carries(d, a)}
      BY DEF Carriers, Carries
    <2>2. CASE Carries(c, a)
      <3>1. c \in Carriers(a) /\ next \in calls'
        BY <1>1, <2>2 DEF Carriers
      <3>2. Carriers(a)' \subseteq (Carriers(a) \ {c}) \cup {next}
        BY <1>1, <2>1 DEF Carriers
      <3> QED
        BY <1>1, <3>1, <3>2, MoveKeepsPlace DEF Orderly, NetworkKept
    <2>3. CASE ~Carries(c, a)
      <3>1. Carriers(a)' \subseteq Carriers(a)
        BY <1>1, <2>1, <2>3 DEF Carriers
      <3> QED
        BY <1>1, <3>1, MoveKeepsPlace DEF Orderly, NetworkKept
    <2> QED
      BY <2>2, <2>3
  <1> QED
    BY <1>1, <1>2, ResultsKept DEF Orderly
-------------------------------------------------------------------------------
\* Renders.

LEMMA RenderedCalls ==
    ASSUME NEW rest, NEW polls, NEW started, NEW p, NEW s, NEW h,
           SetState(rest, polls, started, p, s, h)
    PROVE  /\ phase' = p /\ session' = s /\ held' = h
           /\ started => submitStarted'
           /\ p # "activating" \/ (p = phase /\ s = session /\ h = held) =>
                calls' \subseteq rest \cup Orphaned(polls)
           /\ p = phase /\ s = session /\ h = held => calls' = rest
  BY DEF SetState

\* A poll that goes on by itself only knows of the bytes.
LEMMA OrphanedCarries ==
    ASSUME NEW polls, NEW c \in Orphaned(polls), NEW a
    PROVE  ~Carries(c, a)
  <1>1. PICK w \in polls :
          c = [NewCall("poll", "height", None, w.attempt, None) EXCEPT
                 !.held = w.held, !.ready = w.ready]
    BY DEF Orphaned
  <1>2. c.kind = "poll"
    BY <1>1, NewCallType DEF CallFields
  <1> QED
    BY <1>2 DEF Carries

\* A render that offers, holds and submits nothing.
LEMMA RenderKeeps ==
    ASSUME IInv, Orderly, NEW rest, NEW polls, NEW started, NEW p, NEW s, NEW h,
           SetState(rest, polls, started, p, s, h),
           p \notin {"armed", "activating"},
           h = None \/ (h = held /\ started = submitStarted),
           \A c \in rest : c \in calls \/ \A a \in Attempts : ~Carries(c, a),
           NetworkKept, expired' = expired,
           p = "protected" => Refusals # {},
           p = "executed" => updated' # None
    PROVE  Orderly'
  <1>1. /\ phase' = p /\ session' = s /\ held' = h /\ (started => submitStarted')
        /\ calls' \subseteq rest \cup Orphaned(polls)
    BY RenderedCalls
  <1>2. ASSUME NEW a \in Attempts PROVE InOnePlace(a)'
    <2>1. Carriers(a)' \subseteq Carriers(a)
      BY <1>1, OrphanedCarries DEF Carriers, Carries
    <2>2. ~Offered(a)' /\ (Kept(a)' => Kept(a)) /\ GivenUp(a)' = GivenUp(a)
      BY <1>1 DEF Offered, Kept, GivenUp
    <2> QED
      BY <2>1, <2>2 DEF Orderly, NetworkKept, InOnePlace
  <1>3. Results'
    BY <1>1 DEF Results, NetworkKept
  <1> QED
    BY <1>2, <1>3 DEF Orderly

\* The phases that offer, submit and claim nothing.
Passive == {"ready", "preparing", "signing", "updating", "missed", "elapsed", "expired", "failed"}

LEMMA PhaseKeeps ==
    ASSUME IInv, Orderly, NEW rest, NEW polls, NEW p \in Passive, SetPhase(rest, polls, p),
           NetworkKept, expired' = expired,
           \A c \in rest : c \in calls \/ \A a \in Attempts : ~Carries(c, a)
    PROVE  Orderly'
  <1>1. SetState(rest, polls, submitStarted, p, session, held)
    BY DEF SetPhase
  <1> QED
    BY <1>1, RenderKeeps DEF Passive

LEMMA OthersStay == UNCHANGED others => UNCHANGED <<sent, expired, updated>>
  BY DEF others, shown

\* The steps of a call that wait for nothing but their own read.
LEMMA StepKeeps ==
    ASSUME IInv, Orderly, NEW c \in calls, UNCHANGED <<expired, updated>>, NetworkKept,
           \/ \E p \in Passive : SetPhase(calls \ {c}, watch, p)
           \/ \E next : /\ Local(c, next)
                        /\ next.kind = c.kind /\ next.attempt = c.attempt /\ next.held = c.held
                        /\ c.kind = "submit" /\ next.pc \in {"height", "send"} =>
                             c.pc \in {"height", "send"}
    PROVE  Orderly'
  <1>1. CASE \E p \in Passive : SetPhase(calls \ {c}, watch, p)
    BY <1>1, PhaseKeeps
  <1>2. ASSUME NEW next, Local(c, next),
               next.kind = c.kind, next.attempt = c.attempt, next.held = c.held,
               c.kind = "submit" /\ next.pc \in {"height", "send"} => c.pc \in {"height", "send"}
        PROVE  Orderly'
    <2>1. \A a \in Attempts : Carries(next, a) => Carries(c, a)
      BY <1>2 DEF Carries
    <2> QED
      BY <1>2, <2>1, LocalKeeps
  <1> QED
    BY <1>1, <1>2

LEMMA ReadsKeep ==
    ASSUME IInv, Orderly, NEW c \in calls,
           \/ ReadClock(c) \/ ReadBefore(c) \/ ReadSnapshot(c) \/ ReadBlockhash(c) \/ ReadHeight(c)
           \/ WalletSigns(c) \/ ReadStatus(c) \/ VerifyMint(c) \/ CallFails(c) \/ ReadMetadata(c)
    PROVE  Orderly'
  <1>1. /\ DOMAIN c = CallFields /\ c.pc \in Steps(c.kind)
        /\ UNCHANGED <<sent, expired, updated>>
    BY CallFacts DEF ReadClock, ReadBefore, ReadSnapshot, ReadBlockhash, ReadHeight, WalletSigns,
       ReadStatus, VerifyMint, CallFails, ReadMetadata, others, shown
  <1>2. NetworkKept
    BY <1>1, SentKept
  <1> DEFINE Same(next) == next.kind = c.kind /\ next.attempt = c.attempt /\ next.held = c.held
  <1>3. CASE ReadClock(c)
    <2>1. PICK next : next = [c EXCEPT !.pc = "blockhash", !.action.T = ActivationTimestamp(clock)]
      OBVIOUS
    <2>2. Local(c, next) /\ Same(next) /\ next.pc = "blockhash"
      BY <1>1, <1>3, <2>1 DEF ReadClock, CallFields
    <2> QED
      BY <1>1, <1>2, <2>2, StepKeeps
  <1>4. CASE ReadBefore(c)
    <2>1. PICK next : next = [c EXCEPT !.pc = "snapshot", !.before = balances[c.attempt]]
      OBVIOUS
    <2>2. Local(c, next) /\ Same(next) /\ next.pc = "snapshot"
      BY <1>1, <1>4, <2>1 DEF ReadBefore, CallFields
    <2> QED
      BY <1>1, <1>2, <2>2, StepKeeps
  <1>5. CASE ReadSnapshot(c)
    <2>1. PICK sign, build : /\ sign = [c EXCEPT !.pc = "sign"]
                             /\ build = [c EXCEPT !.pc = "blockhash",
                                                  !.snapshot = SnapshotOf(c.attempt)]
      OBVIOUS
    <2>2. \/ Local(c, sign) \/ Local(c, build)
          \/ SetPhase(calls \ {c}, watch, "missed") \/ SetPhase(calls \ {c}, watch, "failed")
      BY <1>5, <2>1 DEF ReadSnapshot
    <2>3. Same(sign) /\ sign.pc = "sign" /\ Same(build) /\ build.pc = "blockhash"
      BY <1>1, <2>1 DEF CallFields
    <2> QED
      BY <1>1, <1>2, <2>2, <2>3, StepKeeps DEF Passive
  <1>6. CASE ReadBlockhash(c)
    <2>1. PICK next : next = [c EXCEPT !.pc = "height", !.lastValid = height + BlockhashLife]
      OBVIOUS
    <2>2. Local(c, next) /\ Same(next) /\ c.kind # "submit"
      BY <1>1, <1>6, <2>1 DEF ReadBlockhash, CallFields, Steps
    <2> QED
      BY <1>1, <1>2, <2>2, StepKeeps
  <1>7. CASE ReadHeight(c)
    <2>1. PICK next, pc : /\ next = [c EXCEPT !.pc = pc]
                          /\ pc = IF c.kind = "prepare" THEN "sign" ELSE "again"
      OBVIOUS
    <2>2. \/ Local(c, next)
          \/ SetPhase(calls \ {c}, watch, "missed") \/ SetPhase(calls \ {c}, watch, "failed")
      BY <1>7, <2>1 DEF ReadHeight
    <2>3. Same(next) /\ c.kind # "submit"
      BY <1>1, <1>7, <2>1 DEF ReadHeight, CallFields
    <2> QED
      BY <1>1, <1>2, <2>2, <2>3, StepKeeps DEF Passive
  <1>8. CASE WalletSigns(c)
    <2>1. PICK prefix : Local(c, [c EXCEPT !.pc = "afterSign", !.prefix = prefix])
      BY <1>8 DEF WalletSigns
    <2>2. PICK next : next = [c EXCEPT !.pc = "afterSign", !.prefix = prefix]
      OBVIOUS
    <2>3. Local(c, next) /\ Same(next) /\ next.pc = "afterSign"
      BY <1>1, <2>1, <2>2 DEF CallFields
    <2> QED
      BY <1>1, <1>2, <2>3, StepKeeps
  <1>9. CASE ReadStatus(c)
    <2> DEFINE polls == c.polls + 1
               pc == IF polls < MaxPolls THEN "status" ELSE "metadata"
    <2>1. PICK confirmed, waiting : /\ confirmed = [c EXCEPT !.pc = "metadata"]
                                    /\ waiting = [c EXCEPT !.polls = polls, !.pc = pc]
      OBVIOUS
    <2>2. Local(c, confirmed) \/ Local(c, waiting)
      BY <1>9, <2>1 DEF ReadStatus
    <2>3. pc \in {"status", "metadata"}
      OBVIOUS
    <2> HIDE DEF polls, pc
    <2>4. /\ Same(confirmed) /\ confirmed.pc = "metadata"
          /\ Same(waiting) /\ waiting.pc = pc
      BY <1>1, <2>1 DEF CallFields
    <2> QED
      BY <1>1, <1>2, <2>2, <2>3, <2>4, StepKeeps
  <1>10. CASE VerifyMint(c)
    <2>1. PICK next : next = [c EXCEPT !.pc = "balances"]
      OBVIOUS
    <2>2. Local(c, next) \/ SetPhase(calls \ {c}, watch, "failed")
      BY <1>10, <2>1 DEF VerifyMint
    <2>3. Same(next) /\ next.pc = "balances"
      BY <1>1, <2>1 DEF CallFields
    <2> QED
      BY <1>1, <1>2, <2>2, <2>3, StepKeeps DEF Passive
  <1>11. CASE CallFails(c)
    <2>1. Proceed(calls \ {c}) \/ SetPhase(calls \ {c}, watch, "failed")
      BY <1>11 DEF CallFails
    <2> QED
      BY <1>1, <1>2, <2>1, ProceedKeeps, PhaseKeeps DEF Passive
  <1>12. CASE ReadMetadata(c)
    <2>1. PICK next, pc : /\ next = [c EXCEPT !.pc = pc]
                          /\ pc = IF c.kind = "prepare" THEN "verify" ELSE "after"
      OBVIOUS
    <2>2. Local(c, next) \/ SetPhase(calls \ {c}, watch, "failed")
      BY <1>12, <2>1 DEF ReadMetadata
    <2>3. Same(next) /\ next.pc \in {"verify", "after"}
      BY <1>1, <2>1 DEF CallFields
    <2> QED
      BY <1>1, <1>2, <2>2, <2>3, StepKeeps DEF Passive
  <1> QED
    BY <1>3, <1>4, <1>5, <1>6, <1>7, <1>8, <1>9, <1>10, <1>11, <1>12
-------------------------------------------------------------------------------
\* While a call carries it, it is nowhere else.
LEMMA NowhereElse ==
    ASSUME NEW a, InOnePlace(a), NEW c \in calls, Carries(c, a)
    PROVE  Carriers(a) = {c} /\ ~Offered(a) /\ ~Kept(a) /\ Handed(a) = {} /\ ~GivenUp(a)
  BY DEF InOnePlace, Carriers

\* A click that starts a call: the call carries what nothing else does.
LEMMA StartKeepsPlace ==
    ASSUME NEW a \in Attempts, InOnePlace(a), NEW new, NEW p, p \notin {"armed", "activating"},
           SetPhase(calls \cup {new}, watch, p), UNCHANGED <<sent, expired>>,
           Carries(new, a) => Carriers(a) = {} /\ ~Kept(a) /\ Handed(a) = {} /\ ~GivenUp(a)
    PROVE  InOnePlace(a)'
  <1>1. /\ phase' = p /\ held' = held /\ (submitStarted => submitStarted')
        /\ calls' \subseteq calls \cup {new} \cup Orphaned(watch)
    BY RenderedCalls DEF SetPhase
  <1>2. ~Offered(a)' /\ (Kept(a)' => Kept(a)) /\ GivenUp(a)' = GivenUp(a)
    BY <1>1 DEF Offered, Kept, GivenUp
  <1>3. Handed(a)' = Handed(a)
    BY SentKept DEF NetworkKept
  <1>4. \A c \in Carriers(a)' : c \in Carriers(a) \/ (c = new /\ Carries(new, a))
    BY <1>1, OrphanedCarries DEF Carriers, Carries
  <1> QED
    BY <1>2, <1>3, <1>4 DEF InOnePlace

LEMMA ClickPrepareKeeps ==
    ASSUME IInv, Orderly, ClickPrepare
    PROVE  Orderly'
  <1>1. PICK n \in Attempts :
          /\ Unused(n)
          /\ SetPhase(calls \cup {NewCall("prepare", "clock", wallet, n, StartAttempt)}, watch,
                      "preparing")
    BY DEF ClickPrepare
  <1>2. PICK new : new = NewCall("prepare", "clock", wallet, n, StartAttempt)
    OBVIOUS
  <1>3. new.kind = "prepare" /\ new.attempt = n
    BY <1>2, NewCallType
  <1>4. SetPhase(calls \cup {new}, watch, "preparing") /\ UNCHANGED <<sent, expired>>
    BY <1>1, <1>2 DEF ClickPrepare
  <1>5. Carriers(n) = {} /\ ~Kept(n) /\ Handed(n) = {} /\ ~GivenUp(n)
    <2>1. \A c \in calls : ~Carries(c, n)
      BY <1>1 DEF Unused, Carries
    <2>2. ~Kept(n)
      BY <1>1 DEF Unused, Kept
    <2>3. ~GivenUp(n)
      BY <1>1 DEF Unused, GivenUp
    <2>4. Handed(n) = {}
      BY <1>1 DEF Unused, Handed, Transactions
    <2> QED
      BY <2>1, <2>2, <2>3, <2>4 DEF Carriers
  <1>6. ASSUME NEW a \in Attempts PROVE InOnePlace(a)'
    <2>1. Carries(new, a) => a = n
      BY <1>3 DEF Carries
    <2> QED
      BY <1>4, <1>5, <2>1, StartKeepsPlace DEF Orderly
  <1>7. Results'
    <2>1. phase' = "preparing"
      BY <1>4, RenderedCalls DEF SetPhase
    <2> QED
      BY <1>4, <2>1, SentKept, ResultsKept DEF Orderly
  <1> QED
    BY <1>6, <1>7 DEF Orderly

LEMMA ClickAuthorizeKeeps ==
    ASSUME IInv, Orderly, ClickAuthorize
    PROVE  Orderly'
  <1>1. PICK new : new = NewCall("authorize", "snapshot", wallet, session.attempt, session.action)
    OBVIOUS
  <1>2. new.kind = "authorize" /\ new.attempt = session.attempt
    BY <1>1, NewCallType
  <1>3. SetPhase(calls \cup {new}, watch, "signing") /\ UNCHANGED <<sent, expired>>
    BY <1>1 DEF ClickAuthorize
  <1>4. ASSUME NEW a \in Attempts PROVE InOnePlace(a)'
    <2>1. Carries(new, a) => Offered(a)
      BY <1>2 DEF Carries, Offered, ClickAuthorize
    <2>2. Offered(a) => Carriers(a) = {} /\ ~Kept(a) /\ Handed(a) = {} /\ ~GivenUp(a)
      BY DEF Orderly, InOnePlace
    <2> QED
      BY <1>3, <2>1, <2>2, StartKeepsPlace DEF Orderly
  <1>5. Results'
    <2>1. phase' = "signing"
      BY <1>3, RenderedCalls DEF SetPhase
    <2> QED
      BY <1>3, <2>1, SentKept, ResultsKept DEF Orderly
  <1> QED
    BY <1>4, <1>5 DEF Orderly

LEMMA ClickKeeps ==
    ASSUME IInv, Orderly, ClickConfirm \/ ClickReset \/ ClickConnect \/ SelectScenario
    PROVE  Orderly'
  <1>1. UNCHANGED <<sent, expired>>
    BY DEF ClickConfirm, ClickReset, ClickConnect, SelectScenario
  <1>2. NetworkKept
    BY <1>1, SentKept
  <1>3. CASE ClickConfirm
    <2>1. PICK new : new = NewCall("confirm", "before", wallet, session.attempt, session.action)
      OBVIOUS
    <2>2. SetPhase(calls \cup {new}, watch, "updating")
      BY <1>3, <2>1 DEF ClickConfirm
    <2>3. new.kind = "confirm"
      BY <2>1, NewCallType
    <2>4. \A a \in Attempts : ~Carries(new, a)
      BY <2>3 DEF Carries
    <2> QED
      BY <1>1, <1>2, <2>2, <2>4, PhaseKeeps DEF Passive
  <1>4. CASE ClickReset
    <2>1. PICK started : SetState(calls, watch, started, "ready", None, None)
      BY <1>4 DEF ClickReset
    <2> QED
      BY <1>1, <1>2, <2>1, RenderKeeps
  <1>5. CASE ClickConnect
    <2>1. PICK sawFailed :
            \/ SetPhase(calls, watch, "failed")
            \/ Proceed(calls \cup {[NewCall("connect", "connect", None, None, None) EXCEPT
                                      !.sawFailed = sawFailed]})
      BY <1>5 DEF ClickConnect
    <2>2. PICK new : new = [NewCall("connect", "connect", None, None, None) EXCEPT
                              !.sawFailed = sawFailed]
      OBVIOUS
    <2>3. new.kind = "connect"
      BY <2>2, NewCallType DEF CallFields
    <2>4. \A a \in Attempts : ~Carries(new, a)
      BY <2>3 DEF Carries
    <2>5. SetPhase(calls, watch, "failed") \/ Proceed(calls \cup {new})
      BY <2>1, <2>2
    <2>6. updated' = updated
      BY <1>5 DEF ClickConnect, shown
    <2> QED
      BY <1>1, <1>2, <2>4, <2>5, <2>6, PhaseKeeps, ProceedKeeps DEF Passive
  <1>6. CASE SelectScenario
    <2>1. Proceed(calls) /\ updated' = updated
      BY <1>6 DEF SelectScenario, Proceed, shown
    <2> QED
      BY <1>1, <1>2, <2>1, ProceedKeeps
  <1> QED
    BY <1>3, <1>4, <1>5, <1>6

LEMMA AnswerKeeps ==
    ASSUME IInv, Orderly, NEW c \in calls, ConnectAnswered(c)
    PROVE  Orderly'
  <1>1. UNCHANGED <<sent, expired, updated>>
    BY DEF ConnectAnswered, shown
  <1>2. NetworkKept
    BY <1>1, SentKept
  <1>3. CASE SetPhase(calls \ {c}, watch, "ready")
    BY <1>1, <1>2, <1>3, PhaseKeeps DEF Passive
  <1>4. CASE SetPhase(calls \ {c}, watch, phase)
    <2>1. /\ UNCHANGED <<phase, session, held>> /\ (submitStarted => submitStarted')
          /\ calls' = calls \ {c}
      BY <1>4, RenderedCalls DEF SetPhase
    <2>2. ASSUME NEW a \in Attempts PROVE InOnePlace(a)'
      <3>1. /\ Offered(a)' = Offered(a) /\ (Kept(a)' => Kept(a)) /\ GivenUp(a)' = GivenUp(a)
            /\ Carriers(a)' \subseteq Carriers(a)
        BY <1>1, <2>1 DEF Offered, Kept, GivenUp, Carriers, Carries
      <3> QED
        BY <1>2, <3>1 DEF Orderly, InOnePlace, NetworkKept
    <2> QED
      BY <1>1, <1>2, <2>1, <2>2, ResultsKept DEF Orderly
  <1> QED
    BY <1>3, <1>4 DEF ConnectAnswered

LEMMA ChainKeeps ==
    ASSUME IInv, Orderly,
           \/ ChainAdvances \/ \E a \in Attempts : MintRewritten(a)
           \/ \E i \in DOMAIN sent : Lands(i)
    PROVE  Orderly'
  <1>1. Proceed(calls) /\ UNCHANGED <<expired, updated>>
    BY DEF ChainAdvances, MintRewritten, Lands, page, shown, Proceed
  <1>2. CASE ChainAdvances \/ \E a \in Attempts : MintRewritten(a)
    <2>1. UNCHANGED sent
      BY <1>2 DEF ChainAdvances, BlockProduced, MintRewritten, Rewritten
    <2> QED
      BY <1>1, <2>1, SentKept, ProceedKeeps
  <1>3. ASSUME NEW i \in DOMAIN sent, Lands(i) PROVE Orderly'
    <2>1. /\ DOMAIN sent' = DOMAIN sent /\ sent[i].outcome = None
          /\ \A j \in DOMAIN sent \ {i} : sent'[j] = sent[j]
          /\ sent'[i].kind = sent[i].kind /\ sent'[i].attempt = sent[i].attempt
      BY <1>3, Decided DEF TxFields
    <2>2. \A a \in Attempts : Handed(a)' = Handed(a)
      BY <2>1 DEF Handed, Transactions
    <2>3. Refusals \subseteq Refusals'
      BY <2>1, DemoChainConstants DEF Refusals, HeldSubmissions
    <2> QED
      BY <1>1, <2>2, <2>3, ProceedKeeps DEF NetworkKept
  <1> QED
    BY <1>2, <1>3
-------------------------------------------------------------------------------
\* Submissions and results.

\* A transaction is appended.
LEMMA Appended ==
    ASSUME IInv, NEW tx, Broadcast(tx)
    PROVE  /\ DOMAIN sent' = DOMAIN sent \cup {Len(sent) + 1}
           /\ Len(sent) + 1 \notin DOMAIN sent
           /\ \A i \in DOMAIN sent : sent'[i] = sent[i]
           /\ sent'[Len(sent) + 1] = tx
           /\ Refusals \subseteq Refusals'
           /\ \A a \in Attempts : tx.kind # "authorize" \/ tx.attempt # a => Handed(a)' = Handed(a)
  <1>1. /\ DOMAIN sent' = DOMAIN sent \cup {Len(sent) + 1}
        /\ \A i \in DOMAIN sent : sent'[i] = sent[i]
        /\ sent'[Len(sent) + 1] = tx
    BY AppendTransaction DEF IInv, Shape, Broadcast
  <1>2. Len(sent) + 1 \notin DOMAIN sent
    BY SequenceDomain DEF IInv, Shape
  <1>3. Refusals \subseteq Refusals'
    BY <1>1 DEF Refusals, HeldSubmissions
  <1>4. ASSUME NEW a \in Attempts, tx.kind # "authorize" \/ tx.attempt # a
        PROVE  Handed(a)' = Handed(a)
    BY <1>1, <1>2, <1>4 DEF Handed, Transactions
  <1> QED
    BY <1>1, <1>2, <1>3, <1>4

LEMMA WalletSendsKeeps ==
    ASSUME IInv, Orderly, NEW c \in calls, WalletSends(c)
    PROVE  Orderly'
  <1>1. /\ DOMAIN c = CallFields /\ c.kind \in {"prepare", "confirm"}
        /\ UNCHANGED <<expired, updated>>
    BY CallFacts DEF WalletSends, shown
  <1>2. PICK tx : /\ Broadcast(tx)
                  /\ \E setup, expectation, note :
                       tx = DemoTransaction(c.kind, c.attempt, setup, c.wallet, c.lastValid, 0,
                                            expectation, note)
    BY DEF WalletSends
  <1>3. tx.kind = c.kind
    BY <1>2, DemoTransactionType
  <1>4. NetworkKept
    BY <1>1, <1>2, <1>3, Appended DEF NetworkKept
  <1>5. PICK next : next = [c EXCEPT !.pc = "status", !.tx = Len(sent) + 1]
    OBVIOUS
  <1>6. next.kind = c.kind /\ next.attempt = c.attempt /\ next.held = c.held
    BY <1>1, <1>5 DEF CallFields
  <1>7. Local(c, next) \/ SetPhase(calls \ {c}, watch, "failed")
    BY <1>5 DEF WalletSends
  <1> QED
    BY <1>1, <1>4, <1>6, <1>7, StepKeeps DEF Passive

\* The held bytes are handed to the network, and no call carries them any more.
LEMMA SendHeldKeeps ==
    ASSUME IInv, Orderly, NEW c \in calls, SendHeld(c)
    PROVE  Orderly'
  <1>1. /\ DOMAIN c = CallFields /\ c.pc = "send" /\ c.kind = "submit"
        /\ UNCHANGED <<expired, updated>>
    BY CallFacts DEF SendHeld, Steps, shown
  <1>2. PICK tx : /\ Broadcast(tx)
                  /\ tx = DemoTransaction("authorize", c.held.attempt, <<>>, c.held.wallet,
                                          c.held.lastValid, c.held.guardInstructionIndex,
                                          c.held.expectation, None)
    BY DEF SendHeld
  <1>3. tx.kind = "authorize" /\ tx.attempt = c.held.attempt
    BY <1>2, DemoTransactionType
  <1>4. PICK next : next = [c EXCEPT !.pc = "status", !.tx = Len(sent) + 1]
    OBVIOUS
  <1>5. next.kind = "submit" /\ next.pc = "status"
    BY <1>1, <1>4 DEF CallFields
  <1>6. Local(c, next) \/ SetPhase(calls \ {c}, watch, "failed")
    BY <1>4 DEF SendHeld
  <1>7. /\ held' = held /\ (submitStarted => submitStarted')
        /\ (phase' = phase /\ session' = session) \/ phase' = "failed"
        /\ calls' \subseteq (calls \ {c}) \cup {next} \cup Orphaned(watch)
    <2>1. CASE Local(c, next)
      BY <2>1 DEF Local, Proceed
    <2>2. CASE SetPhase(calls \ {c}, watch, "failed")
      BY <2>2, RenderedCalls DEF SetPhase
    <2> QED
      BY <1>6, <2>1, <2>2
  <1>8. ASSUME NEW a \in Attempts PROVE InOnePlace(a)'
    <2>1. /\ (Offered(a)' => Offered(a)) /\ (Kept(a)' => Kept(a)) /\ GivenUp(a)' = GivenUp(a)
      BY <1>1, <1>7 DEF Offered, Kept, GivenUp
    <2>2. Carriers(a)' \subseteq Carriers(a) \ {c}
      BY <1>5, <1>7, OrphanedCarries DEF Carriers, Carries
    <2>3. CASE c.held.attempt = a
      <3>1. Carries(c, a)
        BY <1>1, <2>3 DEF Carries
      <3>2. Carriers(a) = {c} /\ ~Offered(a) /\ ~Kept(a) /\ Handed(a) = {} /\ ~GivenUp(a)
        BY <3>1, NowhereElse DEF Orderly
      <3>3. \A i \in Handed(a)' : i = Len(sent) + 1
        <4>1. \A i \in DOMAIN sent : i \notin Handed(a)'
          BY <1>2, <3>2, Appended DEF Handed, Transactions
        <4> QED
          BY <1>2, <4>1, Appended DEF Handed, Transactions
      <3> QED
        BY <2>1, <2>2, <3>2, <3>3 DEF InOnePlace
    <2>4. CASE c.held.attempt # a
      <3>1. Handed(a)' = Handed(a)
        BY <1>2, <1>3, <2>4, Appended
      <3> QED
        BY <2>1, <2>2, <3>1 DEF Orderly, InOnePlace
    <2> QED
      BY <2>3, <2>4
  <1>9. Results'
    <2>1. Refusals \subseteq Refusals'
      BY <1>2, Appended
    <2> QED
      BY <1>1, <1>7, <2>1 DEF Orderly, Results
  <1> QED
    BY <1>8, <1>9 DEF Orderly

\* What a call carried goes to the page, to be offered or kept.
LEMMA HoldKeeps ==
    ASSUME IInv, Orderly, NEW c \in calls, CheckAfterSign(c) \/ ArmSession(c)
    PROVE  Orderly'
  <1>1. /\ UNCHANGED <<sent, expired, updated>> /\ c.pc \in Steps(c.kind)
        /\ c.pc \in {"afterSign", "balances"}
    BY CallFacts DEF CheckAfterSign, ArmSession, others, shown
  <1>2. Carries(c, c.attempt) /\ \A a \in Attempts : Carries(c, a) => a = c.attempt
    BY <1>1 DEF Steps, Carries
  <1>3. NetworkKept
    BY <1>1, SentKept
  <1>4. CASE SetPhase(calls \ {c}, watch, "elapsed")
    BY <1>1, <1>3, <1>4, PhaseKeeps DEF Passive
  <1>5. ASSUME NEW p \in {"locked", "armed"}, NEW s, NEW h,
               SetState(calls \ {c}, watch, submitStarted, p, s, h),
               p = "armed" => h = held /\ s.attempt = c.attempt,
               p = "locked" => h.attempt = c.attempt
        PROVE  Orderly'
    <2>1. /\ phase' = p /\ session' = s /\ held' = h /\ (submitStarted => submitStarted')
          /\ calls' \subseteq (calls \ {c}) \cup Orphaned(watch)
      BY <1>5, RenderedCalls
    <2>2. ASSUME NEW a \in Attempts PROVE InOnePlace(a)'
      <3>1. Carriers(a)' \subseteq Carriers(a) \ {c}
        BY <2>1, OrphanedCarries DEF Carriers, Carries
      <3>2. GivenUp(a)' = GivenUp(a) /\ Handed(a)' = Handed(a)
        BY <1>1, <1>3 DEF GivenUp, NetworkKept
      <3>3. CASE a = c.attempt
        <4>1. Carriers(a) = {c} /\ ~Offered(a) /\ ~Kept(a) /\ Handed(a) = {} /\ ~GivenUp(a)
          BY <1>2, <3>3, NowhereElse DEF Orderly
        <4>2. ~(Offered(a)' /\ Kept(a)')
          BY <1>5, <2>1, <4>1 DEF Offered, Kept
        <4> QED
          BY <3>1, <3>2, <4>1, <4>2 DEF InOnePlace
      <3>4. CASE a # c.attempt
        <4>1. ~Offered(a)' /\ (Kept(a)' => Kept(a))
          BY <1>5, <2>1, <3>4 DEF Offered, Kept
        <4> QED
          BY <3>1, <3>2, <4>1 DEF Orderly, InOnePlace
      <3> QED
        BY <3>3, <3>4
    <2> QED
      BY <1>3, <2>1, <2>2, ResultsKept DEF Orderly
  <1>6. CASE /\ c.pc = "afterSign"
             /\ SetState(calls \ {c}, watch, submitStarted, "locked", session,
                         Seal(c, Expectation(c)))
    <2>1. PICK h : h = Seal(c, Expectation(c))
      OBVIOUS
    <2>2. h.attempt = c.attempt
      BY <2>1 DEF Seal
    <2> QED
      BY <1>5, <1>6, <2>1, <2>2
  <1>7. CASE ArmSession(c)
    <2>1. PICK s : s = [attempt |-> c.attempt, action |-> c.action,
                        balances |-> balances[c.attempt]]
      OBVIOUS
    <2>2. s.attempt = c.attempt /\ SetState(calls \ {c}, watch, submitStarted, "armed", s, held)
      BY <1>7, <2>1 DEF ArmSession
    <2> QED
      BY <1>5, <2>2
  <1> QED
    BY <1>4, <1>6, <1>7 DEF CheckAfterSign
-------------------------------------------------------------------------------
\* A poll's report of the expiry takes nothing away and adds nothing.
LEMMA PollReportKeeps ==
    ASSUME IInv, Orderly, NEW rest, NEW polls, NEW h, ReportExpired(rest, polls, h, "poll"),
           rest \subseteq calls
    PROVE  Orderly'
  <1>1. SetPhase(rest, polls, "expired") /\ UNCHANGED sent
    BY DEF ReportExpired
  <1>2. /\ phase' = "expired" /\ held' = held /\ (submitStarted => submitStarted')
        /\ calls' \subseteq rest \cup Orphaned(polls)
    BY <1>1, RenderedCalls DEF SetPhase
  <1>3. NetworkKept
    BY <1>1, SentKept
  <1>4. ASSUME NEW a \in Attempts PROVE InOnePlace(a)'
    <2>1. ~Offered(a)' /\ (Kept(a)' => Kept(a)) /\ Carriers(a)' \subseteq Carriers(a)
      BY <1>2, OrphanedCarries DEF Offered, Kept, Carriers, Carries
    <2>2. GivenUp(a)' = GivenUp(a)
      BY DEF GivenUp, ReportExpired
    <2> QED
      BY <1>3, <2>1, <2>2 DEF Orderly, InOnePlace, NetworkKept
  <1> QED
    BY <1>2, <1>3, <1>4, ResultsKept DEF Orderly

\* The submission's report of the expiry is the end of the bytes it carried.
LEMMA SubmitReportKeeps ==
    ASSUME IInv, Orderly, NEW c \in calls, c.kind = "submit", c.pc \in {"height", "send"},
           ReportExpired(calls \ {c}, watch, c.held, "submit")
    PROVE  Orderly'
  <1>1. SetPhase(calls \ {c}, watch, "expired") /\ UNCHANGED sent
    BY DEF ReportExpired
  <1>2. /\ phase' = "expired" /\ held' = held /\ (submitStarted => submitStarted')
        /\ calls' \subseteq (calls \ {c}) \cup Orphaned(watch)
    BY <1>1, RenderedCalls DEF SetPhase
  <1>3. NetworkKept
    BY <1>1, SentKept
  <1>4. ASSUME NEW a \in Attempts PROVE InOnePlace(a)'
    <2>1. ~Offered(a)' /\ (Kept(a)' => Kept(a)) /\ Carriers(a)' \subseteq Carriers(a) \ {c}
      BY <1>2, OrphanedCarries DEF Offered, Kept, Carriers, Carries
    <2>2. CASE c.held.attempt = a
      <3>1. Carries(c, a)
        BY <2>2 DEF Carries
      <3>2. Carriers(a) = {c} /\ ~Offered(a) /\ ~Kept(a) /\ Handed(a) = {} /\ ~GivenUp(a)
        BY <3>1, NowhereElse DEF Orderly
      <3> QED
        BY <1>3, <2>1, <3>2 DEF InOnePlace, NetworkKept
    <2>3. CASE c.held.attempt # a
      <3>1. GivenUp(a)' = GivenUp(a)
        BY <2>3 DEF GivenUp, ReportExpired
      <3> QED
        BY <1>3, <2>1, <3>1 DEF Orderly, InOnePlace, NetworkKept
    <2> QED
      BY <2>2, <2>3
  <1> QED
    BY <1>2, <1>3, <1>4, ResultsKept DEF Orderly

\* The page starts to submit what it kept, whichever poll told it to.
LEMMA ActivateKeeps ==
    ASSUME IInv, Orderly, NEW rest, NEW polls, SetPhase(rest, polls, "activating"),
           rest \subseteq calls, UNCHANGED <<sent, expired>>
    PROVE  Orderly'
  <1>1. PICK new : new = [NewCall("submit", "height", None, session.attempt, None) EXCEPT
                            !.held = held, !.before = session.balances]
    OBVIOUS
  <1>2. new.kind = "submit" /\ new.held = held
    BY <1>1, NewCallType DEF CallFields
  <1>3. /\ phase' = "activating" /\ held' = held /\ (submitStarted => submitStarted')
        /\ \/ calls' \subseteq rest \cup Orphaned(polls)
           \/ /\ calls' \subseteq rest \cup {new} \cup Orphaned(polls)
              /\ held # None /\ ~submitStarted /\ submitStarted'
    BY <1>1 DEF SetPhase, SetState
  <1>4. NetworkKept
    BY SentKept
  <1>5. ASSUME NEW a \in Attempts PROVE InOnePlace(a)'
    <2>1. ~Offered(a)' /\ (Kept(a)' => Kept(a)) /\ GivenUp(a)' = GivenUp(a)
          /\ Handed(a)' = Handed(a)
      BY <1>3, <1>4 DEF Offered, Kept, GivenUp, NetworkKept
    <2>2. CASE Carriers(a)' \subseteq Carriers(a)
      BY <2>1, <2>2 DEF Orderly, InOnePlace
    <2>3. CASE ~(Carriers(a)' \subseteq Carriers(a))
      <3>1. /\ Carriers(a)' \subseteq Carriers(a) \cup {new} /\ Carries(new, a)
            /\ held # None /\ ~submitStarted /\ submitStarted'
        BY <1>3, <2>3, OrphanedCarries DEF Carriers, Carries
      <3>2. Kept(a) /\ ~Kept(a)'
        BY <1>2, <3>1 DEF Carries, Kept
      <3>3. Carriers(a) = {} /\ Handed(a) = {} /\ ~GivenUp(a)
        BY <3>2 DEF Orderly, InOnePlace
      <3>4. \A x, y \in Carriers(a)' : x = y
        BY <3>1, <3>3
      <3> QED
        BY <2>1, <3>2, <3>3, <3>4 DEF InOnePlace
    <2> QED
      BY <2>2, <2>3
  <1> QED
    BY <1>3, <1>4, <1>5, ResultsKept DEF Orderly

LEMMA SubmitKeeps ==
    ASSUME IInv, Orderly, NEW c \in calls, SubmitHeight(c) \/ SendRefused(c) \/ OrphanHeight(c)
    PROVE  Orderly'
  <1>1. DOMAIN c = CallFields /\ c.pc \in Steps(c.kind)
    BY CallFacts
  <1>2. CASE /\ SubmitHeight(c) \/ SendRefused(c)
             /\ ReportExpired(calls \ {c}, watch, c.held, "submit")
    <2>1. c.kind = "submit" /\ c.pc \in {"height", "send"}
      BY <1>1, <1>2 DEF SubmitHeight, SendRefused, Steps
    <2> QED
      BY <1>2, <2>1, SubmitReportKeeps
  <1>3. CASE ReportExpired(calls \ {c}, watch, c.held, "poll")
    BY <1>3, PollReportKeeps
  <1>4. CASE SetPhase(calls \ {c}, watch, "activating") /\ UNCHANGED others
    BY <1>4, OthersStay, ActivateKeeps
  <1>5. CASE Proceed(calls \ {c}) /\ UNCHANGED others
    BY <1>5, OthersStay, SentKept, ProceedKeeps
  <1>6. CASE Local(c, [c EXCEPT !.pc = "send"]) /\ UNCHANGED others /\ c.pc = "height"
    <2>1. PICK next : next = [c EXCEPT !.pc = "send"]
      OBVIOUS
    <2>2. /\ Local(c, next) /\ next.kind = c.kind /\ next.attempt = c.attempt
          /\ next.held = c.held
      BY <1>1, <1>6, <2>1 DEF CallFields
    <2> QED
      BY <1>6, <2>2, OthersStay, SentKept, StepKeeps
  <1> QED
    BY <1>2, <1>3, <1>4, <1>5, <1>6 DEF SubmitHeight, SendRefused, OrphanHeight

\* The claims: the guard's refusal of the call's own transaction, and the link to
\* the executed one.
LEMMA ClaimKeeps ==
    ASSUME IInv, Orderly, NEW c \in calls, ClaimStale(c) \/ ClaimUpdated(c)
    PROVE  Orderly'
  <1>1. UNCHANGED <<sent, expired>>
    BY DEF ClaimStale, ClaimUpdated, others
  <1>2. NetworkKept
    BY <1>1, SentKept
  <1>3. CASE SetPhase(calls \ {c}, watch, "failed")
    BY <1>1, <1>2, <1>3, PhaseKeeps DEF Passive
  <1>4. CASE /\ ClaimStale(c)
             /\ AcceptActivationRejection(sent[c.tx], c.held.guardInstructionIndex,
                                          c.before, balances[c.attempt])
    <2>1. c.tx \in HeldSubmissions
      BY <1>4, CallFacts DEF ClaimStale, CallFits, Submitted, HeldSubmissions
    <2>2. sent[c.tx].outcome = "ActivationPhaseChanged"
      <3>1. sent[c.tx].outcome # "Executed"
        <4>1. "Token2022" \notin Succeeded(sent[c.tx])
          BY <1>4 DEF AcceptActivationRejection, ConfirmedActivationRejection
        <4> QED
          BY <4>1 DEF Succeeded
      <3> QED
        BY <1>4, <3>1 DEF AcceptActivationRejection, ConfirmedActivationRejection, ParseCustomError
    <2>3. SetState(calls \ {c}, watch, submitStarted, "protected", session, held)
      BY <1>4 DEF ClaimStale, SetPhase
    <2>4. Refusals # {}
      BY <2>1, <2>2 DEF Refusals
    <2> QED
      BY <1>1, <1>2, <2>3, <2>4, RenderKeeps
  <1>5. CASE /\ ClaimUpdated(c)
             /\ AcceptUpdatedExecution(sent[c.tx], c.before, balances[c.attempt])
    <2>1. /\ SetState(calls \ {c}, watch, submitStarted, "executed", session, held)
          /\ updated' = c.tx
      BY <1>5 DEF ClaimUpdated, SetPhase
    <2>2. c.tx # None
      <3>1. c.tx \in DOMAIN sent
        BY <1>5, CallFacts DEF ClaimUpdated, CallFits, Submitted
      <3>2. DOMAIN sent \subseteq Nat
        BY SequenceDomain DEF IInv, Shape
      <3> QED
        BY <3>1, <3>2, DemoChainConstants
    <2> QED
      BY <1>1, <1>2, <2>1, <2>2, RenderKeeps
  <1> QED
    BY <1>3, <1>4, <1>5 DEF ClaimStale, ClaimUpdated

LEMMA WatchKeeps ==
    ASSUME IInv, Orderly, NEW w \in watch, WatchClock(w) \/ WatchSnapshot(w) \/ WatchHeight(w)
    PROVE  Orderly'
  <1>1. ASSUME UNCHANGED <<phase, session, held, submitStarted, calls, sent, expired, updated>>
        PROVE  Orderly'
    <2>1. ASSUME NEW a \in Attempts PROVE InOnePlace(a)'
      <3>1. Carriers(a)' \subseteq Carriers(a) /\ Handed(a)' = Handed(a)
        BY <1>1, SentKept DEF Carriers, Carries, NetworkKept
      <3> QED
        BY <1>1, <3>1, MoveKeepsPlace DEF Orderly
    <2> QED
      BY <1>1, <2>1, SentKept, ResultsKept DEF Orderly
  <1>2. CASE WatchClock(w)
    BY <1>1, <1>2 DEF WatchClock
  <1>3. CASE WatchSnapshot(w)
    BY <1>1, <1>3, OthersStay DEF WatchSnapshot, Rewatch
  <1>4. CASE WatchHeight(w)
    <2>1. CASE ReportExpired(calls, {}, w.held, "poll")
      BY <2>1, PollReportKeeps
    <2>2. CASE SetPhase(calls, {}, "activating") /\ UNCHANGED others
      BY <2>2, OthersStay, ActivateKeeps
    <2>3. CASE (\E v : Rewatch(v)) /\ UNCHANGED others
      BY <1>1, <2>3, OthersStay DEF Rewatch
    <2> QED
      BY <1>4, <2>1, <2>2, <2>3 DEF WatchHeight
  <1> QED
    BY <1>2, <1>3, <1>4

LEMMA WatchFailsKeeps ==
    ASSUME IInv, Orderly, WatchFails
    PROVE  Orderly'
  BY OthersStay, SentKept, PhaseKeeps DEF WatchFails, Passive
-------------------------------------------------------------------------------
LEMMA NextOrderly ==
    ASSUME IInv, Orderly, [Next]_vars
    PROVE  Orderly'
  <1>1. CASE UNCHANGED vars
    <2>1. Proceed(calls) /\ UNCHANGED <<sent, expired, updated>>
      BY <1>1 DEF vars, Proceed
    <2> QED
      BY <2>1, SentKept, ProceedKeeps
  <1>2. CASE \/ ChainAdvances \/ \E a \in Attempts : MintRewritten(a)
             \/ \E i \in DOMAIN sent : Lands(i)
    BY <1>2, ChainKeeps
  <1>3. CASE SelectScenario \/ ClickConnect \/ ClickConfirm \/ ClickReset
    BY <1>3, ClickKeeps
  <1>4. CASE ClickPrepare \/ ClickAuthorize
    BY <1>4, ClickPrepareKeeps, ClickAuthorizeKeeps
  <1>5. ASSUME NEW c \in calls, Answers(c) PROVE Orderly'
    <2>1. CASE \/ ReadClock(c) \/ ReadBefore(c) \/ ReadSnapshot(c) \/ ReadBlockhash(c)
               \/ ReadHeight(c) \/ ReadStatus(c) \/ VerifyMint(c) \/ ReadMetadata(c)
      BY <2>1, ReadsKeep
    <2>2. CASE CheckAfterSign(c) \/ ArmSession(c) \/ SendHeld(c)
      BY <2>2, HoldKeeps, SendHeldKeeps
    <2>3. CASE SubmitHeight(c) \/ SendRefused(c) \/ OrphanHeight(c)
      BY <2>3, SubmitKeeps
    <2>4. CASE ClaimStale(c) \/ ClaimUpdated(c)
      BY <2>4, ClaimKeeps
    <2> QED
      BY <1>5, <2>1, <2>2, <2>3, <2>4 DEF Answers
  <1>6. ASSUME NEW c \in calls,
               CallFails(c) \/ ConnectAnswered(c) \/ WalletSigns(c) \/ WalletSends(c)
        PROVE  Orderly'
    BY <1>6, ReadsKeep, AnswerKeeps, WalletSendsKeeps
  <1>7. CASE Watches \/ WatchFails
    BY <1>7, WatchKeeps, WatchFailsKeeps DEF Watches
  <1> QED
    BY <1>1, <1>2, <1>3, <1>4, <1>5, <1>6, <1>7 DEF Next

LEMMA OrderlyInvariance == Spec => [](IInv /\ Orderly)
  <1>1. Init => Orderly
    BY InitOrderly
  <1>2. Orderly /\ IInv /\ [Next]_vars => Orderly'
    BY NextOrderly
  <1> QED
    BY <1>1, <1>2, Invariance, PTL DEF Spec

\* The live page, for any number of overlapping attempts: the bytes an attempt holds
\* are handed to the network at most once, and not at all when their submission
\* reports them as expired, whatever polls and answers of other attempts do.
THEOREM LiveHeldSubmittedOnce == Spec => []HeldIsSubmittedOnce
  <1>1. Orderly => HeldIsSubmittedOnce
    BY DEF Orderly, InOnePlace, HeldIsSubmittedOnce, Handed, GivenUp
  <1> QED
    BY <1>1, OrderlyInvariance, PTL

\* The live page, for any number of overlapping attempts: "Protected by StateGuard"
\* is shown only when the guard has refused held bytes because of the activation,
\* its link is to held bytes, and "Executed" links to a transaction that executed.
THEOREM LiveTrueClaims == Spec => []ClaimsAreTrue
  <1>1. IInv /\ Orderly => ClaimsAreTrue
    BY DEF IInv, PageFits, Orderly, Results, Refusals, HeldSubmissions, ClaimsAreTrue
  <1> QED
    BY <1>1, OrderlyInvariance, PTL
===============================================================================
