--------------------------- MODULE LocalDemoProofs -----------------------------
(***************************************************************************)
(* Theorems about the local live demo: for any number of legs, mounts and   *)
(* restarts, what moves, what is attested, what is shown and what is filed. *)
(***************************************************************************)
EXTENDS LocalDemo, TLAPS

\* The awaits of a leg, by what has happened before them.
Sending    == {"confirm", "verify"}
Crossed    == {"send"} \cup Sending
Waited     == {"lifetime", "deploy2", "submit"} \cup Crossed
Receipted  == {"wait"} \cup Waited
Dated      == {"receipt"} \cup Receipted
Signed     == {"clock3"} \cup Dated
Requested  == {"sign"} \cup Signed
Built      == {"clock1", "presign", "clock2", "deploy1"} \cup Requested
WithT      == {"build", "prepare"} \cup Built
BeforeT    == {"adapter", "connect", "load", "arm"}
Over       == {"failed", "gone"}

\* The awaits of the coordinator's answer, and its handlers.
Asking     == {"arm", "presign", "deploy1", "receipt", "deploy2"}
Arming     == {"arm-read", "arm-send", "arm-verify"}
Simulating == {"sim-clock", "sim-run"}

Live(p) == legs[p].pc \notin Finished

\* The page offers a confirmation, now or once its leg is verified.
Confirmable == page.kind \in {"STALE_VERIFIED", "REVIEWING"}

MayConfirm ==
    \/ Confirmable
    \/ \E q \in Legs :
         Live(q) /\ Mounted(q) /\ legs[q].kind = "STALE" /\ legs[q].pc # "adapter"

LegFields ==
    {"pc", "kind", "mount", "T", "base", "wire", "proof", "digest", "before", "asked", "signedAt"}

PageFields ==
    {"mount", "kind", "leg", "stale", "updated", "failure", "started", "session", "stage",
     "walletRequested", "submitted"}

\* What the variables look like.
Shape ==
    /\ clock \in Nat /\ clock <= MaxClock
    /\ boot \in Nat
    /\ program \in {Reviewed, Replaced}
    /\ host \in {"web", "app"}
    /\ mint.effectiveTimestamp \in Nat
    /\ DOMAIN sent = Legs /\ DOMAIN landed = Legs
    /\ DOMAIN job = Legs /\ \A p \in Legs : DOMAIN job[p] = {"at", "arg"}
    /\ DOMAIN co = {"armed", "arming", "digest", "sims", "auths"}
    /\ co.arming \in BOOLEAN

LegShape ==
    /\ DOMAIN legs = Legs
    /\ \A p \in Legs :
         /\ DOMAIN legs[p] = LegFields
         /\ legs[p].pc \in Finished \cup BeforeT \cup WithT
         /\ legs[p].kind \in {"STALE", "REFRESHED"}
         /\ legs[p].mount \in Nat
         /\ legs[p].asked \in BOOLEAN

PageShape ==
    /\ DOMAIN page = PageFields
    /\ page.mount \in Nat
    /\ page.walletRequested \in BOOLEAN /\ page.submitted \in BOOLEAN

\* The bytes of leg p: made for its T and its phase, in this environment or before.
IsWire(w, p) ==
    /\ w.leg = p /\ w.T = legs[p].T /\ w.phase = PhaseOf(legs[p].kind)
    /\ w.boot \in Nat /\ w.boot <= boot

\* The coordinator of this environment armed the leg's T and holds its receipt.
Authorized(p) == co.armed = legs[p].T /\ \E a \in co.auths : a.leg = p

\* What a leg has behind it at each await.
LegFits(p) ==
    LET leg == legs[p] IN
    /\ leg.T # None => leg.T \in Nat /\ leg.T <= clock + ActivationDelay
    /\ leg.signedAt # None => leg.signedAt \in Nat /\ leg.signedAt <= clock
    /\ leg.pc \in BeforeT \cup {"unused"} => leg.kind = "STALE" /\ leg.T = None
    /\ Live(p) /\ leg.pc \notin Requested => ~leg.asked
    /\ Live(p) /\ leg.pc \notin Signed => leg.signedAt = None
    /\ leg.pc = "unused" => ~leg.asked /\ leg.signedAt = None
    /\ leg.pc \in WithT => leg.T # None
    /\ leg.pc \in Built => IsWire(leg.wire, p)
    /\ leg.pc \in Signed => leg.signedAt # None
    /\ leg.pc \in Dated /\ leg.kind = "STALE" => leg.signedAt < leg.T
    /\ leg.pc \in Receipted /\ leg.wire.boot = boot => Authorized(p)
    /\ leg.pc \in Waited /\ leg.kind = "STALE" => clock > leg.T
    /\ leg.pc \in Crossed => clock >= leg.T
    /\ leg.pc \in {"verify", "done"} => landed[p] # None
    /\ sent[p] # None => leg.pc \in Sending \cup Over \cup {"done"}

\* A confirmed order follows a rejected stale wire.
BaseFits(p) ==
    legs[p].kind = "REFRESHED" /\ legs[p].T # None =>
      LET base == legs[p].base
      IN  /\ base \in Legs
          /\ landed[base] # None
          /\ landed[base].outcome = "ActivationPhaseChanged"
          /\ host = "app" => legs[base].T = legs[p].T

SentFits(p) ==
    sent[p] # None =>
      /\ IsWire(sent[p], p)
      /\ legs[p].T # None /\ clock >= legs[p].T
      /\ legs[p].kind = "STALE" =>
           clock > legs[p].T /\ legs[p].signedAt # None /\ legs[p].signedAt < legs[p].T
      /\ sent[p].boot = boot => Authorized(p)

\* The T of an earlier environment is not the one of this environment.
LandedFits(p) ==
    landed[p] # None =>
      /\ sent[p] # None
      /\ landed[p].boot = sent[p].boot
      /\ landed[p].at \in Nat
      /\ legs[p].kind = "STALE" => landed[p].at > legs[p].T
      /\ landed[p].outcome = "Ok" /\ landed[p].program = Reviewed =>
           legs[p].kind = "REFRESHED" /\ landed[p].at > legs[p].T
      /\ landed[p].boot # boot => legs[p].T < mint.effectiveTimestamp

\* One request arms an environment.
ArmFits ==
    /\ co.armed # None =>
         co.armed \in Nat /\ mint.effectiveTimestamp = co.armed /\ co.arming
    /\ \A p \in Legs : job[p].at \in Arming => co.arming /\ co.armed = None
    /\ \A p, q \in Legs : job[p].at \in Arming /\ job[q].at \in Arming => p = q

\* The coordinator's answer to an arm request, not read yet.
Replied(p) == legs[p].pc = "arm" /\ job[p].at = "ok"

\* No T is armed twice.
FreshT ==
    /\ \A p \in Legs : Replied(p) =>
         /\ job[p].arg \in Nat /\ job[p].arg <= clock + ActivationDelay
         /\ \A q \in Legs : legs[q].T # job[p].arg
         /\ \A q \in Legs : Replied(q) /\ job[q].arg = job[p].arg => p = q
    /\ \A p \in Legs : job[p].at \in {"arm-send", "arm-verify"} =>
         /\ job[p].arg \in Nat /\ job[p].arg <= clock + ActivationDelay
         /\ \A q \in Legs : legs[q].T # None => legs[q].T < job[p].arg
         /\ \A q \in Legs : Replied(q) => job[q].arg < job[p].arg
    /\ ~co.arming \/ (\E p \in Legs : job[p].at = "arm-read") =>
         /\ \A q \in Legs : legs[q].T # None => legs[q].T < clock + ActivationDelay
         /\ \A q \in Legs : Replied(q) => job[q].arg < clock + ActivationDelay

\* What a handler of the coordinator works on, and which await it belongs to.
JobFits(p) ==
    LET at  == job[p].at
        arg == job[p].arg
    IN  /\ legs[p].pc \notin Asking \cup Over => at = "idle"
        /\ at \in Arming => legs[p].pc \in {"arm"} \cup Over
        /\ at \in Simulating => legs[p].pc \in {"presign"} \cup Over /\ legs[p].signedAt = None
        /\ at = "sim-clock" => IsWire(arg, p) /\ legs[p].T # None
        /\ at = "sim-run" =>
             /\ IsWire(arg.wire, p) /\ legs[p].T # None
             /\ arg.read \in Nat
             /\ ClockMatchesPhase(arg.read, arg.wire.T, arg.wire.phase)
        /\ at = "receipt-clock" =>
             /\ legs[p].pc \in {"receipt"} \cup Over
             /\ IsWire(arg.wire, p)
             /\ legs[p].signedAt # None
             /\ co.armed = legs[p].T /\ legs[p].T # None
             /\ arg.proof \in DOMAIN co.sims
             /\ co.sims[arg.proof].leg = p
             /\ \A a \in co.auths : a.proof # arg.proof
        /\ at = "attest" => legs[p].pc \in {"deploy1", "deploy2"} \cup Over
        /\ legs[p].pc = "receipt" /\ at = "ok" /\ arg = p /\ legs[p].wire.boot = boot =>
             Authorized(p)

Timings == [encodedPhase : {"Pending", "Activated"}, clockRelation : {"before", "at or after"}]

SimulationRecords ==
    [leg : Legs, T : Nat, timing : Timings, ran : Nat, program : {Reviewed, Replaced}]

AuthorizationRecords ==
    [proof : Nat, leg : Legs, T : Nat, clock : Nat, timing : Timings]

\* The coordinator's records.
SimsFit ==
    /\ co.sims \in Seq(SimulationRecords)
    /\ \A i \in DOMAIN co.sims :
         LET sim == co.sims[i] IN
         /\ sim.ran <= clock
         /\ legs[sim.leg].signedAt # None => sim.ran <= legs[sim.leg].signedAt
         /\ sim.program = Reviewed => sim.timing.clockRelation = ObservedRelation(sim.ran, sim.T)

AuthsFit ==
    /\ co.auths \subseteq AuthorizationRecords
    /\ \A a \in co.auths :
         /\ a.proof \in DOMAIN co.sims
         /\ co.sims[a.proof].leg = a.leg
         /\ legs[a.leg].signedAt # None
         /\ legs[a.leg].signedAt <= a.clock
         /\ a.timing.clockRelation = ObservedRelation(a.clock, a.T)
    /\ \A a, b \in co.auths : a.proof = b.proof => a = b

\* One leg of the mounted component runs, and no click of it or of an earlier one
\* still waits for the adapter.
MountsFit ==
    /\ \A p \in Legs : legs[p].pc # "unused" => legs[p].mount <= page.mount
    /\ \A p, q \in Legs : p < q /\ legs[q].pc # "unused" =>
         legs[p].pc # "unused" /\ legs[p].mount <= legs[q].mount
    /\ \A p \in Legs : Live(p) /\ Mounted(p) => page.kind = "RUNNING" /\ page.leg = p
    /\ host = "app" => \A p \in Legs : legs[p].pc # "adapter" /\ (Live(p) => Mounted(p))
    /\ Confirmable => \A q \in Legs : legs[q].pc # "adapter"
    /\ \A p, q \in Legs : Live(p) /\ Mounted(p) /\ legs[p].pc # "adapter" =>
         legs[q].pc # "adapter"

\* A session is of one T, which is confirmed at most once.
SessionFits ==
    /\ page.session # None =>
         /\ DOMAIN page.session = {"T", "stale"}
         /\ page.session.T # None
         /\ \E q \in Legs : legs[q].T = page.session.T
         /\ page.session.stale # None =>
              /\ page.session.stale \in Legs
              /\ landed[page.session.stale] # None
              /\ landed[page.session.stale].outcome = "ActivationPhaseChanged"
              /\ host = "app" => legs[page.session.stale].T = page.session.T
    /\ host = "app" =>
         /\ \A p \in Legs : Live(p) /\ legs[p].kind = "STALE" /\ legs[p].pc \in WithT =>
              page.session # None /\ page.session.T = legs[p].T
         /\ Confirmable => page.session # None /\ page.session.stale # None
    /\ (page.session # None /\ MayConfirm) =>
         \A r \in Legs : legs[r].kind = "REFRESHED" => legs[r].T # page.session.T
    /\ \A p, q \in Legs :
         (/\ legs[p].kind = "REFRESHED" /\ legs[q].kind = "REFRESHED"
          /\ legs[p].T # None /\ legs[p].T = legs[q].T) => p = q

\* The flags and the stage are those of the leg of the mounted component.
FlagsFit ==
    /\ \A p \in Legs : Live(p) /\ Mounted(p) =>
         /\ legs[p].pc \in Requested => page.walletRequested
         /\ legs[p].pc \in {"submit"} \cup Crossed => page.submitted
    /\ host = "app" => \A p \in Legs : Live(p) => page.stage = BuyStages[legs[p].pc]

ShownFits ==
    /\ page.stale # None =>
         /\ page.stale \in Legs
         /\ legs[page.stale].kind = "STALE"
         /\ landed[page.stale] # None
         /\ landed[page.stale].outcome = "ActivationPhaseChanged"
    /\ page.updated # None =>
         /\ page.updated \in Legs
         /\ landed[page.updated] # None
         /\ landed[page.updated].outcome = "Ok"
    /\ page.failure # None =>
         page.failure.leg \in Legs /\ legs[page.failure.leg].pc \in Over
    /\ FailureClaimsAreTrue

FilesFit ==
    \A f \in files :
      /\ f.stale \in Legs
      /\ landed[f.stale] # None
      /\ landed[f.stale].boot = f.boot => f.stale \in f.auths /\ f.armed = legs[f.stale].T

IInv ==
    /\ Shape /\ LegShape /\ PageShape
    /\ \A p \in Legs : LegFits(p) /\ BaseFits(p) /\ SentFits(p) /\ LandedFits(p) /\ JobFits(p)
    /\ ArmFits /\ FreshT /\ SimsFit /\ AuthsFit
    /\ MountsFit /\ SessionFits /\ FlagsFit /\ ShownFits /\ FilesFit
    /\ MovesOnlyAsConfirmed
-------------------------------------------------------------------------------
\* The constants.

LEMMA Constants ==
    /\ ActivationDelay \in Nat /\ ActivationDelay > 0 /\ MaxClock \in Nat /\ MaxLegs \in Nat
    /\ OldMultiplier # NewMultiplier
    /\ None \notin Nat
    /\ Legs \subseteq Nat
    /\ ParkedT \in Nat /\ ParkedT = MaxClock + ActivationDelay + 1
BY LocalCoordinatorConstants DEF Legs, ParkedT

LEMMA SessionIsNotNone ==
    ASSUME NEW T \in Nat, T <= MaxClock + ActivationDelay, NEW stale \in Legs \cup {None}
    PROVE  [T |-> T, stale |-> stale] # None
<1>1. T \in 0 .. MaxClock + ActivationDelay
  BY Constants
<1> QED
  BY <1>1, LocalCoordinatorConstants DEF Legs

LEMMA Awaits ==
    /\ Sending \subseteq Crossed /\ Crossed \subseteq Waited /\ Waited \subseteq Receipted
    /\ Receipted \subseteq Dated /\ Dated \subseteq Signed /\ Signed \subseteq Requested
    /\ Requested \subseteq Built /\ Built \subseteq WithT
    /\ WithT \cap (Finished \cup BeforeT) = {} /\ BeforeT \cap Finished = {}
    /\ Over \subseteq Finished
BY DEF Sending, Crossed, Waited, Receipted, Dated, Signed, Requested, Built, WithT, BeforeT, Over,
       Finished

LEMMA SimIsRecord ==
    ASSUME SimsFit, NEW i \in DOMAIN co.sims
    PROVE  /\ co.sims[i] \in SimulationRecords
           /\ co.sims[i].leg \in Legs /\ co.sims[i].T \in Nat /\ co.sims[i].ran \in Nat
<1>1. \A s \in Seq(SimulationRecords) : \A j \in DOMAIN s : s[j] \in SimulationRecords
  OBVIOUS
<1>2. co.sims[i] \in SimulationRecords
  BY <1>1 DEF SimsFit
<1> QED
  BY <1>2 DEF SimulationRecords

\* What the guard lets pass: the mint the wire names, in the phase it names, and not
\* in the second of the activation itself.
LEMMA GuardPasses ==
    ASSUME NEW wire, wire.T \in Nat, clock \in Nat, program = Reviewed, "Ok" \in Outcomes(wire)
    PROVE  /\ mint.effectiveTimestamp = wire.T
           /\ wire.phase = "Pending" => clock < wire.T
           /\ wire.phase = "Activated" => clock > wire.T
<1> DEFINE verdict == Check(Request(wire), mint, clock)
<1>1. verdict = "Ok"
  BY DEF Outcomes
<1>2. /\ Request(wire).expected.multiplier = OldMultiplier
      /\ Request(wire).expected.newMultiplier = NewMultiplier
      /\ Request(wire).expected.effectiveTimestamp = wire.T
      /\ Request(wire).expectedPhase = wire.phase
      /\ Request(wire).window.beforeSecs = 0
      /\ Request(wire).window.afterSecs = 0
  BY DEF Request, LocalMint, ZeroWindow
<1>3. /\ mint.effectiveTimestamp = wire.T
      /\ HasScheduledChange(mint)
      /\ ~WindowContains(Request(wire).window, wire.T, clock)
      /\ PhaseAt(mint, clock) = wire.phase
  BY <1>1, <1>2, Constants DEF Check, HasScheduledChange
<1>4. clock # wire.T
  BY <1>2, <1>3 DEF WindowContains
<1> QED
  BY <1>3, <1>4 DEF PhaseAt
-------------------------------------------------------------------------------
\* The page and the legs do not see the environment, except what was sent and landed.

LEMMA PageKept ==
    ASSUME IInv, UNCHANGED <<host, page, legs, sent>>,
           \A q \in Legs : landed[q] # None => landed'[q] = landed[q]
    PROVE  /\ LegShape' /\ PageShape' /\ MountsFit' /\ SessionFits' /\ FlagsFit' /\ ShownFits'
<1> USE DEF IInv
<1>1. LegShape' /\ PageShape'
  BY DEF LegShape, PageShape
<1>2. MountsFit'
  BY DEF MountsFit, Live, Mounted, Confirmable
<1>3. SessionFits'
  BY DEF SessionFits, MayConfirm, Live, Mounted, Confirmable
<1>4. FlagsFit'
  BY DEF FlagsFit, Live, Mounted
<1>5. ShownFits'
  BY DEF ShownFits, FailureClaimsAreTrue
<1> QED
  BY <1>1, <1>2, <1>3, <1>4, <1>5
-------------------------------------------------------------------------------
\* The validator.

\* The Clock moves on, or somebody replaces the program.
LEMMA ClockMoves ==
    ASSUME IInv, clock' \in Nat, clock <= clock', clock' <= MaxClock,
           program' \in {Reviewed, Replaced},
           UNCHANGED <<boot, mint, sent, landed, co, job, files, host, page, legs>>
    PROVE  IInv'
<1> USE DEF IInv
<1> clock \in Nat /\ boot \in Nat
  BY DEF Shape
<1>1. Shape'
  BY DEF Shape
<1>2. LegShape' /\ PageShape' /\ MountsFit' /\ SessionFits' /\ FlagsFit' /\ ShownFits'
  BY PageKept
<1>3. ASSUME NEW p \in Legs
      PROVE  LegFits(p)' /\ BaseFits(p)' /\ SentFits(p)' /\ LandedFits(p)' /\ JobFits(p)'
  <2>1. LegFits(p)'
    BY Constants, Awaits DEF LegFits, Live, IsWire, Authorized
  <2>2. BaseFits(p)' /\ LandedFits(p)'
    BY DEF BaseFits, LandedFits
  <2>3. SentFits(p)'
    BY Constants DEF SentFits, LegFits, IsWire, Authorized
  <2>4. JobFits(p)'
    BY DEF JobFits, IsWire, Authorized
  <2> QED
    BY <2>1, <2>2, <2>3, <2>4
<1>4. ArmFits' /\ FilesFit' /\ AuthsFit' /\ MovesOnlyAsConfirmed'
  BY DEF ArmFits, FilesFit, AuthsFit, MovesOnlyAsConfirmed
<1>5. FreshT'
  <2>1. \A q \in Legs : legs[q].T # None => legs[q].T \in Nat
    BY DEF LegFits
  <2> QED
    BY <2>1, Constants DEF FreshT, Replied
<1>6. SimsFit'
  <2>1. \A i \in DOMAIN co.sims : co.sims[i].ran \in Nat
    BY SimIsRecord
  <2> QED
    BY <2>1 DEF SimsFit
<1> QED
  BY <1>1, <1>2, <1>3, <1>4, <1>5, <1>6

LEMMA TickInv ==
    ASSUME IInv, Tick, UNCHANGED <<host, page, legs>>
    PROVE  IInv'
<1>1. clock \in Nat /\ clock <= MaxClock /\ MaxClock \in Nat /\ program \in {Reviewed, Replaced}
  BY Constants DEF IInv, Shape
<1>2. /\ clock' \in Nat /\ clock <= clock' /\ clock' <= MaxClock
      /\ UNCHANGED <<boot, mint, program, sent, landed, co, job, files>>
  BY <1>1 DEF Tick
<1> QED
  BY <1>1, <1>2, ClockMoves

LEMMA ReplaceProgramInv ==
    ASSUME IInv, ReplaceProgram, UNCHANGED <<host, page, legs>>
    PROVE  IInv'
<1>1. clock \in Nat /\ clock <= MaxClock
  BY Constants DEF IInv, Shape
<1>2. /\ clock' \in Nat /\ clock <= clock' /\ clock' <= MaxClock
      /\ program' \in {Reviewed, Replaced}
      /\ UNCHANGED <<boot, mint, sent, landed, co, job, files>>
  BY <1>1 DEF ReplaceProgram
<1> QED
  BY <1>2, ClockMoves

\* A wire lands: the guard of the armed mint decides what it may do.
LEMMA LandInv ==
    ASSUME IInv, NEW p \in Legs, Land(p), UNCHANGED <<host, page, legs>>
    PROVE  IInv'
<1> USE DEF IInv
<1> clock \in Nat /\ boot \in Nat
  BY DEF Shape
<1> DEFINE executed == landed'[p]
<1>1. /\ sent[p] # None /\ landed[p] = None /\ sent[p].boot = boot
      /\ DOMAIN landed' = Legs
      /\ \A q \in Legs : q # p => landed'[q] = landed[q]
      /\ executed.outcome \in Outcomes(sent[p])
      /\ executed.at = clock /\ executed.boot = boot /\ executed.program = program
      /\ UNCHANGED <<clock, boot, mint, program, sent, co, job, files>>
  BY DEF Land, BlockhashValid, Shape
<1>2. \A q \in Legs : landed[q] # None => landed'[q] = landed[q]
  BY <1>1
<1>3. /\ IsWire(sent[p], p) /\ legs[p].T \in Nat /\ co.armed = legs[p].T
      /\ legs[p].kind = "STALE" => clock > legs[p].T
      /\ legs[p].kind \in {"STALE", "REFRESHED"}
  BY <1>1 DEF SentFits, LegFits, LegShape, Authorized
<1>4. ASSUME executed.outcome = "Ok", program = Reviewed
      PROVE  legs[p].kind = "REFRESHED" /\ clock > legs[p].T /\ mint.effectiveTimestamp = legs[p].T
  <2>1. /\ mint.effectiveTimestamp = sent[p].T
        /\ sent[p].phase = "Pending" => clock < sent[p].T
        /\ sent[p].phase = "Activated" => clock > sent[p].T
    BY <1>1, <1>3, <1>4, GuardPasses DEF IsWire
  <2> QED
    BY <1>3, <2>1 DEF IsWire, PhaseOf
<1>5. Shape'
  BY <1>1 DEF Shape
<1>6. LegShape' /\ PageShape' /\ MountsFit' /\ SessionFits' /\ FlagsFit' /\ ShownFits'
  BY <1>1, <1>2, PageKept
<1>7. ASSUME NEW q \in Legs
      PROVE  LegFits(q)' /\ BaseFits(q)' /\ SentFits(q)' /\ LandedFits(q)' /\ JobFits(q)'
  <2>1. LegFits(q)'
    BY <1>1, <1>2 DEF LegFits, Live, IsWire, Authorized
  <2>2. BaseFits(q)'
    BY <1>1, <1>2 DEF BaseFits
  <2>3. SentFits(q)' /\ JobFits(q)'
    BY <1>1 DEF SentFits, JobFits, IsWire, Authorized
  <2>4. LandedFits(q)'
    <3>1. CASE q = p
      BY <1>1, <1>3, <1>4, <3>1 DEF LandedFits
    <3>2. CASE q # p
      BY <1>1, <3>2 DEF LandedFits
    <3> QED
      BY <3>1, <3>2
  <2> QED
    BY <2>1, <2>2, <2>3, <2>4
<1>8. ArmFits' /\ FreshT' /\ SimsFit' /\ AuthsFit'
  BY <1>1 DEF ArmFits, FreshT, Replied, SimsFit, AuthsFit
<1>9. FilesFit'
  BY <1>1, <1>2 DEF FilesFit
<1>10. MovesOnlyAsConfirmed'
  <2>1. ASSUME NEW q \in Legs, landed[q] # None
        PROVE  legs[q].T # None
    BY <2>1 DEF LandedFits, SentFits
  <2>2. ASSUME NEW q \in Legs, landed'[q] # None, landed'[q].outcome = "Ok",
               landed'[q].program = Reviewed
        PROVE  /\ legs[q].kind = "REFRESHED"
               /\ landed'[q].at > legs[q].T
               /\ landed'[legs[q].base].outcome = "ActivationPhaseChanged"
               /\ host = "app" \/ legs[legs[q].base].T = legs[q].T =>
                    landed'[legs[q].base].boot = landed'[q].boot
    <3>1. CASE q = p
      <4>1. /\ legs[p].kind = "REFRESHED" /\ clock > legs[p].T
            /\ mint.effectiveTimestamp = legs[p].T
        BY <1>1, <1>4, <2>2, <3>1
      <4> DEFINE b == legs[p].base
      <4>2. /\ b \in Legs /\ landed[b] # None /\ landed[b].outcome = "ActivationPhaseChanged"
            /\ host = "app" => legs[b].T = legs[p].T
        BY <1>3, <4>1, Constants DEF BaseFits
      <4>3. b # p /\ landed'[b] = landed[b]
        BY <1>1, <4>2
      <4>4. legs[b].T = legs[p].T => landed[b].boot = boot
        BY <1>3, <4>1, <4>2 DEF LandedFits
      <4> QED
        BY <1>1, <3>1, <4>1, <4>2, <4>3, <4>4
    <3>2. CASE q # p
      <4>1. landed'[q] = landed[q] /\ landed[q] # None
        BY <1>1, <2>2, <3>2
      <4>2. legs[q].kind = "REFRESHED" /\ legs[q].T # None
        BY <2>1, <2>2, <4>1 DEF MovesOnlyAsConfirmed
      <4>3. legs[q].base \in Legs /\ landed[legs[q].base] # None
        BY <4>2 DEF BaseFits
      <4>4. landed'[legs[q].base] = landed[legs[q].base]
        BY <1>2, <4>3
      <4> QED
        BY <2>2, <4>1, <4>4 DEF MovesOnlyAsConfirmed
    <3> QED
      BY <3>1, <3>2
  <2>3. ASSUME NEW q \in Legs, q # p, landed'[q] # None, landed'[q].boot = landed'[p].boot,
               landed'[p].outcome = "Ok", landed'[q].outcome = "Ok",
               landed'[p].program = Reviewed, landed'[q].program = Reviewed
        PROVE  FALSE
    <3>1. legs[p].kind = "REFRESHED"
      BY <1>1, <1>4, <2>3
    <3>2. landed[q] # None /\ landed[q].boot = boot /\ legs[q].kind = "REFRESHED"
      BY <1>1, <2>3 DEF LandedFits
    <3>3. co.armed = legs[q].T
      BY <3>2 DEF LandedFits, SentFits, Authorized
    <3> QED
      BY <1>3, <2>3, <3>1, <3>2, <3>3, Constants DEF SessionFits
  <2>4. ASSUME NEW q \in Legs, NEW r \in Legs, landed'[q] # None, landed'[r] # None,
               landed'[q].boot = landed'[r].boot,
               landed'[q].outcome = "Ok", landed'[r].outcome = "Ok",
               {landed'[q].program, landed'[r].program} = {Reviewed}
        PROVE  q = r
    <3>1. landed'[q].program = Reviewed /\ landed'[r].program = Reviewed
      BY <2>4
    <3>2. CASE q = p \/ r = p
      BY <2>3, <2>4, <3>1, <3>2
    <3>3. CASE q # p /\ r # p
      <4>1. landed'[q] = landed[q] /\ landed'[r] = landed[r] /\ MovesOnlyAsConfirmed
        BY <1>1, <3>3
      <4> HIDE DEF IInv
      <4> QED
        BY <2>4, <4>1 DEF MovesOnlyAsConfirmed
    <3> QED
      BY <3>2, <3>3
  <2> QED
    BY <1>1, <2>2, <2>4 DEF MovesOnlyAsConfirmed
<1> QED
  BY <1>5, <1>6, <1>7, <1>8, <1>9, <1>10

\* The environment starts again: nothing of the old one is authorized in the new one,
\* and every T known so far is behind any T that can be armed from now on.
LEMMA RestartInv ==
    ASSUME IInv, Restart, UNCHANGED <<host, page, legs>>
    PROVE  IInv'
<1> USE DEF IInv
<1> clock \in Nat /\ boot \in Nat /\ clock <= MaxClock
  BY DEF Shape
<1>1. /\ clock' = clock + 1 /\ clock < MaxClock /\ boot' = boot + 1
      /\ mint'.effectiveTimestamp = ParkedT
      /\ program' = Reviewed
      /\ UNCHANGED <<sent, landed, files>>
      /\ DOMAIN job' = Legs
      /\ \A q \in Legs : job'[q] = IF job[q].at \in {"idle", "ok"} THEN job[q] ELSE Refusal
  BY DEF Restart, LocalMint
<1>2. /\ co'.armed = None /\ co'.arming = FALSE /\ co'.sims = <<>> /\ co'.auths = {}
      /\ DOMAIN co' = {"armed", "arming", "digest", "sims", "auths"}
  BY DEF Restart, StartedCoordinator
<1>3. \A q \in Legs : DOMAIN job'[q] = {"at", "arg"} /\ job'[q].at \in {"idle", "ok", "error"}
  BY <1>1 DEF Shape, Refusal
<1>4. \A q \in Legs : job'[q].at # "error" => job'[q] = job[q]
  BY <1>1 DEF Refusal
<1>5. Shape'
  <2>1. /\ clock' \in Nat /\ clock' <= MaxClock /\ boot' \in Nat
        /\ mint'.effectiveTimestamp \in Nat
    BY <1>1, Constants
  <2>2. co'.arming \in BOOLEAN
    BY <1>2, Zenon
  <2> QED
    BY <1>1, <1>2, <1>3, <2>1, <2>2 DEF Shape
<1>6. LegShape' /\ PageShape' /\ MountsFit' /\ SessionFits' /\ FlagsFit' /\ ShownFits'
  BY <1>1, PageKept
<1>7. \A q \in Legs : legs[q].T # None =>
          legs[q].T \in Nat /\ legs[q].T < clock' + ActivationDelay /\ legs[q].T < ParkedT
  BY <1>1, Constants DEF LegFits
<1>8. ASSUME NEW q \in Legs
      PROVE  LegFits(q)' /\ BaseFits(q)' /\ SentFits(q)' /\ LandedFits(q)' /\ JobFits(q)'
  <2>1. LegFits(q)'
    <3>1. legs[q].pc \in Built => legs[q].wire.boot # boot' /\ IsWire(legs[q].wire, q)'
      BY <1>1 DEF LegFits, IsWire
    <3> QED
      BY <1>1, <1>7, <3>1, Constants, Awaits DEF LegFits, Live
  <2>2. BaseFits(q)'
    BY <1>1 DEF BaseFits
  <2>3. SentFits(q)'
    BY <1>1, <1>7 DEF SentFits, IsWire
  <2>4. LandedFits(q)'
    BY <1>1, <1>7 DEF LandedFits, SentFits
  <2>5. JobFits(q)'
    <3>1. legs[q].pc = "receipt" => legs[q].wire.boot # boot'
      BY <1>1 DEF LegFits, IsWire, Built, Requested, Signed, Dated
    <3>2. legs[q].pc \notin Asking \cup Over => job'[q].at = "idle"
      BY <1>1 DEF JobFits
    <3> QED
      BY <1>1, <1>3, <3>1, <3>2 DEF JobFits, Arming, Simulating
  <2> QED
    BY <2>1, <2>2, <2>3, <2>4, <2>5
<1>9. ArmFits'
  BY <1>2, <1>3 DEF ArmFits, Arming
<1>10. FreshT'
  <2>1. \A q \in Legs : Replied(q)' => Replied(q) /\ job'[q] = job[q]
    BY <1>4 DEF Replied
  <2>2. \A q \in Legs : Replied(q) => job[q].arg \in Nat /\ job[q].arg < clock' + ActivationDelay
    BY <1>1, Constants DEF FreshT
  <2> QED
    BY <1>1, <1>3, <1>7, <2>1, <2>2, Constants DEF FreshT
<1>11. SimsFit' /\ AuthsFit'
  BY <1>2 DEF SimsFit, AuthsFit
<1>12. FilesFit'
  BY <1>1 DEF FilesFit
<1>13. MovesOnlyAsConfirmed'
  <2>1. UNCHANGED <<host, landed, legs>> /\ MovesOnlyAsConfirmed
    BY <1>1
  <2> HIDE DEF IInv
  <2> QED
    BY <2>1 DEF MovesOnlyAsConfirmed
<1> QED
  BY <1>5, <1>6, <1>8, <1>9, <1>10, <1>11, <1>12, <1>13
-------------------------------------------------------------------------------
\* The coordinator.

\* A handler goes on without touching the mint or the records.
LEMMA JobMoves ==
    ASSUME IInv, NEW p \in Legs, NEW new, DOMAIN new = {"at", "arg"},
           job' = [job EXCEPT ![p] = new],
           UNCHANGED <<clock, boot, mint, program, sent, landed, co, files, host, page, legs>>,
           new.at \in Arming => job[p].at \in Arming,
           JobFits(p)', FreshT'
    PROVE  IInv'
<1> USE DEF IInv
<1>1. /\ DOMAIN job' = Legs /\ job'[p] = new
      /\ \A q \in Legs : q # p => job'[q] = job[q]
  BY DEF Shape
<1>2. Shape'
  BY <1>1 DEF Shape
<1>3. LegShape' /\ PageShape' /\ MountsFit' /\ SessionFits' /\ FlagsFit' /\ ShownFits'
  BY PageKept
<1>4. ASSUME NEW q \in Legs
      PROVE  LegFits(q)' /\ BaseFits(q)' /\ SentFits(q)' /\ LandedFits(q)' /\ JobFits(q)'
  <2>1. LegFits(q)'
    BY DEF LegFits, Live, IsWire, Authorized
  <2>2. BaseFits(q)' /\ SentFits(q)' /\ LandedFits(q)'
    BY DEF BaseFits, SentFits, LandedFits, IsWire, Authorized
  <2>3. JobFits(q)'
    BY <1>1 DEF JobFits, IsWire, Authorized
  <2> QED
    BY <2>1, <2>2, <2>3
<1>5. ArmFits'
  BY <1>1 DEF ArmFits
<1>6. SimsFit' /\ AuthsFit' /\ FilesFit' /\ MovesOnlyAsConfirmed'
  BY DEF SimsFit, AuthsFit, FilesFit, MovesOnlyAsConfirmed
<1> QED
  BY <1>2, <1>3, <1>4, <1>5, <1>6

\* Unless it answers an arm request, a handler that goes on arms nothing.
LEMMA FreshTKept ==
    ASSUME IInv, NEW p \in Legs, NEW new, job' = [job EXCEPT ![p] = new],
           UNCHANGED <<clock, legs>>, co'.arming = co.arming,
           new.at \notin Arming, new.at = "ok" => legs[p].pc # "arm"
    PROVE  FreshT'
<1>1. /\ job'[p] = new
      /\ \A q \in Legs : q # p => job'[q] = job[q]
  BY DEF IInv, Shape
<1>2. \A q \in Legs : Replied(q)' => Replied(q) /\ job'[q] = job[q]
  BY <1>1 DEF Replied
<1>3. \A q \in Legs : job'[q].at \in Arming => job'[q] = job[q]
  BY <1>1
<1> QED
  BY <1>2, <1>3 DEF IInv, FreshT, Arming

\* A handler that reaches the mint or the records revokes no authorization.
LEMMA RecordsMove ==
    ASSUME IInv,
           UNCHANGED <<clock, boot, program, sent, landed, files, host, page, legs>>,
           Shape',
           \A q \in Legs : legs[q].T # None /\ Authorized(q) => Authorized(q)',
           \A q \in Legs : LandedFits(q)',
           \A q \in Legs : JobFits(q)',
           ArmFits', FreshT', SimsFit', AuthsFit'
    PROVE  IInv'
<1> USE DEF IInv
<1>1. LegShape' /\ PageShape' /\ MountsFit' /\ SessionFits' /\ FlagsFit' /\ ShownFits'
  BY PageKept
<1>2. ASSUME NEW q \in Legs
      PROVE  LegFits(q)' /\ BaseFits(q)' /\ SentFits(q)'
  <2>1. LegFits(q)'
    BY Awaits DEF LegFits, Live, IsWire
  <2>2. BaseFits(q)' /\ SentFits(q)'
    BY DEF BaseFits, SentFits, IsWire
  <2> QED
    BY <2>1, <2>2
<1>3. FilesFit' /\ MovesOnlyAsConfirmed'
  BY DEF FilesFit, MovesOnlyAsConfirmed
<1> QED
  BY <1>1, <1>2, <1>3

\* A handler refuses.
LEMMA RefusalInv ==
    ASSUME IInv, NEW p \in Legs, Handle(p, Refusal),
           job[p].at # "idle" \/ legs[p].pc \in Asking,
           UNCHANGED <<clock, boot, mint, program, sent, landed, co, files, host, page, legs>>
    PROVE  IInv'
<1>1. /\ DOMAIN Refusal = {"at", "arg"} /\ Refusal.at = "error" /\ "error" \notin Arming
  BY DEF Refusal, Arming
<1>2. job' = [job EXCEPT ![p] = Refusal] /\ job'[p] = Refusal
  BY DEF Handle, IInv, Shape
<1>3. JobFits(p)'
  <2>1. legs[p].pc \in Asking \cup Over
    BY DEF IInv, JobFits
  <2> QED
    BY <1>1, <1>2, <2>1 DEF JobFits, Simulating
<1>4. FreshT'
  BY <1>1, <1>2, FreshTKept
<1> QED
  BY <1>1, <1>2, <1>3, <1>4, JobMoves

LEMMA JobFailsInv ==
    ASSUME IInv, NEW p \in Legs, JobFails(p), UNCHANGED <<host, page, legs>>
    PROVE  IInv'
BY RefusalInv DEF JobFails, UnchangedByJobs

LEMMA AttestReadInv ==
    ASSUME IInv, NEW p \in Legs, AttestRead(p), UNCHANGED <<host, page, legs>>
    PROVE  IInv'
<1>1. /\ job[p].at = "attest"
      /\ UNCHANGED <<clock, boot, mint, program, sent, landed, co, files>>
  BY DEF AttestRead, UnchangedByJobs
<1>2. CASE DeploymentUnchanged
  <2> DEFINE new == Reply(program)
  <2>1. DOMAIN new = {"at", "arg"} /\ new.at = "ok" /\ new.at \notin Arming
    BY DEF Reply, Arming
  <2>2. job' = [job EXCEPT ![p] = new] /\ job'[p] = new
    BY <1>2 DEF AttestRead, Handle, IInv, Shape
  <2>3. legs[p].pc \in {"deploy1", "deploy2"} \cup Over
    BY <1>1 DEF IInv, JobFits
  <2>4. legs[p].pc # "arm" /\ legs[p].pc # "receipt" /\ legs[p].pc \in Asking \cup Over
    BY <2>3 DEF Over, Asking
  <2> HIDE DEF new
  <2>5. JobFits(p)'
    BY <1>1, <2>1, <2>2, <2>4 DEF JobFits, Simulating
  <2>6. FreshT'
    BY <1>1, <2>1, <2>2, <2>4, FreshTKept
  <2> QED
    BY <1>1, <2>1, <2>2, <2>5, <2>6, JobMoves
<1>3. CASE ~DeploymentUnchanged
  <2>1. Handle(p, Refusal)
    BY <1>3 DEF AttestRead
  <2> QED
    BY <1>1, <2>1, RefusalInv
<1> QED
  BY <1>2, <1>3

LEMMA SimClockInv ==
    ASSUME IInv, NEW p \in Legs, SimClock(p), UNCHANGED <<host, page, legs>>
    PROVE  IInv'
<1> DEFINE wire == job[p].arg
           ok   == ClockMatchesPhase(clock, wire.T, wire.phase)
<1>1. /\ job[p].at = "sim-clock"
      /\ UNCHANGED <<clock, boot, mint, program, sent, landed, co, files>>
      /\ ok => Handle(p, [at |-> "sim-run", arg |-> [wire |-> wire, read |-> clock]])
      /\ ~ok => Handle(p, Refusal)
  BY DEF SimClock, UnchangedByJobs
<1>2. CASE ok
  <2> DEFINE new == [at |-> "sim-run", arg |-> [wire |-> wire, read |-> clock]]
  <2>1. /\ DOMAIN new = {"at", "arg"} /\ new.at = "sim-run" /\ new.at \notin Arming
        /\ new.arg.wire = wire /\ new.arg.read = clock
    BY DEF Arming
  <2>2. job' = [job EXCEPT ![p] = new] /\ job'[p] = new
    BY <1>1, <1>2 DEF Handle, IInv, Shape
  <2>3. /\ legs[p].pc \in {"presign"} \cup Over /\ legs[p].signedAt = None
        /\ IsWire(wire, p) /\ legs[p].T # None /\ clock \in Nat
    BY <1>1 DEF IInv, JobFits, Simulating, Shape
  <2>4. legs[p].pc \in Asking \cup Over
    BY <2>3 DEF Asking
  <2> HIDE DEF new
  <2>5. JobFits(p)'
    BY <1>1, <1>2, <2>1, <2>2, <2>3, <2>4 DEF JobFits, IsWire, ClockMatchesPhase
  <2>6. FreshT'
    BY <1>1, <2>1, <2>2, FreshTKept
  <2> QED
    BY <1>1, <2>1, <2>2, <2>5, <2>6, JobMoves
<1>3. CASE ~ok
  BY <1>1, <1>3, RefusalInv
<1> QED
  BY <1>2, <1>3

LEMMA ArmReadInv ==
    ASSUME IInv, NEW p \in Legs, ArmRead(p), UNCHANGED <<host, page, legs>>
    PROVE  IInv'
<1> DEFINE ok == mint.effectiveTimestamp = ParkedT
<1>1. /\ job[p].at = "arm-read"
      /\ UNCHANGED <<clock, boot, mint, program, sent, landed, co, files>>
      /\ ok => Handle(p, [at |-> "arm-send", arg |-> clock + ActivationDelay])
      /\ ~ok => Handle(p, Refusal)
  BY DEF ArmRead, UnchangedByJobs
<1>2. CASE ok
  <2> DEFINE T == clock + ActivationDelay
             new == [at |-> "arm-send", arg |-> T]
  <2>1. /\ DOMAIN new = {"at", "arg"} /\ new.at = "arm-send" /\ new.at \in Arming /\ new.arg = T
    BY DEF Arming
  <2>2. /\ job' = [job EXCEPT ![p] = new] /\ job'[p] = new
        /\ \A q \in Legs : q # p => job'[q] = job[q]
    BY <1>1, <1>2 DEF Handle, IInv, Shape
  <2>3. legs[p].pc \in {"arm"} \cup Over /\ job[p].at \in Arming
    BY <1>1 DEF IInv, JobFits, Arming
  <2>4. legs[p].pc \in Asking \cup Over /\ legs[p].pc # "receipt"
    BY <2>3 DEF Asking, Over
  <2>5. T \in Nat /\ T <= clock + ActivationDelay
    BY Constants DEF IInv, Shape
  <2> HIDE DEF new, T
  <2>6. JobFits(p)'
    BY <1>1, <2>1, <2>2, <2>3, <2>4 DEF JobFits, Arming, Simulating
  <2>7. FreshT'
    <3>1. /\ \A q \in Legs : legs[q].T # None => legs[q].T < T
          /\ \A q \in Legs : Replied(q) => job[q].arg < T
      BY <1>1 DEF IInv, FreshT, T
    <3>2. \A q \in Legs : q # p => job[q].at \notin Arming
      BY <2>3 DEF IInv, ArmFits
    <3>3. \A q \in Legs : Replied(q)' => Replied(q) /\ job'[q] = job[q]
      BY <1>1, <2>1, <2>2 DEF Replied
    <3>4. co'.arming
      BY <1>1, <2>3 DEF IInv, ArmFits
    <3>5. \A q \in Legs : job'[q].at # "arm-read"
      BY <2>1, <2>2, <3>2 DEF Arming
    <3>6. \A q \in Legs : job'[q].at \in {"arm-send", "arm-verify"} => q = p
      BY <2>2, <3>2 DEF Arming
    <3> QED
      BY <1>1, <2>1, <2>2, <2>5, <3>1, <3>3, <3>4, <3>5, <3>6 DEF IInv, FreshT
  <2> QED
    BY <1>1, <2>1, <2>2, <2>3, <2>6, <2>7, JobMoves
<1>3. CASE ~ok
  BY <1>1, <1>3, RefusalInv
<1> QED
  BY <1>2, <1>3

\* The new schedule is later than every schedule of an earlier environment.
LEMMA ArmLandInv ==
    ASSUME IInv, NEW p \in Legs, ArmLand(p), UNCHANGED <<host, page, legs>>
    PROVE  IInv'
<1> USE DEF IInv
<1> DEFINE T   == job[p].arg
           new == [job[p] EXCEPT !.at = "arm-verify"]
<1>1. /\ job[p].at = "arm-send"
      /\ UNCHANGED <<clock, boot, program, sent, landed, co, files>>
      /\ job' = [job EXCEPT ![p] = new]
      /\ mint'.effectiveTimestamp = T
  BY DEF ArmLand, UnchangedByJobs, Handle, LocalMint
<1>2. /\ DOMAIN new = {"at", "arg"} /\ new.at = "arm-verify" /\ new.arg = T
      /\ DOMAIN job' = Legs /\ job'[p] = new
      /\ \A q \in Legs : q # p => job'[q] = job[q]
  BY <1>1 DEF Shape
<1>3. T \in Nat /\ \A q \in Legs : legs[q].T # None => legs[q].T < T
  BY <1>1 DEF FreshT
<1> HIDE DEF new
<1>4. Shape'
  BY <1>1, <1>2, <1>3 DEF Shape
<1>5. \A q \in Legs : Authorized(q) => Authorized(q)'
  BY <1>1 DEF Authorized
<1>6. \A q \in Legs : LandedFits(q)'
  BY <1>1, <1>3 DEF LandedFits, SentFits
<1>7. \A q \in Legs : JobFits(q)'
  <2>1. ASSUME NEW q \in Legs, q # p PROVE JobFits(q)'
    BY <1>1, <1>2, <2>1 DEF JobFits, IsWire, Authorized
  <2>2. legs[p].pc \in {"arm"} \cup Over
    BY <1>1 DEF JobFits, Arming
  <2>3. legs[p].pc \in Asking \cup Over
    BY <2>2 DEF Asking
  <2>4. JobFits(p)'
    BY <1>1, <1>2, <2>2, <2>3 DEF JobFits, Simulating
  <2> QED
    BY <2>1, <2>4
<1>8. ArmFits'
  BY <1>1, <1>2 DEF ArmFits, Arming
<1>9. FreshT'
  <2>1. \A q \in Legs : Replied(q)' => Replied(q) /\ job'[q] = job[q]
    BY <1>1, <1>2 DEF Replied
  <2>2. \A q \in Legs : job'[q].at = "arm-read" => job[q].at = "arm-read"
    BY <1>2
  <2>3. \A q \in Legs : job'[q].at \in {"arm-send", "arm-verify"} =>
            job[q].at \in {"arm-send", "arm-verify"} /\ job'[q].arg = job[q].arg
    BY <1>1, <1>2
  <2> QED
    BY <1>1, <2>1, <2>2, <2>3 DEF FreshT
<1>10. SimsFit' /\ AuthsFit'
  BY <1>1 DEF SimsFit, AuthsFit
<1> QED
  BY <1>1, <1>4, <1>5, <1>6, <1>7, <1>8, <1>9, <1>10, RecordsMove

\* The environment is armed: nothing was authorized in it before.
LEMMA ArmVerifyInv ==
    ASSUME IInv, NEW p \in Legs, ArmVerify(p), UNCHANGED <<host, page, legs>>
    PROVE  IInv'
<1> USE DEF IInv
<1> DEFINE T  == job[p].arg
           ok == mint = LocalMint(T)
<1>1. /\ job[p].at = "arm-verify"
      /\ UNCHANGED <<clock, boot, mint, program, sent, landed, files>>
  BY DEF ArmVerify, UnchangedByJobs
<1>2. CASE ok
  <2>1. PICK new \in {Reply(T), Refusal} : job' = [job EXCEPT ![p] = new]
    BY <1>2 DEF ArmVerify, Handle
  <2>2. /\ DOMAIN new = {"at", "arg"} /\ new.at \in {"ok", "error"}
        /\ new.at = "ok" => new.arg = T
    BY DEF Reply, Refusal
  <2>3. /\ DOMAIN job' = Legs /\ job'[p] = new
        /\ \A q \in Legs : q # p => job'[q] = job[q]
    BY <2>1 DEF Shape
  <2>4. /\ DOMAIN co' = DOMAIN co /\ co'.armed = T /\ co'.arming = co.arming
        /\ co'.sims = co.sims /\ co'.auths = co.auths
    BY <1>2 DEF ArmVerify, Shape
  <2>5. /\ T \in Nat /\ T <= clock + ActivationDelay
        /\ \A q \in Legs : legs[q].T # None => legs[q].T < T /\ legs[q].T \in Nat
        /\ \A q \in Legs : Replied(q) => job[q].arg < T /\ job[q].arg \in Nat
    BY <1>1 DEF FreshT, LegFits
  <2>6. /\ co.armed = None /\ co.arming
        /\ \A q \in Legs : q # p => job[q].at \notin Arming
        /\ legs[p].pc \in {"arm"} \cup Over
    BY <1>1 DEF ArmFits, JobFits, Arming
  <2>7. mint.effectiveTimestamp = T
    BY <1>2 DEF LocalMint
  <2> HIDE DEF ok, T
  <2>8. Shape'
    BY <1>1, <2>2, <2>3, <2>4 DEF Shape
  <2>9. \A q \in Legs : legs[q].T # None => ~Authorized(q)
    BY <2>6 DEF Authorized
  <2>10. \A q \in Legs : LandedFits(q)'
    BY <1>1 DEF LandedFits
  <2>11. \A q \in Legs : JobFits(q)'
    <3>1. ASSUME NEW q \in Legs, q # p PROVE JobFits(q)'
      <4>1. legs[q].pc = "receipt" => legs[q].T # None
        BY DEF LegFits, WithT, Built, Requested, Signed, Dated
      <4> QED
        BY <1>1, <2>3, <2>4, <2>6, <2>9, <3>1, <4>1 DEF JobFits, IsWire
    <3>2. legs[p].pc \in Asking \cup Over /\ legs[p].pc # "receipt"
      BY <2>6 DEF Asking, Over
    <3>3. JobFits(p)'
      BY <1>1, <2>2, <2>3, <3>2 DEF JobFits, Simulating, Arming
    <3> QED
      BY <3>1, <3>3
  <2>12. ArmFits'
    <3>1. \A q \in Legs : job'[q].at \notin Arming
      BY <2>2, <2>3, <2>6 DEF Arming
    <3> QED
      BY <1>1, <2>4, <2>5, <2>6, <2>7, <3>1 DEF ArmFits
  <2>13. FreshT'
    <3>1. \A q \in Legs : job'[q].at \notin Arming
      BY <2>2, <2>3, <2>6 DEF Arming
    <3>2. \A q \in Legs : q # p /\ Replied(q)' => Replied(q) /\ job'[q] = job[q]
      BY <2>3 DEF Replied
    <3>3. Replied(p)' => job'[p].arg = T
      BY <2>2, <2>3 DEF Replied
    <3>4. \A q \in Legs : legs[q].T # T
      BY <2>5, Constants
    <3> QED
      BY <1>1, <2>4, <2>5, <2>6, <3>1, <3>2, <3>3, <3>4 DEF FreshT, Arming
  <2>14. SimsFit' /\ AuthsFit'
    BY <1>1, <2>4 DEF SimsFit, AuthsFit
  <2> QED
    BY <1>1, <2>8, <2>9, <2>10, <2>11, <2>12, <2>13, <2>14, RecordsMove
<1>3. CASE ~ok
  <2>1. Handle(p, Refusal) /\ UNCHANGED co
    BY <1>3 DEF ArmVerify
  <2> QED
    BY <1>1, <2>1, RefusalInv
<1> QED
  BY <1>2, <1>3

LEMMA SameSide ==
    ASSUME NEW read \in Nat, NEW now \in Nat, NEW T \in Nat, NEW phase \in {"Pending", "Activated"},
           ClockMatchesPhase(read, T, phase),
           phase = "Pending" => now < T, phase = "Activated" => now > T
    PROVE  ObservedRelation(read, T) = ObservedRelation(now, T)
<1>1. CASE phase = "Pending"
  BY <1>1 DEF ClockMatchesPhase, ObservedRelation, RequiredRelation
<1>2. CASE phase = "Activated"
  <2>1. ~(now < T)
    BY <1>2
  <2>2. RequiredRelation(phase) = "at or after"
    BY <1>2 DEF RequiredRelation
  <2> QED
    BY <2>1, <2>2 DEF ClockMatchesPhase, ObservedRelation
<1> QED
  BY <1>1, <1>2

\* A simulation that succeeded against the reviewed program ran on the side of T that
\* the earlier Clock read stands for.
LEMMA SimRunInv ==
    ASSUME IInv, NEW p \in Legs, SimRun(p), UNCHANGED <<host, page, legs>>
    PROVE  IInv'
<1> USE DEF IInv
<1> DEFINE wire == job[p].arg.wire
           read == job[p].arg.read
           sim  == PreSignSimulationRecord(wire, read)
           new  == Reply(Len(co.sims) + 1)
<1>1. /\ job[p].at = "sim-run"
      /\ UNCHANGED <<clock, boot, mint, program, sent, landed, files>>
  BY DEF SimRun, UnchangedByJobs
<1>2. \/ /\ SimulationMaySucceed(wire)
         /\ co' = [co EXCEPT !.sims = Append(@, sim)]
         /\ Handle(p, new)
      \/ Handle(p, Refusal) /\ UNCHANGED co
  BY DEF SimRun
<1>3. CASE /\ SimulationMaySucceed(wire)
           /\ co' = [co EXCEPT !.sims = Append(@, sim)]
           /\ Handle(p, new)
  <2>1. /\ job' = [job EXCEPT ![p] = new]
        /\ DOMAIN new = {"at", "arg"} /\ new.at = "ok"
    BY <1>3 DEF Handle, Reply
  <2>2. /\ DOMAIN job' = Legs /\ job'[p] = new
        /\ \A q \in Legs : q # p => job'[q] = job[q]
    BY <2>1 DEF Shape
  <2>3. /\ DOMAIN co' = DOMAIN co /\ co'.armed = co.armed /\ co'.arming = co.arming
        /\ co'.sims = Append(co.sims, sim) /\ co'.auths = co.auths
    BY <1>3 DEF Shape
  <2>4. /\ legs[p].pc \in {"presign"} \cup Over /\ legs[p].signedAt = None
        /\ IsWire(wire, p) /\ legs[p].T \in Nat /\ read \in Nat
        /\ ClockMatchesPhase(read, wire.T, wire.phase)
        /\ clock \in Nat /\ program \in {Reviewed, Replaced}
    BY <1>1 DEF JobFits, Simulating, Shape, LegFits
  <2>5. wire.leg = p /\ wire.T \in Nat /\ wire.phase \in {"Pending", "Activated"}
    BY <2>4 DEF IsWire, PhaseOf
  <2>6. /\ sim \in SimulationRecords /\ sim.leg = p /\ sim.T = wire.T /\ sim.ran = clock
        /\ sim.program = program
        /\ sim.timing.clockRelation = ObservedRelation(read, wire.T)
    <3>1. PhaseTiming(read, wire.T, wire.phase) \in Timings
      BY <2>5 DEF PhaseTiming, Timings, ObservedRelation
    <3> QED
      BY <2>4, <2>5, <3>1 DEF SimulationRecords, PreSignSimulationRecord, PhaseTiming
  <2>7. program = Reviewed => ObservedRelation(read, wire.T) = ObservedRelation(clock, wire.T)
    <3>1. program = Reviewed =>
            /\ wire.phase = "Pending" => clock < wire.T
            /\ wire.phase = "Activated" => clock > wire.T
      BY <1>3, <2>4, <2>5, GuardPasses DEF SimulationMaySucceed
    <3> QED
      BY <2>4, <2>5, <3>1, SameSide
  <2> HIDE DEF wire, read, sim, new
  <2>8. /\ co'.sims \in Seq(SimulationRecords)
        /\ DOMAIN co.sims \subseteq DOMAIN co'.sims
        /\ \A i \in DOMAIN co.sims : co'.sims[i] = co.sims[i]
        /\ \A i \in DOMAIN co'.sims : i \notin DOMAIN co.sims => co'.sims[i] = sim
    <3>1. co.sims \in Seq(SimulationRecords)
      BY DEF SimsFit
    <3>2. \A s \in Seq(SimulationRecords) :
            LET t == Append(s, sim)
            IN  /\ t \in Seq(SimulationRecords)
                /\ DOMAIN s \subseteq DOMAIN t
                /\ \A i \in DOMAIN s : t[i] = s[i]
                /\ \A i \in DOMAIN t : i \notin DOMAIN s => t[i] = sim
      BY <2>6
    <3> QED
      BY <2>3, <3>1, <3>2
  <2>9. Shape'
    BY <1>1, <2>1, <2>2, <2>3 DEF Shape
  <2>10. \A q \in Legs : Authorized(q) => Authorized(q)'
    BY <2>3 DEF Authorized
  <2>11. \A q \in Legs : LandedFits(q)'
    BY <1>1 DEF LandedFits
  <2>12. legs[p].pc # "arm" /\ legs[p].pc # "receipt" /\ legs[p].pc \in Asking \cup Over
    BY <2>4 DEF Over, Asking
  <2>13. \A q \in Legs : JobFits(q)'
    <3>1. ASSUME NEW q \in Legs, q # p PROVE JobFits(q)'
      BY <1>1, <2>2, <2>3, <2>8, <3>1 DEF JobFits, IsWire, Authorized
    <3>2. JobFits(p)'
      BY <1>1, <2>1, <2>2, <2>12 DEF JobFits, Simulating, Arming
    <3> QED
      BY <3>1, <3>2
  <2>14. ArmFits'
    BY <1>1, <2>1, <2>2, <2>3 DEF ArmFits, Arming
  <2>15. FreshT'
    BY <1>1, <2>1, <2>2, <2>3, <2>12, FreshTKept DEF Arming
  <2>16. SimsFit'
    <3>1. ASSUME NEW i \in DOMAIN co'.sims
          PROVE  /\ co'.sims[i].ran <= clock
                 /\ legs[co'.sims[i].leg].signedAt # None =>
                      co'.sims[i].ran <= legs[co'.sims[i].leg].signedAt
                 /\ co'.sims[i].program = Reviewed =>
                      co'.sims[i].timing.clockRelation
                        = ObservedRelation(co'.sims[i].ran, co'.sims[i].T)
      <4>1. CASE i \in DOMAIN co.sims
        BY <2>8, <4>1 DEF SimsFit
      <4>2. CASE i \notin DOMAIN co.sims
        BY <2>4, <2>6, <2>7, <2>8, <4>2
      <4> QED
        BY <4>1, <4>2
    <3> QED
      BY <1>1, <2>8, <3>1 DEF SimsFit
  <2>17. AuthsFit'
    BY <1>1, <2>3, <2>8 DEF AuthsFit
  <2> QED
    BY <1>1, <2>9, <2>10, <2>11, <2>13, <2>14, <2>15, <2>16, <2>17, RecordsMove
<1>4. CASE Handle(p, Refusal) /\ UNCHANGED co
  BY <1>1, <1>4, RefusalInv
<1> QED
  BY <1>2, <1>3, <1>4

\* The receipt: one per proof, of the message the proof simulated.
LEMMA ReceiptClockInv ==
    ASSUME IInv, NEW p \in Legs, ReceiptClock(p), UNCHANGED <<host, page, legs>>
    PROVE  IInv'
<1> USE DEF IInv
<1> DEFINE wire  == job[p].arg.wire
           proof == job[p].arg.proof
           auth  == SignedAuthorizationRecord(proof, wire)
           new   == Reply(wire.leg)
           ok    == ClockMatchesPhase(clock, wire.T, wire.phase)
<1>1. /\ job[p].at = "receipt-clock"
      /\ UNCHANGED <<clock, boot, mint, program, sent, landed, files>>
      /\ ok => Handle(p, new) /\ co' = [co EXCEPT !.auths = @ \cup {auth}]
      /\ ~ok => Handle(p, Refusal) /\ UNCHANGED co
  BY DEF ReceiptClock, UnchangedByJobs
<1>2. CASE ok
  <2>1. /\ job' = [job EXCEPT ![p] = new]
        /\ DOMAIN new = {"at", "arg"} /\ new.at = "ok"
    BY <1>1, <1>2 DEF Handle, Reply
  <2>2. /\ DOMAIN job' = Legs /\ job'[p] = new
        /\ \A q \in Legs : q # p => job'[q] = job[q]
    BY <2>1 DEF Shape
  <2>3. /\ DOMAIN co' = DOMAIN co /\ co'.armed = co.armed /\ co'.arming = co.arming
        /\ co'.sims = co.sims /\ co'.auths = co.auths \cup {auth}
    BY <1>1, <1>2 DEF Shape
  <2>4. /\ legs[p].pc \in {"receipt"} \cup Over
        /\ IsWire(wire, p) /\ legs[p].signedAt \in Nat /\ legs[p].signedAt <= clock
        /\ legs[p].signedAt # None
        /\ co.armed = legs[p].T /\ legs[p].T \in Nat
        /\ proof \in DOMAIN co.sims /\ co.sims[proof].leg = p
        /\ \A a \in co.auths : a.proof # proof
        /\ clock \in Nat
    BY <1>1 DEF JobFits, Shape, LegFits
  <2>5. proof \in Nat
    <3>1. \A s \in Seq(SimulationRecords) : DOMAIN s \subseteq Nat
      OBVIOUS
    <3> QED
      BY <2>4, <3>1 DEF SimsFit
  <2>6. wire.leg = p /\ wire.T = legs[p].T /\ wire.phase \in {"Pending", "Activated"}
    BY <2>4 DEF IsWire, PhaseOf
  <2>7. /\ auth \in AuthorizationRecords /\ auth.leg = p /\ auth.proof = proof
        /\ auth.clock = clock
        /\ auth.timing.clockRelation = ObservedRelation(auth.clock, auth.T)
    <3>1. PhaseTiming(clock, wire.T, wire.phase) \in Timings
      BY <2>6 DEF PhaseTiming, Timings, ObservedRelation
    <3> QED
      BY <2>4, <2>5, <2>6, <3>1 DEF AuthorizationRecords, SignedAuthorizationRecord, PhaseTiming
  <2> HIDE DEF wire, proof, auth, new, ok
  <2>8. Shape'
    BY <1>1, <2>1, <2>2, <2>3 DEF Shape
  <2>9. \A q \in Legs : Authorized(q) => Authorized(q)'
    BY <2>3 DEF Authorized
  <2>10. \A q \in Legs : LandedFits(q)'
    BY <1>1 DEF LandedFits
  <2>11. legs[p].pc # "arm" /\ legs[p].pc \in Asking \cup Over
    BY <2>4 DEF Over, Asking
  <2>12. \A q \in Legs : JobFits(q)'
    <3>1. ASSUME NEW q \in Legs, q # p PROVE JobFits(q)'
      <4>1. job[q].at = "receipt-clock" => \A a \in co'.auths : a.proof # job[q].arg.proof
        BY <2>3, <2>4, <2>7, <3>1 DEF JobFits
      <4> QED
        BY <1>1, <2>2, <2>3, <2>9, <3>1, <4>1 DEF JobFits, IsWire
    <3>2. Authorized(p)'
      BY <1>1, <2>3, <2>4, <2>7 DEF Authorized
    <3>3. JobFits(p)'
      BY <1>1, <2>1, <2>2, <2>11, <3>2 DEF JobFits, Simulating, Arming
    <3> QED
      BY <3>1, <3>3
  <2>13. ArmFits'
    BY <1>1, <2>1, <2>2, <2>3 DEF ArmFits, Arming
  <2>14. FreshT'
    BY <1>1, <2>1, <2>2, <2>3, <2>11, FreshTKept DEF Arming
  <2>15. SimsFit'
    BY <1>1, <2>3 DEF SimsFit
  <2>16. AuthsFit'
    <3>1. \A a \in co'.auths :
            /\ a.proof \in DOMAIN co.sims
            /\ co.sims[a.proof].leg = a.leg
            /\ legs[a.leg].signedAt # None
            /\ legs[a.leg].signedAt <= a.clock
            /\ a.timing.clockRelation = ObservedRelation(a.clock, a.T)
      BY <2>3, <2>4, <2>7 DEF AuthsFit
    <3>2. \A a, b \in co'.auths : a.proof = b.proof => a = b
      BY <2>3, <2>4, <2>7 DEF AuthsFit
    <3>3. co'.auths \subseteq AuthorizationRecords
      BY <2>3, <2>7 DEF AuthsFit
    <3> QED
      BY <1>1, <2>3, <3>1, <3>2, <3>3 DEF AuthsFit
  <2> QED
    BY <1>1, <2>8, <2>9, <2>10, <2>12, <2>13, <2>14, <2>15, <2>16, RecordsMove
<1>3. CASE ~ok
  BY <1>1, <1>3, RefusalInv
<1> QED
  BY <1>2, <1>3
-------------------------------------------------------------------------------
\* The page's requests.

LEMMA AskedKeeps ==
    ASSUME NEW p \in Legs, Asked(p)
    PROVE  /\ job[p] = Idle
           /\ UNCHANGED <<clock, boot, mint, program, sent, landed, files, host, page, legs>>
BY DEF Asked

LEMMA ArmRequestedInv ==
    ASSUME IInv, NEW p \in Legs, ArmRequested(p)
    PROVE  IInv'
<1> USE DEF IInv
<1>1. /\ legs[p].pc = "arm" /\ job[p].at = "idle"
      /\ UNCHANGED <<clock, boot, mint, program, sent, landed, files, host, page, legs>>
  BY AskedKeeps DEF ArmRequested, Idle
<1>2. CASE co.armed # None \/ co.arming
  BY <1>1, <1>2, RefusalInv DEF ArmRequested, ArmCall, Asking
<1>3. CASE ~(co.armed # None \/ co.arming)
  <2> DEFINE new == [at |-> "arm-read", arg |-> None]
  <2>1. /\ job' = [job EXCEPT ![p] = new]
        /\ DOMAIN new = {"at", "arg"} /\ new.at = "arm-read"
    BY <1>3 DEF ArmRequested, ArmCall, Handle
  <2>2. /\ DOMAIN job' = Legs /\ job'[p] = new
        /\ \A q \in Legs : q # p => job'[q] = job[q]
    BY <2>1 DEF Shape
  <2>3. /\ DOMAIN co' = DOMAIN co /\ co'.armed = co.armed /\ co'.arming
        /\ co'.sims = co.sims /\ co'.auths = co.auths
    BY <1>3 DEF ArmRequested, ArmCall, Shape
  <2>4. co'.arming \in BOOLEAN
    <3>1. co' = [co EXCEPT !.arming = TRUE] /\ "arming" \in DOMAIN co
      BY <1>3 DEF ArmRequested, ArmCall, Shape
    <3>2. co'.arming = TRUE
      BY <3>1
    <3> QED
      BY <3>2, Zenon
  <2> HIDE DEF new
  <2>5. Shape'
    BY <1>1, <2>1, <2>2, <2>3, <2>4 DEF Shape
  <2>6. \A q \in Legs : Authorized(q) => Authorized(q)'
    BY <1>1, <2>3 DEF Authorized
  <2>7. \A q \in Legs : LandedFits(q)'
    BY <1>1 DEF LandedFits
  <2>8. \A q \in Legs : JobFits(q)'
    <3>1. ASSUME NEW q \in Legs, q # p PROVE JobFits(q)'
      BY <1>1, <2>2, <2>3, <3>1 DEF JobFits, IsWire, Authorized
    <3>2. JobFits(p)'
      BY <1>1, <2>1, <2>2 DEF JobFits, Simulating, Arming, Asking
    <3> QED
      BY <3>1, <3>2
  <2>9. \A q \in Legs : job[q].at \notin Arming
    BY <1>3 DEF ArmFits
  <2>10. ArmFits'
    BY <1>1, <1>3, <2>1, <2>2, <2>3, <2>9 DEF ArmFits
  <2>11. FreshT'
    <3>1. \A q \in Legs : Replied(q)' => Replied(q) /\ job'[q] = job[q]
      BY <1>1, <2>1, <2>2 DEF Replied
    <3>2. \A q \in Legs : job'[q].at \notin {"arm-send", "arm-verify"}
      BY <2>1, <2>2, <2>9 DEF Arming
    <3> QED
      BY <1>1, <1>3, <3>1, <3>2 DEF FreshT
  <2>12. SimsFit' /\ AuthsFit'
    BY <1>1, <2>3 DEF SimsFit, AuthsFit
  <2> QED
    BY <1>1, <2>5, <2>6, <2>7, <2>8, <2>10, <2>11, <2>12, RecordsMove
<1> QED
  BY <1>2, <1>3

LEMMA PreSignRequestedInv ==
    ASSUME IInv, NEW p \in Legs, PreSignRequested(p)
    PROVE  IInv'
<1> DEFINE wire == legs[p].wire
           ok   == co.armed # None /\ DecodesFor(wire, co.armed)
           new  == [at |-> "sim-clock", arg |-> wire]
<1>1. /\ legs[p].pc = "presign" /\ job[p].at = "idle"
      /\ UNCHANGED <<clock, boot, mint, program, sent, landed, co, files, host, page, legs>>
      /\ ok => job' = [job EXCEPT ![p] = new]
      /\ ~ok => Handle(p, Refusal)
  <2>1. Asked(p) /\ Handle(p, IF ok THEN new ELSE Refusal) /\ UNCHANGED co /\ legs[p].pc = "presign"
    BY DEF PreSignRequested, PreSignCall
  <2>2. Idle.at = "idle"
    BY DEF Idle
  <2> HIDE DEF ok, new, wire
  <2> QED
    BY <2>1, <2>2, AskedKeeps DEF Handle
<1>2. CASE ok
  <2>1. /\ DOMAIN new = {"at", "arg"} /\ new.at = "sim-clock" /\ new.arg = wire
        /\ new.at \notin Arming
    BY DEF Arming
  <2>2. job'[p] = new
    BY <1>1, <1>2 DEF IInv, Shape
  <2>3. legs[p].pc \in Built /\ legs[p].pc \notin Signed /\ Live(p) /\ legs[p].pc \in Asking
    BY <1>1 DEF Built, Signed, Dated, Receipted, Waited, Crossed, Sending, Live, Finished, Asking
  <2>4. legs[p].signedAt = None /\ IsWire(wire, p) /\ legs[p].T # None
    BY <2>3, Awaits DEF IInv, LegFits
  <2> HIDE DEF new, ok, wire
  <2>5. JobFits(p)'
    BY <1>1, <2>1, <2>2, <2>3, <2>4 DEF JobFits, IsWire
  <2>6. FreshT'
    BY <1>1, <1>2, <2>1, FreshTKept
  <2> QED
    BY <1>1, <1>2, <2>1, <2>5, <2>6, JobMoves
<1>3. CASE ~ok
  BY <1>1, <1>3, RefusalInv DEF Asking
<1> QED
  BY <1>2, <1>3

LEMMA DeploymentRequestedInv ==
    ASSUME IInv, NEW p \in Legs, DeploymentRequested(p)
    PROVE  IInv'
<1> DEFINE new == [at |-> "attest", arg |-> None]
<1>1. /\ legs[p].pc \in {"deploy1", "deploy2"}
      /\ UNCHANGED <<clock, boot, mint, program, sent, landed, co, files, host, page, legs>>
      /\ job' = [job EXCEPT ![p] = new]
  BY AskedKeeps DEF DeploymentRequested, AttestCall, Handle
<1>2. /\ DOMAIN new = {"at", "arg"} /\ new.at = "attest"
      /\ new.at \notin Arming /\ new.at \notin Simulating
  BY DEF Arming, Simulating
<1>3. job'[p] = new
  BY <1>1 DEF IInv, Shape
<1> HIDE DEF new
<1>4. JobFits(p)'
  BY <1>1, <1>2, <1>3 DEF JobFits, Asking
<1>5. FreshT'
  BY <1>1, <1>2, FreshTKept
<1> QED
  BY <1>1, <1>2, <1>4, <1>5, JobMoves

LEMMA ReceiptRequestedInv ==
    ASSUME IInv, NEW p \in Legs, ReceiptRequested(p)
    PROVE  IInv'
<1> DEFINE wire  == legs[p].wire
           proof == legs[p].proof
           ok    == Authorizes(proof, wire)
           new   == [at |-> "receipt-clock", arg |-> [proof |-> proof, wire |-> wire]]
<1>1. /\ legs[p].pc = "receipt" /\ job[p].at = "idle"
      /\ UNCHANGED <<clock, boot, mint, program, sent, landed, co, files, host, page, legs>>
      /\ ok => job' = [job EXCEPT ![p] = new]
      /\ ~ok => Handle(p, Refusal)
  <2>1. Asked(p) /\ Handle(p, IF ok THEN new ELSE Refusal) /\ UNCHANGED co /\ legs[p].pc = "receipt"
    BY DEF ReceiptRequested, ReceiptCall
  <2>2. Idle.at = "idle"
    BY DEF Idle
  <2> HIDE DEF ok, new, wire
  <2> QED
    BY <2>1, <2>2, AskedKeeps DEF Handle
<1>2. CASE ok
  <2>1. /\ DOMAIN new = {"at", "arg"} /\ new.at = "receipt-clock"
        /\ new.arg.wire = wire /\ new.arg.proof = proof
        /\ new.at \notin Arming /\ new.at \notin Simulating
    BY DEF Arming, Simulating
  <2>2. job'[p] = new
    BY <1>1, <1>2 DEF IInv, Shape
  <2>3. legs[p].pc \in Dated /\ legs[p].pc \in Asking
    BY <1>1 DEF Dated, Asking
  <2>4. legs[p].signedAt # None /\ IsWire(wire, p) /\ legs[p].T # None
    BY <2>3, Awaits DEF IInv, LegFits
  <2>5. /\ co.armed = legs[p].T
        /\ proof \in DOMAIN co.sims /\ co.sims[proof].leg = p
        /\ \A a \in co.auths : a.proof # proof
    BY <1>2, <2>4 DEF Authorizes, DecodesFor, IsWire
  <2> HIDE DEF new, ok, wire, proof
  <2>6. JobFits(p)'
    BY <1>1, <2>1, <2>2, <2>3, <2>4, <2>5 DEF JobFits, IsWire
  <2>7. FreshT'
    BY <1>1, <1>2, <2>1, FreshTKept
  <2> QED
    BY <1>1, <1>2, <2>1, <2>6, <2>7, JobMoves
<1>3. CASE ~ok
  BY <1>1, <1>3, RefusalInv DEF Asking
<1> QED
  BY <1>2, <1>3
-------------------------------------------------------------------------------
\* Steps of the legs and the page.

\* A step that leaves the environment alone, reads answers of the coordinator, and
\* leaves what the legs with a T are about as it is, a signature that has just been
\* given excepted.
LegsKeep ==
    /\ UNCHANGED <<clock, boot, mint, program, landed, co, files, host>>
    /\ DOMAIN legs' = Legs /\ DOMAIN job' = Legs /\ DOMAIN sent' = Legs
    /\ \A q \in Legs :
         /\ legs[q].T # None =>
              /\ legs'[q].kind = legs[q].kind
              /\ legs'[q].T = legs[q].T
              /\ legs'[q].base = legs[q].base
         /\ \/ legs'[q].signedAt = legs[q].signedAt
            \/ legs[q].signedAt = None /\ legs'[q].signedAt = clock /\ sent[q] = None
         /\ job'[q] = job[q] \/ job'[q] = Idle
         /\ legs'[q].pc = "arm" => legs[q].pc = "arm" \/ job'[q].at # "ok"

LEMMA LegsKeepInv ==
    ASSUME IInv, LegsKeep
    PROVE  /\ Shape'
           /\ \A q \in Legs : sent'[q] = sent[q] => SentFits(q)' /\ LandedFits(q)'
           /\ ArmFits' /\ SimsFit' /\ AuthsFit' /\ FilesFit' /\ MovesOnlyAsConfirmed'
<1> USE DEF IInv
<1>1. /\ UNCHANGED <<clock, boot, mint, program, landed, co, files, host>>
      /\ DOMAIN legs' = Legs /\ DOMAIN job' = Legs /\ DOMAIN sent' = Legs
  BY DEF LegsKeep
<1>2. \A q \in Legs : legs[q].T # None =>
        legs'[q].kind = legs[q].kind /\ legs'[q].T = legs[q].T /\ legs'[q].base = legs[q].base
  BY DEF LegsKeep
<1>3. \A q \in Legs :
        \/ legs'[q].signedAt = legs[q].signedAt
        \/ legs[q].signedAt = None /\ legs'[q].signedAt = clock /\ sent[q] = None
  BY DEF LegsKeep
<1>4. \A q \in Legs : DOMAIN job'[q] = {"at", "arg"} /\ (job'[q].at # "idle" => job'[q] = job[q])
  BY DEF LegsKeep, Shape, Idle
<1>5. \A q \in Legs : landed[q] # None => legs[q].T # None
  BY DEF LandedFits, SentFits
<1>6. Shape'
  BY <1>1, <1>4 DEF Shape
<1>7. ASSUME NEW q \in Legs, sent'[q] = sent[q]
      PROVE  SentFits(q)' /\ LandedFits(q)'
  <2>1. SentFits(q)'
    BY <1>1, <1>2, <1>3, <1>7 DEF SentFits, IsWire, Authorized
  <2>2. LandedFits(q)'
    BY <1>1, <1>2, <1>5, <1>7 DEF LandedFits
  <2> QED
    BY <2>1, <2>2
<1>8. ArmFits'
  BY <1>1, <1>4 DEF ArmFits, Arming
<1>9. SimsFit'
  BY <1>1, <1>3, SimIsRecord DEF SimsFit
<1>10. AuthsFit'
  <2>1. \A a \in co.auths : a.leg \in Legs
    BY DEF AuthsFit, AuthorizationRecords
  <2> QED
    BY <1>1, <1>3, <2>1 DEF AuthsFit
<1>11. FilesFit'
  BY <1>1, <1>2, <1>5 DEF FilesFit
<1>12. MovesOnlyAsConfirmed'
  <2>1. ASSUME NEW q \in Legs, landed[q] # None, landed[q].outcome = "Ok",
               landed[q].program = Reviewed
        PROVE  /\ legs[q].T # None /\ legs[q].base \in Legs
               /\ legs[legs[q].base].T # None
    BY <1>5, <2>1 DEF LandedFits, BaseFits
  <2>2. ASSUME NEW q \in Legs, landed[q] # None, landed[q].outcome = "Ok",
               landed[q].program = Reviewed
        PROVE  /\ legs'[q].kind = "REFRESHED"
               /\ landed[q].at > legs'[q].T
               /\ landed[legs'[q].base].outcome = "ActivationPhaseChanged"
               /\ host = "app" \/ legs'[legs'[q].base].T = legs'[q].T =>
                    landed[legs'[q].base].boot = landed[q].boot
    <3>1. /\ legs'[q].kind = legs[q].kind /\ legs'[q].T = legs[q].T
          /\ legs'[q].base = legs[q].base /\ legs'[legs[q].base].T = legs[legs[q].base].T
      BY <1>2, <2>1, <2>2
    <3> QED
      BY <2>2, <3>1 DEF MovesOnlyAsConfirmed
  <2>3. \A p, q \in Legs :
          landed[p] # None /\ landed[q] # None /\ landed[p].boot = landed[q].boot
          /\ landed[p].outcome = "Ok" /\ landed[q].outcome = "Ok"
          /\ {landed[p].program, landed[q].program} = {Reviewed} => p = q
    BY DEF MovesOnlyAsConfirmed
  <2> QED
    BY <1>1, <2>2, <2>3 DEF MovesOnlyAsConfirmed
<1> QED
  BY <1>6, <1>7, <1>8, <1>9, <1>10, <1>11, <1>12

\* A leg's base keeps its T, also while another leg gets one.
LEMMA BaseKept ==
    ASSUME IInv, LegsKeep, NEW q \in Legs, legs'[q].T = legs[q].T
    PROVE  BaseFits(q)'
<1>1. legs[q].T # None /\ legs[q].kind = "REFRESHED" =>
        legs[q].base \in Legs /\ landed[legs[q].base] # None /\ legs[legs[q].base].T # None
  BY DEF IInv, BaseFits, LandedFits, SentFits
<1>2. BaseFits(q)
  BY DEF IInv
<1> QED
  BY <1>1, <1>2 DEF BaseFits, LegsKeep

\* Nobody gets a T.
LEMMA TsKept ==
    ASSUME IInv, LegsKeep, \A q \in Legs : legs'[q].T = legs[q].T
    PROVE  FreshT' /\ \A q \in Legs : BaseFits(q)'
<1>1. clock' = clock /\ co' = co
  BY DEF LegsKeep
<1>2. \A q \in Legs : job'[q].at # "idle" => job'[q] = job[q]
  BY DEF LegsKeep, Idle
<1>3. \A q \in Legs : Replied(q)' => Replied(q) /\ job'[q] = job[q]
  BY <1>2 DEF LegsKeep, Replied
<1>4. FreshT'
  <2>1. \A q \in Legs : job'[q].at \in {"arm-read", "arm-send", "arm-verify"} => job'[q] = job[q]
    BY <1>2
  <2> QED
    BY <1>1, <1>3, <2>1 DEF IInv, FreshT
<1> QED
  BY <1>4, BaseKept

LEMMA OtherLegs ==
    ASSUME IInv, NEW q \in Legs, legs'[q] = legs[q], job'[q] = job[q], sent'[q] = sent[q],
           UNCHANGED <<clock, boot, landed, co>>
    PROVE  LegFits(q)' /\ JobFits(q)'
<1>1. LegFits(q)'
  BY DEF IInv, LegFits, Live, IsWire, Authorized
<1>2. JobFits(q)'
  BY DEF IInv, JobFits, IsWire, Authorized
<1> QED
  BY <1>1, <1>2

\* A leg goes on: what the page shows stays, its stage is the new await's.
LEMMA ContinuePage ==
    ASSUME IInv, NEW p \in Legs, Live(p), legs[p].pc # "adapter",
           NEW leg, DOMAIN leg = LegFields, leg.pc \in BeforeT \cup WithT, leg.pc # "adapter",
           leg.kind = legs[p].kind, leg.mount = legs[p].mount, leg.T = legs[p].T,
           leg.asked \in BOOLEAN,
           leg.pc \in WithT => legs[p].pc \in WithT,
           leg.pc \in Requested => leg.pc = "sign" \/ legs[p].pc \in Requested,
           leg.pc \in {"submit"} \cup Crossed =>
             leg.pc = "submit" \/ legs[p].pc \in {"submit"} \cup Crossed,
           Continue(p, leg), UNCHANGED <<landed, host>>,
           \A q \in Legs : q # p => sent'[q] = sent[q]
    PROVE  LegShape' /\ PageShape' /\ MountsFit' /\ SessionFits' /\ FlagsFit' /\ ShownFits'
<1> USE DEF IInv
<1>1. /\ DOMAIN legs' = Legs /\ legs'[p] = leg
      /\ \A q \in Legs : q # p => legs'[q] = legs[q]
  BY DEF Continue, LegShape
<1>2. /\ DOMAIN page' = PageFields
      /\ page'.mount = page.mount /\ page'.kind = page.kind /\ page'.leg = page.leg
      /\ page'.stale = page.stale /\ page'.updated = page.updated
      /\ page'.failure = page.failure /\ page'.session = page.session
      /\ page'.stage = BuyStages[leg.pc]
      /\ page'.walletRequested = (page.walletRequested \/ leg.pc = "sign")
      /\ page'.submitted = (page.submitted \/ leg.pc = "submit")
  BY DEF Continue, Staged, PageShape, PageFields
<1>3. leg.pc \notin Finished /\ legs[p].pc \notin Finished
  BY Awaits DEF Live
<1>4. LegShape'
  BY <1>1 DEF LegShape
<1>5. PageShape'
  <2>1. page'.walletRequested \in BOOLEAN /\ page'.submitted \in BOOLEAN
    BY <1>2, Zenon
  <2> QED
    BY <1>2, <2>1 DEF PageShape
<1>6. /\ \A q \in Legs : Live(q)' <=> Live(q)
      /\ \A q \in Legs : Mounted(q)' <=> Mounted(q)
      /\ \A q \in Legs : legs'[q].pc = "adapter" <=> legs[q].pc = "adapter"
      /\ \A q \in Legs : legs'[q].pc = "unused" <=> legs[q].pc = "unused"
      /\ \A q \in Legs : legs'[q].kind = legs[q].kind /\ legs'[q].mount = legs[q].mount
                         /\ legs'[q].T = legs[q].T
      /\ Confirmable' <=> Confirmable
  BY <1>1, <1>2, <1>3 DEF Live, Mounted, Confirmable, Finished
<1>7. MountsFit'
  BY <1>2, <1>6 DEF MountsFit
<1>8. SessionFits'
  <2>1. MayConfirm' <=> MayConfirm
    BY <1>6 DEF MayConfirm
  <2>2. \A q \in Legs : legs'[q].pc \in WithT => legs[q].pc \in WithT
    BY <1>1
  <2> QED
    BY <1>2, <1>6, <2>1, <2>2 DEF SessionFits
<1>9. FlagsFit'
  <2>1. ASSUME NEW q \in Legs, Live(q), Mounted(q), q # p
        PROVE  ~(Live(p) /\ Mounted(p))
    BY <2>1 DEF MountsFit
  <2>2. ASSUME NEW q \in Legs, Live(q)', Mounted(q)'
        PROVE  /\ legs'[q].pc \in Requested => page'.walletRequested
               /\ legs'[q].pc \in {"submit"} \cup Crossed => page'.submitted
    BY <1>1, <1>2, <1>6, <2>2 DEF FlagsFit
  <2>3. ASSUME host = "app", NEW q \in Legs, Live(q)'
        PROVE  page'.stage = BuyStages[legs'[q].pc]
    <3>1. q = p
      BY <1>3, <1>6, <2>1, <2>3 DEF MountsFit, Live
    <3> QED
      BY <1>1, <1>2, <3>1
  <2> QED
    BY <2>2, <2>3 DEF FlagsFit
<1>10. ShownFits'
  <2>1. page.failure # None => page.failure.leg # p
    BY <1>3, Awaits DEF ShownFits
  <2> QED
    BY <1>1, <1>2, <1>6, <2>1 DEF ShownFits, FailureClaimsAreTrue
<1> QED
  BY <1>4, <1>5, <1>7, <1>8, <1>9, <1>10

\* A leg ends with an error: what the page says of it is true.
LEMMA FailedPage ==
    ASSUME IInv, NEW p \in Legs, Live(p),
           NEW pg, DOMAIN pg = PageFields,
           pg.mount = page.mount, pg.kind = page.kind, pg.leg = page.leg,
           pg.stale = page.stale, pg.updated = page.updated, pg.failure = page.failure,
           pg.session = page.session, pg.walletRequested = page.walletRequested,
           pg.submitted = page.submitted,
           NEW f, f.leg = p,
           Mounted(p) => /\ ~f.walletRequested => ~legs[p].asked
                         /\ ~f.submitted => sent'[p] = None
                         /\ host = "app" =>
                              /\ f.headline \in NotSubmittedHeadlines => sent'[p] = None
                              /\ f.headline = "BALANCE_VERIFICATION" => landed[p] # None
                              /\ f.headline = "cancelled" => legs[p].signedAt = None,
           legs' = [legs EXCEPT ![p] = Ended(p, "failed")],
           page' = IF Mounted(p) THEN [pg EXCEPT !.kind = "FAILED", !.failure = f] ELSE pg,
           UNCHANGED <<landed, host>>,
           \A q \in Legs : q # p => sent'[q] = sent[q]
    PROVE  LegShape' /\ PageShape' /\ MountsFit' /\ SessionFits' /\ FlagsFit' /\ ShownFits'
<1> USE DEF IInv
<1>1. /\ DOMAIN legs' = Legs
      /\ \A q \in Legs : q # p => legs'[q] = legs[q]
      /\ DOMAIN legs'[p] = LegFields /\ legs'[p].pc = "failed"
      /\ legs'[p].kind = legs[p].kind /\ legs'[p].mount = legs[p].mount /\ legs'[p].T = legs[p].T
      /\ legs'[p].asked = legs[p].asked /\ legs'[p].signedAt = legs[p].signedAt
  BY DEF Ended, LegShape, LegFields
<1>2. /\ DOMAIN page' = PageFields
      /\ page'.mount = page.mount /\ page'.leg = page.leg
      /\ page'.stale = page.stale /\ page'.updated = page.updated
      /\ page'.session = page.session
      /\ page'.walletRequested = page.walletRequested /\ page'.submitted = page.submitted
      /\ Mounted(p) => page'.kind = "FAILED" /\ page'.failure = f
      /\ ~Mounted(p) => page'.kind = page.kind /\ page'.failure = page.failure
  BY DEF PageFields
<1>3. "failed" \in Finished /\ "failed" \in Over /\ legs[p].pc # "unused"
  BY DEF Finished, Over, Live
<1>4. LegShape' /\ PageShape'
  BY <1>1, <1>2, <1>3 DEF LegShape, PageShape
<1>5. /\ \A q \in Legs : Live(q)' <=> q # p /\ Live(q)
      /\ \A q \in Legs : Mounted(q)' <=> Mounted(q)
      /\ \A q \in Legs : legs'[q].pc = "adapter" => legs[q].pc = "adapter"
      /\ \A q \in Legs : legs'[q].pc = "unused" <=> legs[q].pc = "unused"
      /\ \A q \in Legs : legs'[q].kind = legs[q].kind /\ legs'[q].mount = legs[q].mount
                         /\ legs'[q].T = legs[q].T
      /\ Confirmable' => Confirmable
  BY <1>1, <1>2, <1>3 DEF Live, Mounted, Confirmable
<1>6. Live(p) /\ Mounted(p) => \A q \in Legs : Live(q) /\ Mounted(q) => q = p
  BY DEF MountsFit
<1>7. MountsFit'
  BY <1>1, <1>2, <1>5, <1>6 DEF MountsFit
<1>8. SessionFits'
  <2>1. MayConfirm' => MayConfirm
    BY <1>1, <1>5 DEF MayConfirm
  <2>2. \A q \in Legs : Live(q)' => legs'[q] = legs[q]
    BY <1>1, <1>5
  <2> QED
    BY <1>2, <1>5, <2>1, <2>2 DEF SessionFits
<1>9. FlagsFit'
  <2>1. \A q \in Legs : Live(q)' /\ Mounted(q)' => Live(q) /\ Mounted(q) /\ legs'[q] = legs[q]
    BY <1>1, <1>5
  <2>2. host = "app" => \A q \in Legs : ~Live(q)'
    BY <1>5, <1>6 DEF MountsFit
  <2> QED
    BY <1>2, <2>1, <2>2 DEF FlagsFit
<1>10. ShownFits'
  <2>1. page.failure # None => page.failure.leg # p
    BY Awaits DEF ShownFits, Live
  <2>2. CASE Mounted(p)
    BY <1>1, <1>2, <1>3, <1>5, <2>2 DEF ShownFits, FailureClaimsAreTrue
  <2>3. CASE ~Mounted(p)
    BY <1>1, <1>2, <1>5, <2>1, <2>3 DEF ShownFits, FailureClaimsAreTrue
  <2> QED
    BY <2>2, <2>3
<1> QED
  BY <1>4, <1>7, <1>8, <1>9, <1>10

LEMMA ThrowPage ==
    ASSUME IInv, NEW p \in Legs, Live(p), legs[p].pc # "adapter",
           NEW pg, pg = page \/ (pg = Staged("clock3") /\ legs[p].pc = "sign"),
           NEW error, error = "cancelled" => legs[p].signedAt = None,
           Throw(p, pg, error),
           UNCHANGED <<landed, host>>,
           \A q \in Legs : q # p => sent'[q] = sent[q],
           sent'[p] # None => legs[p].pc \in Crossed
    PROVE  LegShape' /\ PageShape' /\ MountsFit' /\ SessionFits' /\ FlagsFit' /\ ShownFits'
<1> USE DEF IInv
<1> DEFINE f == FailureOf(p, legs[p].kind, pg, error)
<1>1. /\ DOMAIN pg = PageFields
      /\ pg.mount = page.mount /\ pg.kind = page.kind /\ pg.leg = page.leg
      /\ pg.stale = page.stale /\ pg.updated = page.updated /\ pg.failure = page.failure
      /\ pg.session = page.session
      /\ pg.stage = page.stage \/ pg.stage = "SIGNED_BYTES_RETURNED"
  <2>1. BuyStages["clock3"] = "SIGNED_BYTES_RETURNED"
    BY DEF BuyStages
  <2> QED
    BY <2>1 DEF Staged, PageShape, PageFields
<1>2. pg.walletRequested = page.walletRequested /\ pg.submitted = page.submitted
  <2>1. CASE pg = page
    BY <2>1
  <2>2. CASE pg = Staged("clock3")
    <3>1. /\ pg.walletRequested = (page.walletRequested \/ "clock3" = "sign")
          /\ pg.submitted = (page.submitted \/ "clock3" = "submit")
      BY <2>2 DEF Staged, PageShape, PageFields
    <3>2. page.walletRequested \in BOOLEAN /\ page.submitted \in BOOLEAN
      BY DEF PageShape
    <3>3. "clock3" # "sign" /\ "clock3" # "submit"
      OBVIOUS
    <3> QED
      BY <3>1, <3>2, <3>3, Zenon
  <2> QED
    BY <2>1, <2>2
<1>3. /\ f.leg = p /\ f.headline = TraderFacingError(legs[p].kind, error, pg.stage)
      /\ f.walletRequested = page.walletRequested /\ f.submitted = page.submitted
  BY <1>2 DEF FailureOf
<1>4. ASSUME Mounted(p)
      PROVE  /\ ~f.walletRequested => ~legs[p].asked
             /\ ~f.submitted => sent'[p] = None
  BY <1>3, <1>4, Awaits DEF FlagsFit, LegFits
<1>5. ASSUME host = "app"
      PROVE  /\ f.headline \in NotSubmittedHeadlines => sent'[p] = None
             /\ f.headline = "BALANCE_VERIFICATION" => landed[p] # None
             /\ f.headline = "cancelled" => legs[p].signedAt = None
  <2>1. page.stage = BuyStages[legs[p].pc]
    BY <1>5 DEF FlagsFit
  <2>2. f.headline \in {"cancelled", "updated not verified", "PHANTOM_CONNECT", "needs reset",
                        "ENVIRONMENT_CHECK"} \/ f.headline = pg.stage
    BY <1>3 DEF TraderFacingError
  <2>3. f.headline \in NotSubmittedHeadlines \cup {"BALANCE_VERIFICATION"} =>
          f.headline = BuyStages[legs[p].pc]
    BY <1>1, <2>1, <2>2 DEF NotSubmittedHeadlines
  <2>4. legs[p].pc \in (BeforeT \cup WithT) \ {"adapter"}
    BY DEF LegShape, Live
  <2>5. /\ BuyStages[legs[p].pc] \in NotSubmittedHeadlines => legs[p].pc \notin Crossed
        /\ BuyStages[legs[p].pc] = "BALANCE_VERIFICATION" => legs[p].pc = "verify"
    BY <2>4 DEF BuyStages, NotSubmittedHeadlines, Crossed, Sending, BeforeT, WithT, Built,
                Requested, Signed, Dated, Receipted, Waited
  <2>6. legs[p].pc = "verify" => landed[p] # None
    BY DEF LegFits
  <2>7. f.headline = "cancelled" => error = "cancelled"
    <3>1. pg.stage # "cancelled"
      BY <1>1, <2>1, <2>4 DEF BuyStages, BeforeT, WithT, Built,
                Requested, Signed, Dated, Receipted, Waited, Crossed, Sending
    <3> QED
      BY <1>3, <3>1 DEF TraderFacingError
  <2> QED
    BY <2>3, <2>5, <2>6, <2>7
<1>6. /\ legs' = [legs EXCEPT ![p] = Ended(p, "failed")]
      /\ page' = IF Mounted(p) THEN [pg EXCEPT !.kind = "FAILED", !.failure = f] ELSE pg
  BY DEF Throw
<1> HIDE DEF f
<1> QED
  BY <1>1, <1>2, <1>3, <1>4, <1>5, <1>6, FailedPage

\* What is left of a leg that ended: its request may still run.
LEMMA EndedFits ==
    ASSUME IInv, NEW p \in Legs, legs'[p].pc \in Over,
           legs'[p].kind = legs[p].kind, legs'[p].T = legs[p].T,
           legs'[p].signedAt = legs[p].signedAt,
           job'[p] = job[p] \/ job'[p] = Idle,
           UNCHANGED <<clock, boot, landed, co>>
    PROVE  LegFits(p)' /\ JobFits(p)'
<1>1. LegFits(p) /\ JobFits(p)
  BY DEF IInv
<1>2. LegFits(p)'
  <2>1. /\ legs'[p].pc \notin BeforeT \cup WithT \cup {"unused", "done", "verify"}
        /\ ~Live(p)'
    BY DEF Over, BeforeT, WithT, Built, Requested, Signed, Dated, Receipted, Waited, Crossed,
           Sending, Live, Finished
  <2> QED
    BY <1>1, <2>1, Awaits DEF LegFits
<1>3. JobFits(p)'
  <2>1. legs'[p].pc # "receipt"
    BY DEF Over
  <2>2. CASE job'[p] = job[p]
    BY <1>1, <2>1, <2>2 DEF JobFits, IsWire
  <2>3. CASE job'[p] = Idle
    BY <2>1, <2>3 DEF JobFits, Idle, Arming, Simulating
  <2> QED
    BY <2>2, <2>3
<1> QED
  BY <1>2, <1>3

\* What a leg that ended with an error leaves behind.
LEMMA ThrowInv ==
    ASSUME IInv, NEW p \in Legs, Live(p), legs[p].pc # "adapter",
           NEW pg, pg = page \/ (pg = Staged("clock3") /\ legs[p].pc = "sign"),
           NEW error, error = "cancelled" => legs[p].signedAt = None,
           Throw(p, pg, error),
           UNCHANGED <<clock, boot, mint, program, sent, landed, co, files, host>>,
           job' = job \/ job' = [job EXCEPT ![p] = Idle]
    PROVE  IInv'
<1>1. /\ DOMAIN legs' = Legs
      /\ \A q \in Legs : q # p => legs'[q] = legs[q]
      /\ legs'[p].pc = "failed"
      /\ legs'[p].kind = legs[p].kind /\ legs'[p].T = legs[p].T /\ legs'[p].base = legs[p].base
      /\ legs'[p].signedAt = legs[p].signedAt
  BY DEF Throw, Ended, IInv, LegShape, LegFields
<1>2. /\ DOMAIN job' = Legs
      /\ \A q \in Legs : q # p => job'[q] = job[q]
      /\ job'[p] = job[p] \/ job'[p] = Idle
  BY DEF IInv, Shape
<1>3. LegsKeep
  BY <1>1, <1>2 DEF LegsKeep, IInv, Shape
<1>4. \A q \in Legs : q # p => LegFits(q)' /\ JobFits(q)'
  BY <1>1, <1>2, OtherLegs
<1>5. LegFits(p)' /\ JobFits(p)'
  BY <1>1, <1>2, EndedFits DEF Over
<1>6. sent'[p] # None => legs[p].pc \in Crossed
  <2>1. LegFits(p)
    BY DEF IInv
  <2> QED
    BY <2>1, Awaits DEF LegFits, Live, Finished, Over
<1>7. \A q \in Legs : legs'[q].T = legs[q].T
  BY <1>1
<1>8. LegShape' /\ PageShape' /\ MountsFit' /\ SessionFits' /\ FlagsFit' /\ ShownFits'
  BY <1>6, ThrowPage
<1> QED
  BY <1>3, <1>4, <1>5, <1>7, <1>8, LegsKeepInv, TsKept DEF IInv

LEMMA FailInv ==
    ASSUME IInv, NEW p \in Legs, Live(p), legs[p].pc # "adapter", Fail(p),
           UNCHANGED <<clock, boot, mint, program, sent, landed, co, files, host>>,
           job' = job \/ job' = [job EXCEPT ![p] = Idle]
    PROVE  IInv'
<1>1. PICK error \in {"environment", "other"} : Throw(p, page, error)
  BY DEF Fail
<1>2. error = "cancelled" => legs[p].signedAt = None
  OBVIOUS
<1> QED
  BY <1>1, <1>2, ThrowInv

\* The order of the awaits.
Follows(from, to) ==
    /\ from \notin Finished \cup {"adapter"}
    /\ to \in (BeforeT \cup WithT) \ {"adapter", "arm"}
    /\ to \in WithT => from \in WithT
    /\ to \in Requested => to = "sign" \/ from \in Requested
    /\ to \in {"submit"} \cup Crossed => to = "submit" \/ from \in {"submit"} \cup Crossed

LEMMA AwaitOrder ==
    /\ Follows("connect", "load")
    /\ Follows("build", "prepare") /\ Follows("prepare", "clock1") /\ Follows("clock1", "presign")
    /\ Follows("presign", "clock2") /\ Follows("clock2", "deploy1") /\ Follows("deploy1", "sign")
    /\ Follows("sign", "clock3") /\ Follows("clock3", "receipt") /\ Follows("receipt", "wait")
    /\ Follows("receipt", "lifetime") /\ Follows("wait", "wait") /\ Follows("wait", "lifetime")
    /\ Follows("lifetime", "deploy2") /\ Follows("deploy2", "submit") /\ Follows("submit", "send")
    /\ Follows("send", "confirm") /\ Follows("confirm", "verify")
BY DEF Follows, Sending, Crossed, Waited, Receipted, Dated, Signed, Requested, Built, WithT,
       BeforeT, Finished

LEMMA ContinueInv ==
    ASSUME IInv, NEW p \in Legs, NEW leg, Follows(legs[p].pc, leg.pc),
           DOMAIN leg = LegFields,
           leg.kind = legs[p].kind, leg.mount = legs[p].mount, leg.T = legs[p].T,
           leg.base = legs[p].base, leg.asked \in BOOLEAN,
           \/ leg.signedAt = legs[p].signedAt
           \/ legs[p].signedAt = None /\ leg.signedAt = clock /\ sent[p] = None,
           Continue(p, leg),
           UNCHANGED <<clock, boot, mint, program, sent, landed, co, files, host>>,
           job' = job \/ job' = [job EXCEPT ![p] = Idle], job'[p].at = "idle",
           LegFits(p)'
    PROVE  IInv'
<1>1. /\ DOMAIN legs' = Legs /\ legs'[p] = leg
      /\ \A q \in Legs : q # p => legs'[q] = legs[q]
  BY DEF Continue, IInv, LegShape
<1>2. /\ DOMAIN job' = Legs
      /\ \A q \in Legs : q # p => job'[q] = job[q]
      /\ job'[p] = job[p] \/ job'[p] = Idle
  BY DEF IInv, Shape
<1>3. LegsKeep /\ \A q \in Legs : legs'[q].T = legs[q].T
  BY <1>1, <1>2 DEF LegsKeep, Follows, IInv, Shape
<1>4. \A q \in Legs : q # p => LegFits(q)' /\ JobFits(q)'
  BY <1>1, <1>2, OtherLegs
<1>5. JobFits(p)'
  BY DEF JobFits, Arming, Simulating
<1>6. LegShape' /\ PageShape' /\ MountsFit' /\ SessionFits' /\ FlagsFit' /\ ShownFits'
  BY ContinuePage DEF Follows, Live
<1> QED
  BY <1>3, <1>4, <1>5, <1>6, LegsKeepInv, TsKept DEF IInv

\* Only its await changes.
LEMMA AtInv ==
    ASSUME IInv, NEW p \in Legs, NEW to, Follows(legs[p].pc, to), Continue(p, At(p, to)),
           UNCHANGED <<clock, boot, mint, program, sent, landed, co, files, host>>,
           job' = job \/ job' = [job EXCEPT ![p] = Idle], job'[p].at = "idle",
           LegFits(p)'
    PROVE  IInv'
<1> DEFINE leg == At(p, to)
<1>1. /\ DOMAIN leg = LegFields /\ leg.pc = to
      /\ leg.kind = legs[p].kind /\ leg.mount = legs[p].mount /\ leg.T = legs[p].T
      /\ leg.base = legs[p].base /\ leg.asked \in BOOLEAN
      /\ leg.signedAt = legs[p].signedAt
      /\ Continue(p, leg)
  BY DEF At, IInv, LegShape, LegFields
<1> HIDE DEF leg
<1> QED
  BY <1>1, ContinueInv

\* A leg that is not waiting for the coordinator has no request with it.
LEMMA NoRequest ==
    ASSUME IInv, NEW p \in Legs, Live(p), legs[p].pc \notin Asking
    PROVE  job[p].at = "idle"
BY Awaits DEF IInv, JobFits, Live

LEMMA ReadingKeeps ==
    ASSUME Reading
    PROVE  UNCHANGED <<clock, boot, mint, program, moved, sent, landed, co, job, files, host>>
BY DEF Reading, environment

LEMMA AtFields ==
    ASSUME IInv, NEW p \in Legs, NEW to, Continue(p, At(p, to))
    PROVE  /\ legs'[p].pc = to /\ legs'[p].kind = legs[p].kind /\ legs'[p].T = legs[p].T
           /\ legs'[p].wire = legs[p].wire /\ legs'[p].asked = legs[p].asked
           /\ legs'[p].signedAt = legs[p].signedAt
BY DEF Continue, At, IInv, LegShape, LegFields

LEMMA TypedLeg ==
    ASSUME IInv, NEW p \in Legs
    PROVE  /\ LegFits(p) /\ clock \in Nat /\ boot \in Nat
           /\ legs[p].kind \in {"STALE", "REFRESHED"} /\ legs[p].asked \in BOOLEAN
BY DEF IInv, Shape, LegShape

LEMMA BuildSnapshotInv ==
    ASSUME IInv, NEW p \in Legs, BuildSnapshot(p)
    PROVE  IInv'
<1>1. /\ legs[p].pc = "build" /\ Live(p) /\ legs[p].pc \notin Asking \cup {"adapter"}
      /\ UNCHANGED <<clock, boot, mint, program, sent, landed, co, job, files, host>>
  BY ReadingKeeps DEF BuildSnapshot, Live, Finished, Asking
<1>2. job[p].at = "idle" /\ job'[p].at = "idle"
  BY <1>1, NoRequest
<1>3. CASE Continue(p, At(p, "prepare"))
  <2>1. LegFits(p)'
    BY <1>1, <1>3, AtFields, TypedLeg
       DEF LegFits, Live, IsWire, Authorized, Sending, Crossed, Waited, Receipted, Dated, Signed, Requested, Built,
           WithT, BeforeT, Over, Finished
  <2> QED
    BY <1>1, <1>2, <1>3, <2>1, AtInv, AwaitOrder
<1>4. CASE Fail(p)
  BY <1>1, <1>4, FailInv
<1> QED
  BY <1>3, <1>4 DEF BuildSnapshot, Checked

LEMMA BeforeSimulationInv ==
    ASSUME IInv, NEW p \in Legs, BeforeSimulation(p)
    PROVE  IInv'
<1>1. /\ legs[p].pc = "clock1" /\ Live(p) /\ legs[p].pc \notin Asking \cup {"adapter"}
      /\ UNCHANGED <<clock, boot, mint, program, sent, landed, co, job, files, host>>
  BY ReadingKeeps DEF BeforeSimulation, Live, Finished, Asking
<1>2. job[p].at = "idle" /\ job'[p].at = "idle"
  BY <1>1, NoRequest
<1>3. CASE Continue(p, At(p, "presign"))
  <2>1. LegFits(p)'
    BY <1>1, <1>3, AtFields, TypedLeg
       DEF LegFits, Live, IsWire, Authorized, Sending, Crossed, Waited, Receipted, Dated, Signed, Requested, Built,
           WithT, BeforeT, Over, Finished
  <2> QED
    BY <1>1, <1>2, <1>3, <2>1, AtInv, AwaitOrder
<1>4. CASE Fail(p)
  BY <1>1, <1>4, FailInv
<1> QED
  BY <1>3, <1>4 DEF BeforeSimulation, Checked

LEMMA AtSimulationInv ==
    ASSUME IInv, NEW p \in Legs, AtSimulation(p)
    PROVE  IInv'
<1>1. /\ legs[p].pc = "clock2" /\ Live(p) /\ legs[p].pc \notin Asking \cup {"adapter"}
      /\ UNCHANGED <<clock, boot, mint, program, sent, landed, co, job, files, host>>
  BY ReadingKeeps DEF AtSimulation, Live, Finished, Asking
<1>2. job[p].at = "idle" /\ job'[p].at = "idle"
  BY <1>1, NoRequest
<1>3. CASE Continue(p, At(p, "deploy1"))
  <2>1. LegFits(p)'
    BY <1>1, <1>3, AtFields, TypedLeg
       DEF LegFits, Live, IsWire, Authorized, Sending, Crossed, Waited, Receipted, Dated, Signed, Requested, Built,
           WithT, BeforeT, Over, Finished
  <2> QED
    BY <1>1, <1>2, <1>3, <2>1, AtInv, AwaitOrder
<1>4. CASE Fail(p)
  BY <1>1, <1>4, FailInv
<1> QED
  BY <1>3, <1>4 DEF AtSimulation, Checked

LEMMA AtSigningInv ==
    ASSUME IInv, NEW p \in Legs, AtSigning(p)
    PROVE  IInv'
<1>1. /\ legs[p].pc = "clock3" /\ Live(p) /\ legs[p].pc \notin Asking \cup {"adapter"}
      /\ UNCHANGED <<clock, boot, mint, program, sent, landed, co, job, files, host>>
  BY ReadingKeeps DEF AtSigning, Live, Finished, Asking
<1>2. job[p].at = "idle" /\ job'[p].at = "idle"
  BY <1>1, NoRequest
<1>3. CASE ClockBeforeActivation(p) /\ Continue(p, At(p, "receipt"))
  <2>1. LegFits(p)'
    BY <1>1, <1>3, AtFields, TypedLeg, Constants
       DEF LegFits, Live, IsWire, Authorized, ClockBeforeActivation, Sending, Crossed, Waited, Receipted, Dated, Signed, Requested, Built,
           WithT, BeforeT, Over, Finished
  <2> QED
    BY <1>1, <1>2, <1>3, <2>1, AtInv, AwaitOrder
<1>4. CASE Fail(p)
  BY <1>1, <1>4, FailInv
<1> QED
  BY <1>3, <1>4 DEF AtSigning, Checked

LEMMA LifetimeCheckedInv ==
    ASSUME IInv, NEW p \in Legs, LifetimeChecked(p)
    PROVE  IInv'
<1>1. /\ legs[p].pc = "lifetime" /\ Live(p) /\ legs[p].pc \notin Asking \cup {"adapter"}
      /\ UNCHANGED <<clock, boot, mint, program, sent, landed, co, job, files, host>>
  BY ReadingKeeps DEF LifetimeChecked, Live, Finished, Asking
<1>2. job[p].at = "idle" /\ job'[p].at = "idle"
  BY <1>1, NoRequest
<1>3. CASE Continue(p, At(p, "deploy2"))
  <2>1. LegFits(p)'
    BY <1>1, <1>3, AtFields, TypedLeg
       DEF LegFits, Live, IsWire, Authorized, Sending, Crossed, Waited, Receipted, Dated, Signed, Requested, Built,
           WithT, BeforeT, Over, Finished
  <2> QED
    BY <1>1, <1>2, <1>3, <2>1, AtInv, AwaitOrder
<1>4. CASE Fail(p)
  BY <1>1, <1>4, FailInv
<1> QED
  BY <1>3, <1>4 DEF LifetimeChecked, Checked

LEMMA SubmitSnapshotInv ==
    ASSUME IInv, NEW p \in Legs, SubmitSnapshot(p)
    PROVE  IInv'
<1>1. /\ legs[p].pc = "submit" /\ Live(p) /\ legs[p].pc \notin Asking \cup {"adapter"}
      /\ UNCHANGED <<clock, boot, mint, program, sent, landed, co, job, files, host>>
  BY ReadingKeeps DEF SubmitSnapshot, Live, Finished, Asking
<1>2. job[p].at = "idle" /\ job'[p].at = "idle"
  BY <1>1, NoRequest
<1>3. CASE SnapshotOk(p) /\ PhaseAt(mint, clock) = "Activated" /\ Continue(p, At(p, "send"))
  <2>1. LegFits(p)'
    BY <1>1, <1>3, AtFields, TypedLeg, Constants
       DEF LegFits, Live, IsWire, Authorized, SnapshotOk, LocalMint, PhaseAt, Sending, Crossed, Waited, Receipted, Dated, Signed, Requested, Built,
           WithT, BeforeT, Over, Finished
  <2> QED
    BY <1>1, <1>2, <1>3, <2>1, AtInv, AwaitOrder
<1>4. CASE Fail(p)
  BY <1>1, <1>4, FailInv
<1> QED
  BY <1>3, <1>4 DEF SubmitSnapshot, Checked

LEMMA WalletConnectsInv ==
    ASSUME IInv, NEW p \in Legs, WalletConnects(p)
    PROVE  IInv'
<1>1. /\ legs[p].pc = "connect" /\ Live(p) /\ legs[p].pc \notin Asking \cup {"adapter"}
      /\ legs[p].pc \notin Signed
      /\ UNCHANGED <<clock, boot, mint, program, sent, landed, co, job, files, host>>
  BY ReadingKeeps DEF WalletConnects, Live, Finished, Asking, Signed, Dated, Receipted, Waited,
     Crossed, Sending
<1>2. job[p].at = "idle" /\ job'[p].at = "idle" /\ legs[p].signedAt = None
  BY <1>1, NoRequest, TypedLeg DEF LegFits
<1>3. CASE Continue(p, At(p, "load"))
  <2>1. LegFits(p)'
    BY <1>1, <1>3, AtFields, TypedLeg
       DEF LegFits, Live, IsWire, Authorized, Sending, Crossed, Waited, Receipted, Dated, Signed, Requested, Built,
           WithT, BeforeT, Over, Finished
  <2> QED
    BY <1>1, <1>2, <1>3, <2>1, AtInv, AwaitOrder
<1>4. CASE \E error : Throw(p, page, error)
  BY <1>1, <1>2, <1>4, ThrowInv
<1>5. PICK answer \in ConnectAnswers :
        CASE answer = "expected account" -> Continue(p, At(p, "load"))
          [] answer = "another account"  -> Throw(p, page, "other")
          [] answer = "no wallet"        -> Throw(p, page, "missing")
          [] answer = "refused"          -> Throw(p, page, "cancelled")
  BY DEF WalletConnects
<1>6. Continue(p, At(p, "load")) \/ \E error : Throw(p, page, error)
  BY <1>5 DEF ConnectAnswers
<1> QED
  BY <1>3, <1>4, <1>6

LEMMA WaitPollInv ==
    ASSUME IInv, NEW p \in Legs, WaitPoll(p)
    PROVE  IInv'
<1>1. /\ legs[p].pc = "wait" /\ Live(p) /\ legs[p].pc \notin Asking \cup {"adapter"}
      /\ UNCHANGED <<clock, boot, mint, program, sent, landed, co, job, files, host>>
  BY ReadingKeeps DEF WaitPoll, Live, Finished, Asking
<1>2. job[p].at = "idle" /\ job'[p].at = "idle"
  BY <1>1, NoRequest
<1>3. CASE ActivationPassed(p) /\ Continue(p, At(p, "lifetime"))
  <2>1. LegFits(p)'
    BY <1>1, <1>3, AtFields, TypedLeg
       DEF LegFits, Live, IsWire, Authorized, ActivationPassed, Sending, Crossed, Waited, Receipted, Dated, Signed, Requested, Built,
           WithT, BeforeT, Over, Finished
  <2> QED
    BY <1>1, <1>2, <1>3, <2>1, AtInv, AwaitOrder
<1>4. CASE Continue(p, legs[p])
  <2>1. legs'[p] = legs[p] /\ DOMAIN legs[p] = LegFields
    BY <1>4 DEF Continue, IInv, LegShape
  <2>2. LegFits(p)'
    BY <1>1, <2>1, TypedLeg DEF LegFits, Live, IsWire, Authorized
  <2> QED
    BY <1>1, <1>2, <1>4, <2>1, <2>2, ContinueInv, AwaitOrder, TypedLeg
<1>5. CASE Fail(p)
  BY <1>1, <1>5, FailInv
<1> QED
  BY <1>3, <1>4, <1>5 DEF WaitPoll, Checked

LEMMA PreparedInv ==
    ASSUME IInv, NEW p \in Legs, Prepared(p)
    PROVE  IInv'
<1> DEFINE leg == [legs[p] EXCEPT !.pc = "clock1", !.before = moved, !.wire = PreparedReplay(p)]
<1>1. /\ legs[p].pc = "prepare" /\ Live(p) /\ legs[p].pc \notin Asking \cup {"adapter"}
      /\ UNCHANGED <<clock, boot, mint, program, sent, landed, co, job, files, host>>
  BY ReadingKeeps DEF Prepared, Live, Finished, Asking
<1>2. job[p].at = "idle" /\ job'[p].at = "idle"
  BY <1>1, NoRequest
<1>3. CASE Continue(p, leg)
  <2>1. /\ DOMAIN leg = LegFields /\ leg.pc = "clock1"
        /\ leg.kind = legs[p].kind /\ leg.mount = legs[p].mount /\ leg.T = legs[p].T
        /\ leg.base = legs[p].base /\ leg.asked = legs[p].asked
        /\ leg.signedAt = legs[p].signedAt /\ leg.wire = PreparedReplay(p)
    BY DEF IInv, LegShape, LegFields
  <2>2. legs'[p] = leg
    BY <1>3 DEF Continue, IInv, LegShape
  <2> HIDE DEF leg
  <2>3. IsWire(legs[p].wire, p)'
    BY <1>1, <2>1, <2>2, TypedLeg DEF IsWire, PreparedReplay
  <2>4. LegFits(p)'
    BY <1>1, <2>1, <2>2, <2>3, TypedLeg
       DEF LegFits, Live, Sending, Crossed, Waited, Receipted, Dated, Signed, Requested, Built,
           WithT, BeforeT, Over, Finished
  <2> QED
    BY <1>1, <1>2, <1>3, <2>1, <2>4, ContinueInv, AwaitOrder, TypedLeg
<1>4. CASE Throw(p, page, "baseline")
  <2>1. "baseline" # "cancelled"
    OBVIOUS
  <2> QED
    BY <1>1, <1>4, <2>1, ThrowInv
<1> QED
  BY <1>3, <1>4 DEF Prepared

\* The signature is given now.
LEMMA WalletSignsInv ==
    ASSUME IInv, NEW p \in Legs, WalletSigns(p)
    PROVE  IInv'
<1> DEFINE leg == [legs[p] EXCEPT !.pc = "clock3", !.signedAt = clock]
<1>1. /\ legs[p].pc = "sign" /\ Live(p) /\ legs[p].pc \notin Asking \cup {"adapter"}
      /\ legs[p].pc \notin Signed \cup Sending \cup Over \cup {"done"}
      /\ UNCHANGED <<clock, boot, mint, program, sent, landed, co, job, files, host>>
  BY ReadingKeeps DEF WalletSigns, Live, Finished, Asking, Signed, Dated, Receipted, Waited,
     Crossed, Sending, Over
<1>2. /\ job[p].at = "idle" /\ job'[p].at = "idle"
      /\ legs[p].signedAt = None /\ sent[p] = None
  BY <1>1, NoRequest, TypedLeg DEF LegFits
<1>3. CASE Continue(p, leg)
  <2>1. /\ DOMAIN leg = LegFields /\ leg.pc = "clock3"
        /\ leg.kind = legs[p].kind /\ leg.mount = legs[p].mount /\ leg.T = legs[p].T
        /\ leg.base = legs[p].base /\ leg.asked = legs[p].asked
        /\ leg.signedAt = clock /\ leg.wire = legs[p].wire
    BY DEF IInv, LegShape, LegFields
  <2>2. legs'[p] = leg
    BY <1>3 DEF Continue, IInv, LegShape
  <2> HIDE DEF leg
  <2>3. LegFits(p)'
    BY <1>1, <1>2, <2>1, <2>2, TypedLeg, Constants
       DEF LegFits, Live, IsWire, Sending, Crossed, Waited, Receipted, Dated, Signed, Requested, Built,
           WithT, BeforeT, Over, Finished
  <2> QED
    BY <1>1, <1>2, <1>3, <2>1, <2>3, ContinueInv, AwaitOrder, TypedLeg
<1>4. CASE Throw(p, page, "cancelled")
  BY <1>1, <1>2, <1>4, ThrowInv
<1>5. CASE Throw(p, Staged("clock3"), "other")
  BY <1>1, <1>2, <1>5, ThrowInv
<1>6. CASE Fail(p)
  BY <1>1, <1>2, <1>6, FailInv
<1> QED
  BY <1>3, <1>4, <1>5, <1>6 DEF WalletSigns

\* The wire of the leg was executed in this environment.
LEMMA ConfirmedInv ==
    ASSUME IInv, NEW p \in Legs, Confirmed(p)
    PROVE  IInv'
<1>1. /\ legs[p].pc = "confirm" /\ Live(p) /\ legs[p].pc \notin Asking \cup {"adapter"}
      /\ UNCHANGED <<clock, boot, mint, program, sent, landed, co, job, files, host>>
  BY ReadingKeeps DEF Confirmed, Live, Finished, Asking
<1>2. job[p].at = "idle" /\ job'[p].at = "idle"
  BY <1>1, NoRequest
<1>3. CASE landed[p] # None /\ Continue(p, At(p, "verify"))
  <2>1. LegFits(p)'
    BY <1>1, <1>3, AtFields, TypedLeg
       DEF LegFits, Live, IsWire, Authorized, Sending, Crossed, Waited, Receipted, Dated, Signed, Requested, Built,
           WithT, BeforeT, Over, Finished
  <2> QED
    BY <1>1, <1>2, <1>3, <2>1, AtInv, AwaitOrder
<1>4. CASE Fail(p)
  BY <1>1, <1>4, FailInv
<1> QED
  BY <1>3, <1>4 DEF Confirmed

LEMMA AwaitFailsInv ==
    ASSUME IInv, NEW p \in Legs, AwaitFails(p)
    PROVE  IInv'
BY ReadingKeeps, FailInv DEF AwaitFails, Live

\* What reading an answer of the coordinator does.
LEMMA AnsweredKeeps ==
    ASSUME IInv, NEW p \in Legs, NEW leg, NEW expected, Answered(p, expected, leg)
    PROVE  /\ UNCHANGED <<clock, boot, mint, program, sent, landed, co, files, host>>
           /\ job' = [job EXCEPT ![p] = Idle] /\ job'[p].at = "idle"
           /\ Continue(p, leg) \/ Fail(p)
BY DEF Answered, Checked, IInv, Shape, Idle

LEMMA PreSignedInv ==
    ASSUME IInv, NEW p \in Legs, PreSigned(p)
    PROVE  IInv'
<1> DEFINE leg == [legs[p] EXCEPT !.pc = "clock2", !.proof = job[p].arg]
<1>1. legs[p].pc = "presign" /\ Live(p) /\ legs[p].pc # "adapter"
  BY DEF PreSigned, Live, Finished
<1>2. /\ UNCHANGED <<clock, boot, mint, program, sent, landed, co, files, host>>
      /\ job' = [job EXCEPT ![p] = Idle] /\ job'[p].at = "idle"
      /\ Continue(p, leg) \/ Fail(p)
  BY AnsweredKeeps DEF PreSigned
<1>3. CASE Continue(p, leg)
  <2>1. /\ DOMAIN leg = LegFields /\ leg.pc = "clock2"
        /\ leg.kind = legs[p].kind /\ leg.mount = legs[p].mount /\ leg.T = legs[p].T
        /\ leg.base = legs[p].base /\ leg.asked = legs[p].asked
        /\ leg.signedAt = legs[p].signedAt /\ leg.wire = legs[p].wire
    BY TypedLeg DEF IInv, LegShape, LegFields
  <2>2. legs'[p] = leg
    BY <1>3 DEF Continue, IInv, LegShape
  <2> HIDE DEF leg
  <2>3. LegFits(p)'
    BY <1>1, <1>2, <2>1, <2>2, TypedLeg
       DEF LegFits, Live, IsWire, Sending, Crossed, Waited, Receipted, Dated, Signed, Requested, Built,
           WithT, BeforeT, Over, Finished
  <2> QED
    BY <1>1, <1>2, <1>3, <2>1, <2>3, ContinueInv, AwaitOrder, TypedLeg
<1>4. CASE Fail(p)
  BY <1>1, <1>2, <1>4, FailInv
<1> QED
  BY <1>2, <1>3, <1>4

LEMMA DeploymentBeforeSigningInv ==
    ASSUME IInv, NEW p \in Legs, DeploymentBeforeSigning(p)
    PROVE  IInv'
<1> DEFINE leg == [legs[p] EXCEPT !.pc = "sign", !.asked = TRUE, !.digest = job[p].arg]
<1>1. legs[p].pc = "deploy1" /\ Live(p) /\ legs[p].pc # "adapter"
  BY DEF DeploymentBeforeSigning, Live, Finished
<1>2. /\ UNCHANGED <<clock, boot, mint, program, sent, landed, co, files, host>>
      /\ job' = [job EXCEPT ![p] = Idle] /\ job'[p].at = "idle"
      /\ Continue(p, leg) \/ Fail(p)
  BY AnsweredKeeps DEF DeploymentBeforeSigning
<1>3. CASE Continue(p, leg)
  <2>1. /\ DOMAIN leg = LegFields /\ leg.pc = "sign"
        /\ leg.kind = legs[p].kind /\ leg.mount = legs[p].mount /\ leg.T = legs[p].T
        /\ leg.base = legs[p].base /\ leg.asked \in BOOLEAN
        /\ leg.signedAt = legs[p].signedAt /\ leg.wire = legs[p].wire
    BY TypedLeg DEF IInv, LegShape, LegFields
  <2>2. legs'[p] = leg
    BY <1>3 DEF Continue, IInv, LegShape
  <2> HIDE DEF leg
  <2>3. LegFits(p)'
    BY <1>1, <1>2, <2>1, <2>2, TypedLeg
       DEF LegFits, Live, IsWire, Sending, Crossed, Waited, Receipted, Dated, Signed, Requested, Built,
           WithT, BeforeT, Over, Finished
  <2> QED
    BY <1>1, <1>2, <1>3, <2>1, <2>3, ContinueInv, AwaitOrder, TypedLeg
<1>4. CASE Fail(p)
  BY <1>1, <1>2, <1>4, FailInv
<1> QED
  BY <1>2, <1>3, <1>4

LEMMA DeploymentBeforeSubmissionInv ==
    ASSUME IInv, NEW p \in Legs, DeploymentBeforeSubmission(p)
    PROVE  IInv'
<1>1. legs[p].pc = "deploy2" /\ Live(p) /\ legs[p].pc # "adapter"
  BY DEF DeploymentBeforeSubmission, Live, Finished
<1>2. /\ UNCHANGED <<clock, boot, mint, program, sent, landed, co, files, host>>
      /\ job' = [job EXCEPT ![p] = Idle] /\ job'[p].at = "idle"
      /\ Continue(p, At(p, "submit")) \/ Fail(p)
  BY AnsweredKeeps DEF DeploymentBeforeSubmission
<1>3. CASE Continue(p, At(p, "submit"))
  <2>1. LegFits(p)'
    BY <1>1, <1>2, <1>3, AtFields, TypedLeg
       DEF LegFits, Live, IsWire, Authorized, Sending, Crossed, Waited, Receipted, Dated, Signed, Requested, Built,
           WithT, BeforeT, Over, Finished
  <2> QED
    BY <1>1, <1>2, <1>3, <2>1, AtInv, AwaitOrder
<1>4. CASE Fail(p)
  BY <1>1, <1>2, <1>4, FailInv
<1> QED
  BY <1>2, <1>3, <1>4

\* The receipt is in, and the environment that gave it has armed this leg's T.
LEMMA ReceiptAnsweredInv ==
    ASSUME IInv, NEW p \in Legs, ReceiptAnswered(p)
    PROVE  IInv'
<1> DEFINE to == IF legs[p].kind = "STALE" THEN "wait" ELSE "lifetime"
           ok == job[p].at = "ok" /\ job[p].arg = p
<1>1. legs[p].pc = "receipt" /\ Live(p) /\ legs[p].pc # "adapter"
  BY DEF ReceiptAnswered, Live, Finished
<1>2. /\ UNCHANGED <<clock, boot, mint, program, sent, landed, co, files, host>>
      /\ job' = [job EXCEPT ![p] = Idle] /\ job'[p].at = "idle"
  BY AnsweredKeeps DEF ReceiptAnswered
<1>3. \/ ok /\ Continue(p, At(p, to))
      \/ Fail(p)
  BY DEF ReceiptAnswered, Answered, Checked
<1>4. CASE ok /\ Continue(p, At(p, to))
  <2>1. legs[p].wire.boot = boot => Authorized(p)
    BY <1>1, <1>4 DEF IInv, JobFits
  <2>2. /\ to \in {"wait", "lifetime"}
        /\ to = "lifetime" => legs[p].kind = "REFRESHED"
    BY TypedLeg
  <2> HIDE DEF to, ok
  <2>3. LegFits(p)'
    BY <1>1, <1>2, <1>4, <2>1, <2>2, AtFields, TypedLeg
       DEF LegFits, Live, IsWire, Authorized, Sending, Crossed, Waited, Receipted, Dated, Signed, Requested, Built,
           WithT, BeforeT, Over, Finished
  <2>4. Follows(legs[p].pc, to)
    BY <1>1, <2>2, AwaitOrder
  <2> QED
    BY <1>1, <1>2, <1>4, <2>3, <2>4, AtInv
<1>5. CASE Fail(p)
  BY <1>1, <1>2, <1>5, FailInv
<1> QED
  BY <1>3, <1>4, <1>5

\* What is sent are the held bytes, of a leg that has crossed its activation.
LEMMA SendInv ==
    ASSUME IInv, NEW p \in Legs, Send(p)
    PROVE  IInv'
<1> DEFINE wire == legs[p].wire
<1>1. /\ legs[p].pc = "send" /\ Live(p) /\ legs[p].pc \notin Asking \cup {"adapter"}
      /\ UNCHANGED <<clock, boot, mint, program, landed, co, job, files, host>>
  BY DEF Send, Live, Finished, Asking
<1>2. job[p].at = "idle" /\ job'[p].at = "idle"
  BY <1>1, NoRequest
<1>3. /\ legs[p].pc \in Crossed
      /\ legs[p].pc \notin Sending \cup Over \cup {"done"}
  BY <1>1 DEF Crossed, Sending, Over
<1>4. /\ IsWire(wire, p) /\ legs[p].T # None /\ legs[p].T \in Nat /\ clock >= legs[p].T
      /\ legs[p].signedAt # None
      /\ legs[p].kind = "STALE" => clock > legs[p].T /\ legs[p].signedAt < legs[p].T
      /\ wire.boot = boot => Authorized(p)
      /\ sent[p] = None
  BY <1>3, TypedLeg, Awaits DEF LegFits
<1>5. landed[p] = None
  BY <1>4 DEF IInv, LandedFits
<1>6. \/ sent' = [sent EXCEPT ![p] = wire] /\ Continue(p, At(p, "confirm"))
      \/ sent' = [sent EXCEPT ![p] = wire] /\ Fail(p)
      \/ UNCHANGED sent /\ Fail(p)
  BY DEF Send, SubmittedBytes
<1>7. ASSUME sent' = [sent EXCEPT ![p] = wire], DOMAIN legs' = Legs,
             \A q \in Legs : q # p => legs'[q] = legs[q],
             legs'[p].kind = legs[p].kind, legs'[p].T = legs[p].T, legs'[p].base = legs[p].base,
             legs'[p].signedAt = legs[p].signedAt, legs'[p].pc # "arm",
             LegFits(p)', JobFits(p)',
             LegShape', PageShape', MountsFit', SessionFits', FlagsFit', ShownFits'
      PROVE  IInv'
  <2>1. DOMAIN sent' = Legs /\ sent'[p] = wire /\ \A q \in Legs : q # p => sent'[q] = sent[q]
    BY <1>7 DEF IInv, Shape
  <2>2. LegsKeep /\ \A q \in Legs : legs'[q].T = legs[q].T
    BY <1>1, <1>7, <2>1 DEF LegsKeep, IInv, Shape
  <2>3. \A q \in Legs : q # p => LegFits(q)' /\ JobFits(q)'
    BY <1>1, <1>7, <2>1, OtherLegs
  <2>4. SentFits(p)'
    BY <1>1, <1>4, <1>7, <2>1 DEF SentFits, IsWire, Authorized
  <2>5. LandedFits(p)'
    BY <1>1, <1>5 DEF LandedFits
  <2> QED
    BY <1>7, <2>1, <2>2, <2>3, <2>4, <2>5, LegsKeepInv, TsKept DEF IInv
<1>8. CASE sent' = [sent EXCEPT ![p] = wire] /\ Continue(p, At(p, "confirm"))
  <2> DEFINE leg == At(p, "confirm")
  <2>1. /\ DOMAIN leg = LegFields /\ leg.pc = "confirm"
        /\ leg.kind = legs[p].kind /\ leg.mount = legs[p].mount /\ leg.T = legs[p].T
        /\ leg.base = legs[p].base /\ leg.asked \in BOOLEAN
        /\ leg.signedAt = legs[p].signedAt
        /\ Continue(p, leg)
    BY <1>8 DEF At, IInv, LegShape, LegFields
  <2>2. /\ DOMAIN legs' = Legs /\ legs'[p] = leg
        /\ \A q \in Legs : q # p => legs'[q] = legs[q]
    BY <2>1 DEF Continue, IInv, LegShape
  <2>3. \A q \in Legs : q # p => sent'[q] = sent[q]
    BY <1>8 DEF IInv, Shape
  <2>4. Follows(legs[p].pc, leg.pc)
    BY <1>1, <2>1, AwaitOrder
  <2>5. LegFits(p)'
    BY <1>1, <1>8, AtFields, TypedLeg
       DEF LegFits, Live, IsWire, Authorized, Sending, Crossed, Waited, Receipted, Dated, Signed,
           Requested, Built, WithT, BeforeT, Over, Finished
  <2> HIDE DEF leg
  <2>6. LegShape' /\ PageShape' /\ MountsFit' /\ SessionFits' /\ FlagsFit' /\ ShownFits'
    BY <1>1, <2>1, <2>3, <2>4, ContinuePage DEF Follows
  <2>7. JobFits(p)'
    BY <1>2 DEF JobFits, Arming, Simulating
  <2> QED
    BY <1>7, <1>8, <2>1, <2>2, <2>5, <2>6, <2>7
<1>9. CASE sent' = [sent EXCEPT ![p] = wire] /\ Fail(p)
  <2>1. PICK error \in {"environment", "other"} : Throw(p, page, error)
    BY <1>9 DEF Fail
  <2>2. \A q \in Legs : q # p => sent'[q] = sent[q]
    BY <1>9 DEF IInv, Shape
  <2>3. error = "cancelled" => legs[p].signedAt = None
    OBVIOUS
  <2>4. LegShape' /\ PageShape' /\ MountsFit' /\ SessionFits' /\ FlagsFit' /\ ShownFits'
    BY <1>1, <1>3, <2>1, <2>2, <2>3, ThrowPage
  <2>5. /\ DOMAIN legs' = Legs
        /\ \A q \in Legs : q # p => legs'[q] = legs[q]
        /\ legs'[p].pc = "failed"
        /\ legs'[p].kind = legs[p].kind /\ legs'[p].T = legs[p].T /\ legs'[p].base = legs[p].base
        /\ legs'[p].signedAt = legs[p].signedAt
    BY <2>1 DEF Throw, Ended, IInv, LegShape, LegFields
  <2>6. LegFits(p)' /\ JobFits(p)'
    BY <1>1, <2>5, EndedFits DEF Over
  <2> QED
    BY <1>7, <1>9, <2>4, <2>5, <2>6
<1>10. CASE UNCHANGED sent /\ Fail(p)
  BY <1>1, <1>10, FailInv
<1> QED
  BY <1>6, <1>8, <1>9, <1>10

\* A leg is done: its wire has landed, and what is shown of it is what landed.
LEMMA DoneInv ==
    ASSUME IInv, NEW p \in Legs, legs[p].pc = "verify",
           UNCHANGED <<clock, boot, mint, program, sent, landed, co, job, files, host>>,
           legs' = [legs EXCEPT ![p] = Ended(p, "done")],
           DOMAIN page' = PageFields,
           page'.mount = page.mount, page'.leg = page.leg, page'.failure = page.failure,
           page'.walletRequested = page.walletRequested, page'.submitted = page.submitted,
           IF Mounted(p) THEN page'.kind \in {"STALE_VERIFIED", "COMPLETED"}
                         ELSE page'.kind = page.kind,
           page'.stale \in {page.stale, p}, page'.updated \in {page.updated, p},
           page'.stale # page.stale =>
             legs[p].kind = "STALE" /\ landed[p].outcome = "ActivationPhaseChanged",
           page'.updated # page.updated => landed[p].outcome = "Ok",
           SessionFits'
    PROVE  IInv'
<1> USE DEF IInv
<1>1. /\ DOMAIN legs' = Legs
      /\ \A q \in Legs : q # p => legs'[q] = legs[q]
      /\ DOMAIN legs'[p] = LegFields /\ legs'[p].pc = "done"
      /\ legs'[p].kind = legs[p].kind /\ legs'[p].mount = legs[p].mount /\ legs'[p].T = legs[p].T
      /\ legs'[p].base = legs[p].base
      /\ legs'[p].asked = legs[p].asked /\ legs'[p].signedAt = legs[p].signedAt
  BY DEF Ended, LegShape, LegFields
<1>2. Live(p) /\ legs[p].pc \notin Asking \cup Over /\ legs[p].pc # "adapter"
  BY DEF Live, Finished, Asking, Over
<1>3. LegsKeep /\ \A q \in Legs : legs'[q].T = legs[q].T
  BY <1>1 DEF LegsKeep, Shape
<1>4. \A q \in Legs : q # p => LegFits(q)' /\ JobFits(q)'
  BY <1>1, OtherLegs
<1>5. LegFits(p)'
  <2>1. /\ legs'[p].pc \notin BeforeT \cup WithT \cup {"unused"} /\ ~Live(p)'
        /\ legs'[p].pc \in Sending \cup Over \cup {"done"}
    BY <1>1 DEF BeforeT, WithT, Built, Requested, Signed, Dated, Receipted, Waited, Crossed,
                Sending, Live, Finished
  <2> QED
    BY <1>1, <2>1, TypedLeg, Awaits DEF LegFits
<1>6. JobFits(p)'
  BY <1>2, NoRequest DEF JobFits, Arming, Simulating
<1>7. LegShape' /\ PageShape'
  BY <1>1 DEF LegShape, PageShape, Finished
<1>8. /\ \A q \in Legs : Live(q)' <=> q # p /\ Live(q)
      /\ \A q \in Legs : Mounted(q)' <=> Mounted(q)
      /\ \A q \in Legs : legs'[q].pc = "adapter" => legs[q].pc = "adapter"
      /\ \A q \in Legs : legs'[q].pc = "unused" <=> legs[q].pc = "unused"
      /\ \A q \in Legs : legs'[q].kind = legs[q].kind /\ legs'[q].mount = legs[q].mount
  BY <1>1, <1>2 DEF Live, Mounted, Finished
<1>9. Mounted(p) => \A q \in Legs : (Live(q) /\ Mounted(q) => q = p) /\ legs[q].pc # "adapter"
  BY <1>2 DEF MountsFit
<1>10. MountsFit'
  <2>1. CASE Mounted(p)
    BY <1>2, <1>8, <1>9, <2>1 DEF MountsFit
  <2>2. CASE ~Mounted(p)
    BY <1>2, <1>8, <2>2 DEF MountsFit, Confirmable
  <2> QED
    BY <2>1, <2>2
<1>11. FlagsFit'
  <2>1. \A q \in Legs : Live(q)' /\ Mounted(q)' => Live(q) /\ Mounted(q) /\ legs'[q] = legs[q]
    BY <1>1, <1>8
  <2>2. host = "app" => \A q \in Legs : ~Live(q)'
    BY <1>2, <1>8, <1>9 DEF MountsFit
  <2> QED
    BY <2>1, <2>2 DEF FlagsFit
<1>12. ShownFits'
  <2>1. page.failure # None => page.failure.leg # p
    BY <1>2 DEF ShownFits
  <2>2. landed[p] # None
    BY TypedLeg DEF LegFits
  <2>3. page'.stale # None =>
          /\ page'.stale \in Legs /\ legs'[page'.stale].kind = "STALE"
          /\ landed[page'.stale] # None /\ landed[page'.stale].outcome = "ActivationPhaseChanged"
    BY <1>8, <2>2 DEF ShownFits
  <2>4. page'.updated # None =>
          /\ page'.updated \in Legs
          /\ landed[page'.updated] # None /\ landed[page'.updated].outcome = "Ok"
    BY <2>2 DEF ShownFits
  <2> QED
    BY <1>1, <2>1, <2>3, <2>4 DEF ShownFits, FailureClaimsAreTrue
<1> QED
  BY <1>3, <1>4, <1>5, <1>6, <1>7, <1>10, <1>11, <1>12, LegsKeepInv, TsKept

LEMMA UpdatedVerifiedInv ==
    ASSUME IInv, NEW p \in Legs, UpdatedVerified(p)
    PROVE  IInv'
<1>1. /\ legs[p].pc = "verify" /\ Live(p) /\ legs[p].pc # "adapter"
      /\ UNCHANGED <<clock, boot, mint, program, sent, landed, co, job, files, host>>
  BY ReadingKeeps DEF UpdatedVerified, Live, Finished
<1>2. CASE UpdatedOutcomeProven(p) /\ ShownInvariants(p)
  <2>1. /\ legs' = [legs EXCEPT ![p] = Ended(p, "done")]
        /\ page' = IF Mounted(p) THEN [page EXCEPT !.kind = "COMPLETED", !.updated = p] ELSE page
        /\ landed[p].outcome = "Ok"
    BY <1>2 DEF UpdatedVerified, UpdatedOutcomeProven
  <2>2. /\ DOMAIN page' = PageFields
        /\ page'.mount = page.mount /\ page'.leg = page.leg /\ page'.failure = page.failure
        /\ page'.walletRequested = page.walletRequested /\ page'.submitted = page.submitted
        /\ page'.stale = page.stale /\ page'.session = page.session
        /\ page'.updated \in {page.updated, p}
        /\ IF Mounted(p) THEN page'.kind = "COMPLETED" ELSE page'.kind = page.kind
    BY <2>1 DEF IInv, PageShape, PageFields
  <2>3. SessionFits'
    <3>1. /\ \A q \in Legs : q # p => legs'[q] = legs[q]
          /\ legs'[p].pc = "done"
          /\ legs'[p].kind = legs[p].kind /\ legs'[p].mount = legs[p].mount
          /\ legs'[p].T = legs[p].T
      BY <2>1 DEF Ended, IInv, LegShape, LegFields
    <3>2. /\ \A q \in Legs : Live(q)' => q # p /\ Live(q) /\ legs'[q] = legs[q]
          /\ \A q \in Legs : legs'[q].kind = legs[q].kind /\ legs'[q].T = legs[q].T
          /\ \A q \in Legs : Mounted(q)' => Mounted(q)
      BY <2>2, <3>1 DEF Live, Finished, Mounted
    <3>3. Confirmable' => Confirmable
      BY <2>2 DEF Confirmable
    <3>4. MayConfirm' => MayConfirm
      BY <3>2, <3>3 DEF MayConfirm
    <3> QED
      BY <1>1, <2>2, <3>2, <3>3, <3>4 DEF IInv, SessionFits
  <2> QED
    BY <1>1, <2>1, <2>2, <2>3, DoneInv
<1>3. CASE Fail(p)
  BY <1>1, <1>3, FailInv
<1> QED
  BY <1>2, <1>3 DEF UpdatedVerified

\* The proof goes into the session of the moment, whose T nobody has confirmed yet.
LEMMA StaleVerifiedInv ==
    ASSUME IInv, NEW p \in Legs, StaleVerified(p)
    PROVE  IInv'
<1> DEFINE stored == [page EXCEPT !.session.stale = p]
<1>1. /\ legs[p].pc = "verify" /\ legs[p].kind = "STALE" /\ Live(p) /\ legs[p].pc # "adapter"
      /\ UNCHANGED <<clock, boot, mint, program, sent, landed, co, job, files, host>>
  BY ReadingKeeps DEF StaleVerified, Live, Finished
<1>2. CASE StaleOutcomeProven(p) /\ page.session # None
  <2>1. ShownInvariants(p)
    BY <1>1, <1>2 DEF ShownInvariants, StaleOutcomeProven
  <2>2. /\ legs' = [legs EXCEPT ![p] = Ended(p, "done")]
        /\ page' = IF Mounted(p) THEN [stored EXCEPT !.kind = "STALE_VERIFIED", !.stale = p]
                   ELSE stored
        /\ landed[p].outcome = "ActivationPhaseChanged"
    BY <1>2, <2>1 DEF StaleVerified, StaleOutcomeProven
  <2>3. landed[p] # None
    BY <1>1, TypedLeg DEF LegFits
  <2>4. /\ DOMAIN stored = PageFields
        /\ stored.mount = page.mount /\ stored.leg = page.leg /\ stored.failure = page.failure
        /\ stored.walletRequested = page.walletRequested /\ stored.submitted = page.submitted
        /\ stored.stale = page.stale /\ stored.updated = page.updated /\ stored.kind = page.kind
        /\ stored.session = [page.session EXCEPT !.stale = p]
    BY DEF IInv, PageShape, PageFields
  <2> HIDE DEF stored
  <2>5. /\ DOMAIN page' = PageFields
        /\ page'.mount = page.mount /\ page'.leg = page.leg /\ page'.failure = page.failure
        /\ page'.walletRequested = page.walletRequested /\ page'.submitted = page.submitted
        /\ page'.updated = page.updated /\ page'.stale \in {page.stale, p}
        /\ page'.session = [page.session EXCEPT !.stale = p]
        /\ IF Mounted(p) THEN page'.kind = "STALE_VERIFIED" ELSE page'.kind = page.kind
    BY <2>2, <2>4 DEF PageFields
  <2>6. SessionFits'
    <3>1. /\ \A q \in Legs : q # p => legs'[q] = legs[q]
          /\ legs'[p].pc = "done"
          /\ legs'[p].kind = legs[p].kind /\ legs'[p].mount = legs[p].mount
          /\ legs'[p].T = legs[p].T
      BY <2>2 DEF Ended, IInv, LegShape, LegFields
    <3>2. /\ \A q \in Legs : Live(q)' => q # p /\ Live(q) /\ legs'[q] = legs[q]
          /\ \A q \in Legs : legs'[q].kind = legs[q].kind /\ legs'[q].T = legs[q].T
          /\ \A q \in Legs : Mounted(q)' => Mounted(q)
      BY <2>5, <3>1 DEF Live, Finished, Mounted
    <3>3. MayConfirm' => MayConfirm
      <4>1. CASE Mounted(p)
        BY <1>1, <4>1 DEF MayConfirm
      <4>2. CASE ~Mounted(p)
        BY <2>5, <3>2, <4>2 DEF MayConfirm, Confirmable
      <4> QED
        BY <4>1, <4>2
    <3>4. SessionFits
      BY DEF IInv
    <3>5. /\ DOMAIN page'.session = {"T", "stale"} /\ page'.session.T = page.session.T
          /\ page'.session.stale = p
      BY <1>2, <2>5, <3>4 DEF SessionFits
    <3>6. p # None
      BY Constants
    <3>7. page'.session # None
      <4>1. page.session.T \in Nat /\ page.session.T <= MaxClock + ActivationDelay
        <5>1. PICK q \in Legs : legs[q].T = page.session.T
          BY <1>2, <3>4 DEF SessionFits
        <5>2. page.session.T # None /\ clock \in Nat /\ clock <= MaxClock
          BY <1>2, <3>4 DEF SessionFits, IInv, Shape
        <5> QED
          BY <5>1, <5>2, TypedLeg, Constants DEF LegFits
      <4>2. page'.session = [T |-> page.session.T, stale |-> p]
        BY <1>2, <2>5, <3>4 DEF SessionFits
      <4> QED
        BY <4>1, <4>2, SessionIsNotNone
    <3>8. host = "app" => legs[p].T = page.session.T
      BY <1>1, <3>4 DEF SessionFits, WithT, Built, Requested, Signed, Dated, Receipted, Waited,
         Crossed, Sending
    <3> QED
      BY <1>1, <1>2, <2>2, <2>3, <3>2, <3>3, <3>4, <3>5, <3>6, <3>7, <3>8 DEF SessionFits
  <2> QED
    BY <1>1, <2>2, <2>5, <2>6, DoneInv
<1>3. CASE Fail(p)
  BY <1>1, <1>3, FailInv
<1> QED
  BY <1>2, <1>3 DEF StaleVerified

\* app.ts allows no further Buy; on the site nothing but the await changes.
LEMMA FixtureLoadedInv ==
    ASSUME IInv, NEW p \in Legs, FixtureLoaded(p)
    PROVE  IInv'
<1> USE DEF IInv
<1>1. /\ legs[p].pc = "load" /\ Live(p) /\ legs[p].pc \notin Asking
      /\ UNCHANGED <<clock, boot, mint, program, sent, landed, co, job, files, host>>
      /\ legs' = [legs EXCEPT ![p].pc = "arm"]
      /\ page' = [page EXCEPT !.started = (host = "app")]
  BY ReadingKeeps DEF FixtureLoaded, Live, Finished, Asking
<1>2. job[p].at = "idle" /\ job'[p].at = "idle"
  BY <1>1, NoRequest
<1>3. /\ DOMAIN legs' = Legs
      /\ \A q \in Legs : q # p => legs'[q] = legs[q]
      /\ DOMAIN legs'[p] = LegFields /\ legs'[p].pc = "arm"
      /\ legs'[p].kind = legs[p].kind /\ legs'[p].mount = legs[p].mount /\ legs'[p].T = legs[p].T
      /\ legs'[p].base = legs[p].base
      /\ legs'[p].asked = legs[p].asked /\ legs'[p].signedAt = legs[p].signedAt
  BY <1>1 DEF LegShape, LegFields
<1>4. /\ DOMAIN page' = PageFields
      /\ page'.mount = page.mount /\ page'.kind = page.kind /\ page'.leg = page.leg
      /\ page'.stale = page.stale /\ page'.updated = page.updated
      /\ page'.failure = page.failure /\ page'.session = page.session
      /\ page'.stage = page.stage
      /\ page'.walletRequested = page.walletRequested /\ page'.submitted = page.submitted
  BY <1>1 DEF PageShape, PageFields
<1>5. LegsKeep /\ \A q \in Legs : legs'[q].T = legs[q].T
  BY <1>1, <1>2, <1>3 DEF LegsKeep, Shape
<1>6. \A q \in Legs : q # p => LegFits(q)' /\ JobFits(q)'
  BY <1>1, <1>3, OtherLegs
<1>7. LegFits(p)'
  BY <1>1, <1>3, TypedLeg
     DEF LegFits, Live, Sending, Crossed, Waited, Receipted, Dated, Signed, Requested, Built,
         WithT, BeforeT, Over, Finished
<1>8. JobFits(p)'
  BY <1>2 DEF JobFits, Arming, Simulating
<1>9. LegShape' /\ PageShape'
  BY <1>3, <1>4 DEF LegShape, PageShape, BeforeT
<1>10. /\ \A q \in Legs : Live(q)' <=> Live(q)
       /\ \A q \in Legs : Mounted(q)' <=> Mounted(q)
       /\ \A q \in Legs : legs'[q].pc = "adapter" <=> legs[q].pc = "adapter"
       /\ \A q \in Legs : legs'[q].pc = "unused" <=> legs[q].pc = "unused"
       /\ \A q \in Legs : legs'[q].kind = legs[q].kind /\ legs'[q].mount = legs[q].mount
       /\ \A q \in Legs : legs'[q].pc \in WithT => legs[q].pc \in WithT
       /\ \A q \in Legs : legs'[q].pc \in Requested => legs'[q] = legs[q]
       /\ \A q \in Legs : legs'[q].pc \in {"submit"} \cup Crossed => legs'[q] = legs[q]
       /\ Confirmable' <=> Confirmable
  BY <1>1, <1>3, <1>4
     DEF Live, Mounted, Confirmable, Finished, Sending, Crossed, Waited, Receipted, Dated, Signed,
         Requested, Built, WithT
<1>11. MountsFit'
  BY <1>1, <1>4, <1>10 DEF MountsFit
<1>12. SessionFits'
  <2>1. MayConfirm' <=> MayConfirm
    BY <1>10 DEF MayConfirm
  <2> QED
    BY <1>1, <1>4, <1>5, <1>10, <2>1 DEF SessionFits
<1>13. FlagsFit'
  <2>1. BuyStages["arm"] = BuyStages["load"]
    BY DEF BuyStages
  <2>2. host = "app" => \A q \in Legs : Live(q)' => page'.stage = BuyStages[legs'[q].pc]
    BY <1>1, <1>3, <1>4, <1>10, <2>1 DEF FlagsFit
  <2>3. \A q \in Legs : Live(q)' /\ Mounted(q)' =>
          /\ legs'[q].pc \in Requested => page'.walletRequested
          /\ legs'[q].pc \in {"submit"} \cup Crossed => page'.submitted
    BY <1>4, <1>10 DEF FlagsFit
  <2> QED
    BY <1>1, <2>2, <2>3 DEF FlagsFit
<1>14. ShownFits'
  <2>1. page.failure # None => page.failure.leg # p
    BY <1>1 DEF ShownFits, Over
  <2> QED
    BY <1>1, <1>3, <1>4, <1>10, <2>1 DEF ShownFits, FailureClaimsAreTrue
<1> QED
  BY <1>1, <1>5, <1>6, <1>7, <1>8, <1>9, <1>11, <1>12, <1>13, <1>14, LegsKeepInv, TsKept

\* The adapter is loaded for the clicks in their order, so the session and the flags
\* that the attempt resets are those of no other leg of the mounted component.
LEMMA AdapterLoadedInv ==
    ASSUME IInv, NEW p \in Legs, AdapterLoaded(p)
    PROVE  IInv'
<1> USE DEF IInv
<1>1. /\ legs[p].pc = "adapter" /\ Live(p) /\ legs[p].pc \notin Asking
      /\ \A q \in 1 .. p - 1 : legs[q].pc # "adapter"
      /\ UNCHANGED <<clock, boot, mint, program, sent, landed, co, job, files, host>>
  BY ReadingKeeps DEF AdapterLoaded, Live, Finished, Asking
<1>2. job[p].at = "idle" /\ job'[p].at = "idle" /\ host # "app"
  BY <1>1, NoRequest DEF MountsFit
<1>3. /\ legs[p].kind = "STALE" /\ legs[p].T = None /\ ~legs[p].asked
      /\ legs[p].signedAt = None /\ sent[p] = None
  BY <1>1, TypedLeg
     DEF LegFits, Live, Sending, Crossed, Waited, Receipted, Dated, Signed, Requested, BeforeT,
         Over, Finished
<1>4. CASE /\ legs' = [legs EXCEPT ![p].pc = "connect"]
           /\ page' = [page EXCEPT !.session = None, !.stage = "PHANTOM_CONNECT",
                                   !.walletRequested = FALSE, !.submitted = FALSE]
  <2>1. /\ DOMAIN legs' = Legs
        /\ \A q \in Legs : q # p => legs'[q] = legs[q]
        /\ DOMAIN legs'[p] = LegFields /\ legs'[p].pc = "connect"
        /\ legs'[p].kind = legs[p].kind /\ legs'[p].mount = legs[p].mount
        /\ legs'[p].T = legs[p].T /\ legs'[p].base = legs[p].base
        /\ legs'[p].asked = legs[p].asked /\ legs'[p].signedAt = legs[p].signedAt
    BY <1>4 DEF LegShape, LegFields
  <2>2. /\ DOMAIN page' = PageFields
        /\ page'.mount = page.mount /\ page'.kind = page.kind /\ page'.leg = page.leg
        /\ page'.stale = page.stale /\ page'.updated = page.updated
        /\ page'.failure = page.failure /\ page'.session = None
        /\ page'.walletRequested = FALSE /\ page'.submitted = FALSE
    BY <1>4 DEF PageShape, PageFields
  <2>3. LegsKeep /\ \A q \in Legs : legs'[q].T = legs[q].T
    BY <1>1, <2>1 DEF LegsKeep, Shape
  <2>4. \A q \in Legs : q # p => LegFits(q)' /\ JobFits(q)'
    BY <1>1, <2>1, OtherLegs
  <2>5. LegFits(p)'
    BY <1>1, <1>3, <2>1, TypedLeg
       DEF LegFits, Live, Sending, Crossed, Waited, Receipted, Dated, Signed, Requested, Built,
           WithT, BeforeT, Over, Finished
  <2>6. JobFits(p)'
    BY <1>2 DEF JobFits, Arming, Simulating
  <2>7. LegShape'
    BY <2>1 DEF LegShape, BeforeT
  <2>8. PageShape'
    <3>1. page'.walletRequested \in BOOLEAN /\ page'.submitted \in BOOLEAN
      BY <2>2, Zenon
    <3> QED
      BY <2>2, <3>1 DEF PageShape
  <2>9. /\ \A q \in Legs : Live(q)' <=> Live(q)
        /\ \A q \in Legs : Mounted(q)' <=> Mounted(q)
        /\ \A q \in Legs : legs'[q].pc = "adapter" => legs[q].pc = "adapter" /\ q # p
        /\ \A q \in Legs : legs'[q].pc = "unused" <=> legs[q].pc = "unused"
        /\ \A q \in Legs : legs'[q].kind = legs[q].kind /\ legs'[q].mount = legs[q].mount
        /\ Confirmable' <=> Confirmable
    BY <1>1, <2>1, <2>2 DEF Live, Mounted, Confirmable, Finished
  <2>10. \A q \in Legs : Live(q) /\ Mounted(q) => legs[q].pc = "adapter"
    BY <1>1 DEF MountsFit
  <2>11. ASSUME Mounted(p), NEW q \in Legs, q # p, legs[q].pc = "adapter"
         PROVE  FALSE
    <3>1. p \in Nat /\ q \in Nat /\ p >= 1 /\ q >= 1
      BY Constants DEF Legs
    <3>2. p < q
      BY <1>1, <2>11, <3>1
    <3>3. Live(q)
      BY <2>11 DEF Live, Finished
    <3>4. legs[p].mount <= legs[q].mount /\ legs[q].mount <= page.mount
      BY <2>11, <3>2 DEF MountsFit
    <3>5. Mounted(q)
      BY <2>11, <3>4 DEF Mounted, LegShape, PageShape
    <3> QED
      BY <1>1, <2>11, <3>3, <3>5 DEF MountsFit
  <2>12. MountsFit'
    <3>1. \A q, r \in Legs : Live(q)' /\ Mounted(q)' /\ legs'[q].pc # "adapter" =>
            legs'[r].pc # "adapter"
      BY <2>1, <2>9, <2>10, <2>11
    <3> QED
      BY <1>1, <2>2, <2>9, <3>1 DEF MountsFit
  <2>13. SessionFits'
    BY <1>1, <1>2, <2>2, <2>3, <2>9 DEF SessionFits
  <2>14. FlagsFit'
    <3>1. \A q \in Legs : Live(q)' /\ Mounted(q)' => legs'[q].pc \in {"connect", "adapter"}
      BY <2>1, <2>9, <2>10
    <3>2. {"connect", "adapter"} \cap (Requested \cup {"submit"} \cup Crossed) = {}
      BY DEF Sending, Crossed, Waited, Receipted, Dated, Signed, Requested
    <3> QED
      BY <1>1, <1>2, <3>1, <3>2 DEF FlagsFit
  <2>15. ShownFits'
    <3>1. page.failure # None => page.failure.leg # p
      BY <1>1 DEF ShownFits, Over
    <3> QED
      BY <1>1, <2>1, <2>2, <2>9, <3>1 DEF ShownFits, FailureClaimsAreTrue
  <2> QED
    BY <1>1, <2>3, <2>4, <2>5, <2>6, <2>7, <2>8, <2>12, <2>13, <2>14, <2>15, LegsKeepInv, TsKept
<1>5. CASE /\ legs' = [legs EXCEPT ![p] = Ended(p, "failed")]
           /\ page' = IF Mounted(p)
                          THEN [page EXCEPT !.kind = "FAILED", !.failure = CouldNotStart(p)]
                          ELSE page
  <2>1. CouldNotStart(p).leg = p
    BY DEF CouldNotStart
  <2>2. DOMAIN page = PageFields
    BY DEF PageShape
  <2>3. LegShape' /\ PageShape' /\ MountsFit' /\ SessionFits' /\ FlagsFit' /\ ShownFits'
    BY <1>1, <1>2, <1>3, <1>5, <2>1, <2>2, FailedPage
  <2>4. /\ DOMAIN legs' = Legs
        /\ \A q \in Legs : q # p => legs'[q] = legs[q]
        /\ legs'[p].pc = "failed"
        /\ legs'[p].kind = legs[p].kind /\ legs'[p].T = legs[p].T /\ legs'[p].base = legs[p].base
        /\ legs'[p].signedAt = legs[p].signedAt
    BY <1>5 DEF Ended, LegShape, LegFields
  <2>5. LegFits(p)' /\ JobFits(p)'
    BY <1>1, <2>4, EndedFits DEF Over
  <2>6. LegsKeep /\ \A q \in Legs : legs'[q].T = legs[q].T
    BY <1>1, <2>4 DEF LegsKeep, Shape
  <2>7. \A q \in Legs : q # p => LegFits(q)' /\ JobFits(q)'
    BY <1>1, <2>4, OtherLegs
  <2> QED
    BY <1>1, <2>3, <2>5, <2>6, <2>7, LegsKeepInv, TsKept
<1> QED
  BY <1>4, <1>5 DEF AdapterLoaded

\* A session begins with a T that no leg has had.
LEMMA ArmedInv ==
    ASSUME IInv, NEW p \in Legs, Armed(p)
    PROVE  IInv'
<1> USE DEF IInv
<1> DEFINE T == job[p].arg
<1>1. /\ legs[p].pc = "arm" /\ Live(p) /\ legs[p].pc # "adapter"
      /\ job[p].at \in {"ok", "error"}
      /\ job' = [job EXCEPT ![p] = Idle]
      /\ UNCHANGED <<clock, boot, mint, program, sent, landed, co, files, host>>
  BY DEF Armed, Live, Finished
<1>2. CASE job[p].at = "ok"
  <2>1. /\ legs' = [legs EXCEPT ![p].pc = "build", ![p].T = T]
        /\ page' = [Staged("build") EXCEPT !.session = [T |-> T, stale |-> None]]
    BY <1>2 DEF Armed
  <2>2. /\ Replied(p)
        /\ T \in Nat /\ T <= clock + ActivationDelay
        /\ \A q \in Legs : legs[q].T # T
        /\ \A q \in Legs : Replied(q) /\ job[q].arg = T => p = q
    BY <1>1, <1>2 DEF Replied, FreshT
  <2>3. T # None /\ [T |-> T, stale |-> None] # None
    <3>1. T <= MaxClock + ActivationDelay
      BY <2>2, Constants DEF Shape
    <3> QED
      BY <2>2, <3>1, Constants, SessionIsNotNone
  <2>4. /\ legs[p].kind = "STALE" /\ legs[p].T = None /\ ~legs[p].asked
        /\ legs[p].signedAt = None /\ sent[p] = None
    BY <1>1, TypedLeg
       DEF LegFits, Live, Sending, Crossed, Waited, Receipted, Dated, Signed, Requested, BeforeT,
           Over, Finished
  <2>5. landed[p] = None
    BY <2>4 DEF LandedFits
  <2> HIDE DEF T
  <2>6. /\ DOMAIN legs' = Legs
        /\ \A q \in Legs : q # p => legs'[q] = legs[q]
        /\ DOMAIN legs'[p] = LegFields /\ legs'[p].pc = "build"
        /\ legs'[p].kind = legs[p].kind /\ legs'[p].mount = legs[p].mount /\ legs'[p].T = T
        /\ legs'[p].base = legs[p].base
        /\ legs'[p].asked = legs[p].asked /\ legs'[p].signedAt = legs[p].signedAt
    BY <2>1 DEF LegShape, LegFields
  <2>7. /\ DOMAIN page' = PageFields
        /\ page'.mount = page.mount /\ page'.kind = page.kind /\ page'.leg = page.leg
        /\ page'.stale = page.stale /\ page'.updated = page.updated
        /\ page'.failure = page.failure /\ page'.session = [T |-> T, stale |-> None]
        /\ page'.stage = BuyStages["build"]
        /\ page'.walletRequested = (page.walletRequested \/ "build" = "sign")
        /\ page'.submitted = (page.submitted \/ "build" = "submit")
    BY <2>1 DEF Staged, PageShape, PageFields
  <2>8. /\ DOMAIN page'.session = {"T", "stale"} /\ page'.session # None
        /\ page'.session.T = T /\ page'.session.stale = None
    BY <2>3, <2>7
  <2>9. /\ DOMAIN job' = Legs /\ job'[p] = Idle /\ job'[p].at = "idle"
        /\ \A q \in Legs : q # p => job'[q] = job[q]
    BY <1>1 DEF Shape, Idle
  <2>10. LegsKeep
    BY <1>1, <2>4, <2>6, <2>9 DEF LegsKeep, Shape
  <2>11. \A q \in Legs : q # p => LegFits(q)' /\ JobFits(q)'
    BY <1>1, <2>6, <2>9, OtherLegs
  <2>12. LegFits(p)'
    BY <1>1, <2>2, <2>3, <2>4, <2>6, TypedLeg
       DEF LegFits, Live, Sending, Crossed, Waited, Receipted, Dated, Signed, Requested, Built,
           WithT, BeforeT, Over, Finished
  <2>13. JobFits(p)'
    BY <2>9 DEF JobFits, Arming, Simulating
  <2>14. \A q \in Legs : BaseFits(q)'
    <3>1. \A q \in Legs : q # p => BaseFits(q)'
      BY <2>6, <2>10, BaseKept
    <3>2. BaseFits(p)'
      BY <2>4, <2>6 DEF BaseFits
    <3> QED
      BY <3>1, <3>2
  <2>15. FreshT'
    <3>1. ~Replied(p)' /\ \A q \in Legs : Replied(q)' => q # p /\ Replied(q) /\ job'[q] = job[q]
      BY <2>6, <2>9 DEF Replied
    <3>2. \A q \in Legs : Replied(q)' => job'[q].arg # T
      BY <2>2, <3>1
    <3>3. \A q \in Legs : job'[q].at \in Arming => job'[q] = job[q] /\ job[q].at \in Arming
      BY <2>9 DEF Arming
    <3>4. \A q \in Legs : job[q].at \in {"arm-send", "arm-verify"} => T < job[q].arg
      BY <2>2 DEF FreshT, T
    <3>5. ~co.arming \/ (\E q \in Legs : job[q].at = "arm-read") => T < clock + ActivationDelay
      BY <2>2 DEF FreshT, T
    <3>6. \A q \in Legs : legs'[q].T = legs[q].T \/ legs'[q].T = T
      BY <2>6
    <3>7. \A q \in Legs : Replied(q)' =>
            /\ job'[q].arg \in Nat /\ job'[q].arg <= clock + ActivationDelay
            /\ \A r \in Legs : legs'[r].T # job'[q].arg
            /\ \A r \in Legs : Replied(r)' /\ job'[r].arg = job'[q].arg => q = r
      BY <3>1, <3>2, <3>6 DEF FreshT
    <3>8. \A q \in Legs : job'[q].at \in {"arm-send", "arm-verify"} =>
            /\ job'[q].arg \in Nat /\ job'[q].arg <= clock + ActivationDelay
            /\ \A r \in Legs : legs'[r].T # None => legs'[r].T < job'[q].arg
            /\ \A r \in Legs : Replied(r)' => job'[r].arg < job'[q].arg
      BY <3>1, <3>3, <3>4, <3>6 DEF FreshT, Arming
    <3>9. ~co.arming \/ (\E q \in Legs : job'[q].at = "arm-read") =>
            /\ \A r \in Legs : legs'[r].T # None => legs'[r].T < clock + ActivationDelay
            /\ \A r \in Legs : Replied(r)' => job'[r].arg < clock + ActivationDelay
      BY <3>1, <3>3, <3>5, <3>6 DEF FreshT, Arming
    <3> QED
      BY <1>1, <3>7, <3>8, <3>9 DEF FreshT
  <2>16. LegShape'
    BY <2>6 DEF LegShape, WithT
  <2>17. PageShape' /\ page'.walletRequested = page.walletRequested
                    /\ page'.submitted = page.submitted
    <3>1. page.walletRequested \in BOOLEAN /\ page.submitted \in BOOLEAN
      BY DEF PageShape
    <3>2. "build" # "sign" /\ "build" # "submit"
      OBVIOUS
    <3>3. page'.walletRequested = page.walletRequested /\ page'.submitted = page.submitted
      BY <2>7, <3>1, <3>2, Zenon
    <3> QED
      BY <2>7, <3>1, <3>3 DEF PageShape
  <2>18. /\ \A q \in Legs : Live(q)' <=> Live(q)
         /\ \A q \in Legs : Mounted(q)' <=> Mounted(q)
         /\ \A q \in Legs : legs'[q].pc = "adapter" <=> legs[q].pc = "adapter"
         /\ \A q \in Legs : legs'[q].pc = "unused" <=> legs[q].pc = "unused"
         /\ \A q \in Legs : legs'[q].kind = legs[q].kind /\ legs'[q].mount = legs[q].mount
         /\ \A q \in Legs : legs'[q].pc \in Requested => legs'[q] = legs[q]
         /\ \A q \in Legs : legs'[q].pc \in {"submit"} \cup Crossed => legs'[q] = legs[q]
         /\ Confirmable' <=> Confirmable
    BY <1>1, <2>6, <2>7
       DEF Live, Mounted, Confirmable, Finished, Sending, Crossed, Waited, Receipted, Dated, Signed,
           Requested, Built, WithT
  <2>19. MountsFit'
    BY <1>1, <2>7, <2>18 DEF MountsFit
  <2>20. host = "app" => ~Confirmable /\ \A q \in Legs : Live(q) => q = p
    BY <1>1 DEF MountsFit, Confirmable
  <2>21. SessionFits'
    <3>1. \A r \in Legs : legs'[r].kind = "REFRESHED" => r # p /\ legs'[r].T = legs[r].T
      BY <2>4, <2>6
    <3>2. \A q, r \in Legs :
            (/\ legs'[q].kind = "REFRESHED" /\ legs'[r].kind = "REFRESHED"
             /\ legs'[q].T # None /\ legs'[q].T = legs'[r].T) => q = r
      BY <2>18, <3>1 DEF SessionFits
    <3>3. \A r \in Legs : legs'[r].kind = "REFRESHED" => legs'[r].T # page'.session.T
      BY <2>2, <2>8, <3>1
    <3>4. \E q \in Legs : legs'[q].T = page'.session.T
      BY <2>6, <2>8
    <3>5. host' = "app" =>
            /\ \A q \in Legs : Live(q)' => page'.session.T = legs'[q].T
            /\ ~Confirmable'
      BY <1>1, <2>6, <2>8, <2>18, <2>20
    <3> QED
      BY <2>3, <2>8, <3>2, <3>3, <3>4, <3>5 DEF SessionFits
  <2>22. FlagsFit'
    <3>1. host' = "app" => \A q \in Legs : Live(q)' => page'.stage = BuyStages[legs'[q].pc]
      BY <1>1, <2>6, <2>7, <2>18, <2>20
    <3>2. \A q \in Legs : Live(q)' /\ Mounted(q)' =>
            /\ legs'[q].pc \in Requested => page'.walletRequested
            /\ legs'[q].pc \in {"submit"} \cup Crossed => page'.submitted
      BY <2>17, <2>18 DEF FlagsFit
    <3> QED
      BY <3>1, <3>2 DEF FlagsFit
  <2>23. ShownFits'
    <3>1. page.failure # None => page.failure.leg # p
      BY <1>1 DEF ShownFits, Over
    <3> QED
      BY <1>1, <2>6, <2>7, <2>18, <3>1 DEF ShownFits, FailureClaimsAreTrue
  <2> QED
    BY <1>1, <2>10, <2>11, <2>12, <2>13, <2>14, <2>15, <2>16, <2>17, <2>19, <2>21, <2>22, <2>23,
       LegsKeepInv
<1>3. CASE Fail(p)
  BY <1>1, <1>3, FailInv
<1> QED
  BY <1>2, <1>3 DEF Armed

\* What is filed beside the coordinator's records of the moment.
LEMMA EvidenceInv ==
    ASSUME IInv, NEW p \in Legs, Evidence(p)
    PROVE  IInv'
<1> USE DEF IInv
<1> DEFINE stale     == IF legs[p].kind = "STALE" THEN p ELSE legs[p].base
           refreshed == IF legs[p].kind = "STALE" THEN None ELSE p
           file == [stale |-> stale, refreshed |-> refreshed, boot |-> boot,
                    armed |-> co.armed, auths |-> {a.leg : a \in co.auths}]
<1>1. /\ legs[p].pc = "done"
      /\ files' = files \cup {file}
      /\ UNCHANGED <<clock, boot, mint, program, sent, landed, co, job, host, page, legs>>
  BY DEF Evidence, RecordEvidence
<1>2. stale \in Legs /\ landed[stale] # None
  <2>1. landed[p] # None /\ legs[p].kind \in {"STALE", "REFRESHED"}
    BY <1>1, TypedLeg DEF LegFits
  <2>2. legs[p].T # None
    BY <2>1 DEF LandedFits, SentFits
  <2> QED
    BY <2>1, <2>2 DEF BaseFits
<1>3. landed[stale].boot = boot =>
        co.armed = legs[stale].T /\ stale \in {a.leg : a \in co.auths}
  BY <1>2 DEF LandedFits, SentFits, Authorized
<1>4. /\ file.stale = stale /\ file.boot = boot /\ file.armed = co.armed
      /\ file.auths = {a.leg : a \in co.auths}
  OBVIOUS
<1> HIDE DEF file, stale
<1>5. FilesFit'
  BY <1>1, <1>2, <1>3, <1>4 DEF FilesFit
<1>6. Shape'
  BY <1>1 DEF Shape
<1>7. LegShape' /\ PageShape' /\ MountsFit' /\ SessionFits' /\ FlagsFit' /\ ShownFits'
  BY <1>1, PageKept
<1>8. ASSUME NEW q \in Legs
      PROVE  LegFits(q)' /\ BaseFits(q)' /\ SentFits(q)' /\ LandedFits(q)' /\ JobFits(q)'
  <2>1. LegFits(q)' /\ JobFits(q)'
    BY <1>1, OtherLegs
  <2>2. BaseFits(q)' /\ SentFits(q)' /\ LandedFits(q)'
    BY <1>1 DEF BaseFits, SentFits, LandedFits, IsWire, Authorized
  <2> QED
    BY <2>1, <2>2
<1>9. ArmFits' /\ FreshT' /\ SimsFit' /\ AuthsFit'
  BY <1>1 DEF ArmFits, FreshT, Replied, SimsFit, AuthsFit
<1>10. MovesOnlyAsConfirmed'
  <2>1. UNCHANGED <<host, landed, legs>> /\ MovesOnlyAsConfirmed
    BY <1>1
  <2> HIDE DEF IInv
  <2> QED
    BY <2>1 DEF MovesOnlyAsConfirmed
<1> QED
  BY <1>5, <1>6, <1>7, <1>8, <1>9, <1>10
-------------------------------------------------------------------------------
\* The trader and the browser.

\* Only the page changes.
LEMMA PageOnlyInv ==
    ASSUME IInv, UNCHANGED <<clock, boot, mint, program, sent, landed, co, job, files, host, legs>>,
           PageShape', MountsFit', SessionFits', FlagsFit', ShownFits'
    PROVE  IInv'
<1>1. LegsKeep /\ \A q \in Legs : legs'[q].T = legs[q].T
  BY DEF LegsKeep, IInv, Shape, LegShape
<1>2. \A q \in Legs : LegFits(q)' /\ JobFits(q)'
  BY OtherLegs
<1>3. LegShape'
  BY DEF IInv, LegShape
<1> QED
  BY <1>1, <1>2, <1>3, LegsKeepInv, TsKept DEF IInv

\* A page without a running leg: what a fresh page and a new mount have in common.
LEMMA QuietPage ==
    ASSUME IInv, UNCHANGED <<host, landed, sent, legs>>,
           DOMAIN page' = PageFields, page'.mount \in Nat,
           page.mount <= page'.mount,
           page'.walletRequested \in BOOLEAN, page'.submitted \in BOOLEAN,
           \A q \in Legs : Live(q) => legs[q].mount # page'.mount,
           host = "app" => \A q \in Legs : ~Live(q),
           page'.kind = "IDLE",
           page'.stale = None, page'.updated = None, page'.failure = None,
           page'.session \in {page.session, None}
    PROVE  PageShape' /\ MountsFit' /\ SessionFits' /\ FlagsFit' /\ ShownFits'
<1> USE DEF IInv
<1>1. \A q \in Legs : Live(q)' => ~Mounted(q)' /\ Live(q)
  BY DEF Live, Mounted
<1>2. ~Confirmable' /\ ~MayConfirm'
  BY <1>1 DEF Confirmable, MayConfirm
<1>3. PageShape'
  BY DEF PageShape
<1>4. MountsFit'
  <2>1. \A q \in Legs : legs[q].pc # "unused" => legs[q].mount <= page'.mount
    BY DEF MountsFit, LegShape, PageShape
  <2>2. host = "app" => \A q \in Legs : legs[q].pc # "adapter"
    BY DEF MountsFit
  <2> QED
    BY <1>1, <1>2, <2>1, <2>2 DEF MountsFit
<1>5. SessionFits'
  BY <1>1, <1>2 DEF SessionFits
<1>6. FlagsFit'
  BY <1>1 DEF FlagsFit
<1>7. ShownFits'
  BY DEF ShownFits, FailureClaimsAreTrue
<1> QED
  BY <1>3, <1>4, <1>5, <1>6, <1>7

LEMMA ReviewInv ==
    ASSUME IInv, Review
    PROVE  IInv'
<1> USE DEF IInv
<1>1. /\ page.kind = "STALE_VERIFIED" /\ page' = [page EXCEPT !.kind = "REVIEWING"]
      /\ UNCHANGED <<clock, boot, mint, program, sent, landed, co, job, files, host, legs>>
  BY ReadingKeeps DEF Review
<1>2. /\ DOMAIN page' = PageFields /\ page'.kind = "REVIEWING"
      /\ page'.mount = page.mount /\ page'.leg = page.leg
      /\ page'.stale = page.stale /\ page'.updated = page.updated
      /\ page'.failure = page.failure /\ page'.session = page.session
      /\ page'.stage = page.stage
      /\ page'.walletRequested = page.walletRequested /\ page'.submitted = page.submitted
  BY <1>1 DEF PageShape, PageFields
<1>3. /\ Confirmable /\ Confirmable'
      /\ \A q \in Legs : (Live(q)' <=> Live(q)) /\ (Mounted(q)' <=> Mounted(q))
      /\ \A q \in Legs : ~(Live(q) /\ Mounted(q))
  BY <1>1, <1>2 DEF Confirmable, Live, Mounted, MountsFit
<1>4. PageShape' /\ MountsFit' /\ FlagsFit'
  BY <1>1, <1>2, <1>3 DEF PageShape, MountsFit, FlagsFit
<1>5. SessionFits'
  <2>1. MayConfirm /\ MayConfirm'
    BY <1>3 DEF MayConfirm
  <2> QED
    BY <1>1, <1>2, <1>3, <2>1 DEF SessionFits
<1>6. ShownFits'
  BY <1>1, <1>2 DEF ShownFits, FailureClaimsAreTrue
<1> QED
  BY <1>1, <1>4, <1>5, <1>6, PageOnlyInv

LEMMA StartOverInv ==
    ASSUME IInv, StartOver
    PROVE  IInv'
<1>1. /\ host = "web" /\ page.kind = "FAILED" /\ page' = LoadedPage(page.mount)
      /\ UNCHANGED <<clock, boot, mint, program, sent, landed, co, job, files, host, legs>>
  BY ReadingKeeps DEF StartOver
<1>2. /\ DOMAIN page' = PageFields /\ page'.mount = page.mount /\ page'.kind = "IDLE"
      /\ page'.stale = None /\ page'.updated = None /\ page'.failure = None
      /\ page'.session = None /\ page'.walletRequested = FALSE /\ page'.submitted = FALSE
  BY <1>1 DEF LoadedPage, PageFields
<1>3. page'.walletRequested \in BOOLEAN /\ page'.submitted \in BOOLEAN
  BY <1>2, Zenon
<1>4. page.mount \in Nat /\ page.mount <= page'.mount
  BY <1>2 DEF IInv, PageShape
<1>5. \A q \in Legs : Live(q) => legs[q].mount # page'.mount
  BY <1>1, <1>2 DEF IInv, MountsFit, Mounted
<1>6. PageShape' /\ MountsFit' /\ SessionFits' /\ FlagsFit' /\ ShownFits'
  BY <1>1, <1>2, <1>3, <1>4, <1>5, QuietPage
<1> QED
  BY <1>1, <1>6, PageOnlyInv

LEMMA RemountInv ==
    ASSUME IInv, Remount
    PROVE  IInv'
<1>1. /\ host = "web"
      /\ page' = [page EXCEPT !.mount = @ + 1, !.kind = "IDLE", !.leg = None, !.stale = None,
                              !.updated = None, !.failure = None]
      /\ UNCHANGED <<clock, boot, mint, program, sent, landed, co, job, files, host, legs>>
  BY ReadingKeeps DEF Remount
<1>2. /\ DOMAIN page' = PageFields /\ page'.mount = page.mount + 1 /\ page'.kind = "IDLE"
      /\ page'.stale = None /\ page'.updated = None /\ page'.failure = None
      /\ page'.session = page.session
      /\ page'.walletRequested = page.walletRequested /\ page'.submitted = page.submitted
  BY <1>1 DEF IInv, PageShape, PageFields
<1>3. page'.walletRequested \in BOOLEAN /\ page'.submitted \in BOOLEAN
  BY <1>2 DEF IInv, PageShape
<1>4. page.mount \in Nat /\ page'.mount \in Nat /\ page.mount <= page'.mount
  BY <1>2 DEF IInv, PageShape
<1>5. \A q \in Legs : Live(q) => legs[q].mount # page'.mount
  BY <1>2, <1>4 DEF IInv, MountsFit, LegShape, Live, Finished
<1>6. PageShape' /\ MountsFit' /\ SessionFits' /\ FlagsFit' /\ ShownFits'
  BY <1>1, <1>2, <1>3, <1>4, <1>5, QuietPage
<1> QED
  BY <1>1, <1>6, PageOnlyInv

LEMMA ReloadInv ==
    ASSUME IInv, Reload
    PROVE  IInv'
<1> USE DEF IInv
<1>1. /\ page' = LoadedPage(page.mount + 1)
      /\ legs' = [p \in Legs |-> IF legs[p].pc \in Finished THEN legs[p] ELSE Ended(p, "gone")]
      /\ UNCHANGED <<clock, boot, mint, program, sent, landed, co, job, files, host>>
  BY ReadingKeeps DEF Reload
<1>2. /\ DOMAIN page' = PageFields /\ page'.mount = page.mount + 1 /\ page'.kind = "IDLE"
      /\ page'.stale = None /\ page'.updated = None /\ page'.failure = None
      /\ page'.session = None /\ page'.walletRequested = FALSE /\ page'.submitted = FALSE
  BY <1>1 DEF LoadedPage, PageFields
<1>3. /\ DOMAIN legs' = Legs
      /\ \A q \in Legs : ~Live(q) => legs'[q] = legs[q]
      /\ \A q \in Legs : Live(q) => legs'[q] = Ended(q, "gone")
  BY <1>1 DEF Live
<1>4. ASSUME NEW q \in Legs
      PROVE  /\ DOMAIN legs'[q] = LegFields
             /\ legs'[q].kind = legs[q].kind /\ legs'[q].mount = legs[q].mount
             /\ legs'[q].T = legs[q].T /\ legs'[q].base = legs[q].base
             /\ legs'[q].asked = legs[q].asked /\ legs'[q].signedAt = legs[q].signedAt
             /\ Live(q) => legs'[q].pc = "gone"
  <2>1. CASE Live(q)
    <3>1. legs'[q] = Ended(q, "gone")
      BY <1>3, <2>1
    <3>2. DOMAIN legs[q] = LegFields
      BY DEF LegShape
    <3> HIDE DEF IInv
    <3> QED
      BY <3>1, <3>2 DEF Ended, LegFields
  <2>2. CASE ~Live(q)
    BY <1>3, <2>2 DEF LegShape
  <2> QED
    BY <2>1, <2>2
<1>5. /\ \A q \in Legs : ~Live(q)'
      /\ \A q \in Legs : legs'[q].pc = "unused" <=> legs[q].pc = "unused"
      /\ \A q \in Legs : legs'[q].pc \in Finished
  BY <1>3, <1>4 DEF Live, Finished
<1>6. LegsKeep /\ \A q \in Legs : legs'[q].T = legs[q].T
  <2>1. \A q \in Legs : legs'[q].pc # "arm"
    BY <1>5 DEF Finished
  <2> QED
    BY <1>1, <1>3, <1>4, <2>1 DEF LegsKeep, Shape
<1>7. ASSUME NEW q \in Legs
      PROVE  LegFits(q)' /\ JobFits(q)'
  <2>1. CASE Live(q)
    BY <1>1, <1>4, <2>1, EndedFits DEF Over
  <2>2. CASE ~Live(q)
    BY <1>1, <1>3, <2>2, OtherLegs
  <2> QED
    BY <2>1, <2>2
<1>8. LegShape'
  BY <1>3, <1>4, <1>5 DEF LegShape
<1>9. PageShape'
  <2>1. page'.walletRequested \in BOOLEAN /\ page'.submitted \in BOOLEAN
    BY <1>2, Zenon
  <2> QED
    BY <1>2, <2>1 DEF PageShape
<1>10. MountsFit'
  <2>1. \A q \in Legs : legs'[q].pc # "adapter"
    BY <1>5 DEF Finished
  <2>2. \A q \in Legs : legs'[q].pc # "unused" => legs'[q].mount <= page'.mount
    BY <1>2, <1>4, <1>5 DEF MountsFit, LegShape, PageShape
  <2>3. \A p, q \in Legs : p < q /\ legs'[q].pc # "unused" =>
          legs'[p].pc # "unused" /\ legs'[p].mount <= legs'[q].mount
    BY <1>4, <1>5 DEF MountsFit
  <2> QED
    BY <1>5, <2>1, <2>2, <2>3 DEF MountsFit
<1>11. SessionFits'
  <2>1. ~Confirmable' /\ ~MayConfirm'
    BY <1>2, <1>5 DEF Confirmable, MayConfirm
  <2> QED
    BY <1>2, <1>4, <1>5, <2>1 DEF SessionFits
<1>12. FlagsFit' /\ ShownFits'
  BY <1>2, <1>5 DEF FlagsFit, ShownFits, FailureClaimsAreTrue
<1> QED
  BY <1>1, <1>6, <1>7, <1>8, <1>9, <1>10, <1>11, <1>12, LegsKeepInv, TsKept

\* The leg of a click is new, and the last one.
LEMMA ClickedLeg ==
    ASSUME IInv, NEW p \in Legs, NextLeg(p)
    PROVE  /\ legs[p].pc = "unused" /\ legs[p].kind = "STALE" /\ legs[p].T = None
           /\ ~legs[p].asked /\ legs[p].signedAt = None
           /\ sent[p] = None /\ landed[p] = None /\ job[p].at = "idle"
           /\ \A q \in Legs : p < q => legs[q].pc = "unused"
           /\ \A q \in Legs : q < p => legs[q].pc # "unused"
<1> USE DEF IInv
<1>1. legs[p].pc = "unused" /\ \A q \in 1 .. p - 1 : legs[q].pc # "unused"
  BY DEF NextLeg
<1>2. /\ legs[p].kind = "STALE" /\ legs[p].T = None
      /\ ~legs[p].asked /\ legs[p].signedAt = None /\ sent[p] = None
  BY <1>1, TypedLeg DEF LegFits, Sending, Over
<1>3. landed[p] = None
  BY <1>2 DEF LandedFits
<1>4. job[p].at = "idle"
  BY <1>1 DEF JobFits, Asking, Over
<1>5. \A q \in Legs : p < q => legs[q].pc = "unused"
  BY <1>1 DEF MountsFit
<1>6. \A q \in Legs : q < p => legs[q].pc # "unused"
  <2>1. \A q \in Legs : q < p => q \in 1 .. p - 1
    BY Constants DEF Legs
  <2> QED
    BY <1>1, <2>1
<1> QED
  BY <1>1, <1>2, <1>3, <1>4, <1>5, <1>6

\* A click on a page without a running leg.
LEMMA ClickMounts ==
    ASSUME IInv, NEW p \in Legs, NextLeg(p),
           \A q \in Legs : ~(Live(q) /\ Mounted(q)),
           DOMAIN legs' = Legs, \A q \in Legs : q # p => legs'[q] = legs[q],
           legs'[p].pc # "unused", legs'[p].mount = page.mount,
           page'.mount = page.mount, page'.kind \notin {"STALE_VERIFIED", "REVIEWING"},
           Live(p)' => page'.kind = "RUNNING" /\ page'.leg = p,
           host' = host, host = "app" => legs'[p].pc # "adapter",
           legs'[p].pc \in {"adapter", "failed"} \/ \A q \in Legs : legs[q].pc # "adapter"
    PROVE  MountsFit'
<1> USE DEF IInv
<1>1. \A q \in Legs : q # p => (Live(q)' <=> Live(q)) /\ (Mounted(q)' <=> Mounted(q))
  BY DEF Live, Mounted
<1>2. page.mount \in Nat /\ \A q \in Legs : legs[q].mount \in Nat
  BY DEF LegShape, PageShape
<1>3. \A q \in Legs : legs'[q].pc # "unused" => legs'[q].mount <= page'.mount
  BY <1>2 DEF MountsFit
<1>4. ASSUME NEW q \in Legs, NEW r \in Legs, q < r, legs'[r].pc # "unused"
      PROVE  legs'[q].pc # "unused" /\ legs'[q].mount <= legs'[r].mount
  <2>1. q # r
    BY <1>4, Constants DEF Legs
  <2>2. CASE r = p
    BY <1>2, <1>4, <2>1, <2>2, ClickedLeg DEF MountsFit
  <2>3. CASE r # p /\ q = p
    BY <1>4, <2>3, ClickedLeg
  <2>4. CASE r # p /\ q # p
    BY <1>4, <2>4 DEF MountsFit
  <2> QED
    BY <2>2, <2>3, <2>4
<1>5. \A q \in Legs : Live(q)' /\ Mounted(q)' => q = p
  BY <1>1
<1>6. host = "app" => \A q \in Legs : q # p => ~Live(q) /\ legs[q].pc # "adapter"
  BY DEF MountsFit
<1>7. ASSUME NEW q \in Legs, NEW r \in Legs, Live(q)', Mounted(q)', legs'[q].pc # "adapter"
      PROVE  legs'[r].pc # "adapter"
  <2>1. q = p
    BY <1>5, <1>7
  <2>2. legs'[p].pc # "failed"
    BY <1>7, <2>1 DEF Live, Finished
  <2> QED
    BY <1>7, <2>1, <2>2
<1>8. ~Confirmable'
  BY DEF Confirmable
<1>9. host' = "app" => \A q \in Legs : legs'[q].pc # "adapter" /\ (Live(q)' => Mounted(q)')
  BY <1>1, <1>6 DEF Mounted
<1> QED
  BY <1>3, <1>4, <1>5, <1>7, <1>8, <1>9 DEF MountsFit

LEMMA BuyInv ==
    ASSUME IInv, NEW p \in Legs, Buy(p)
    PROVE  IInv'
<1> USE DEF IInv
<1> DEFINE pc == IF host = "web" THEN "adapter" ELSE "connect"
<1>1. /\ NextLeg(p) /\ BuyOffered
      /\ legs' = [legs EXCEPT ![p] = NewLeg("STALE", pc, None, None)]
      /\ UNCHANGED <<clock, boot, mint, program, sent, landed, co, job, files, host>>
  BY ReadingKeeps DEF Buy
<1>2. page' = IF host = "web" THEN BeginAttempt(p)
                  ELSE [BeginAttempt(p) EXCEPT !.session = None, !.stage = "PHANTOM_CONNECT",
                                    !.walletRequested = FALSE, !.submitted = FALSE]
  BY DEF Buy
<1>3. /\ DOMAIN legs' = Legs
      /\ \A q \in Legs : q # p => legs'[q] = legs[q]
      /\ DOMAIN legs'[p] = LegFields /\ legs'[p].pc = pc
      /\ legs'[p].kind = "STALE" /\ legs'[p].mount = page.mount /\ legs'[p].T = None
      /\ legs'[p].asked = FALSE /\ legs'[p].signedAt = None
  BY <1>1 DEF NewLeg, LegShape, LegFields
<1>4. /\ DOMAIN page' = PageFields
      /\ page'.mount = page.mount /\ page'.kind = "RUNNING" /\ page'.leg = p
      /\ page'.stale = None /\ page'.updated = None /\ page'.failure = None
      /\ host = "web" => /\ page'.session = page.session
                         /\ page'.walletRequested = page.walletRequested
                         /\ page'.submitted = page.submitted
      /\ host # "web" => /\ page'.session = None /\ page'.stage = "PHANTOM_CONNECT"
                         /\ page'.walletRequested = FALSE /\ page'.submitted = FALSE
  <2>1. LET pg == BeginAttempt(p) IN
        /\ DOMAIN pg = PageFields
        /\ pg.mount = page.mount /\ pg.kind = "RUNNING" /\ pg.leg = p
        /\ pg.stale = None /\ pg.updated = None /\ pg.failure = None
        /\ pg.session = page.session
        /\ pg.walletRequested = page.walletRequested /\ pg.submitted = page.submitted
    BY DEF BeginAttempt, PageShape, PageFields
  <2> QED
    BY <1>2, <2>1 DEF PageFields
<1>5. \A q \in Legs : ~(Live(q) /\ Mounted(q))
  BY <1>1 DEF BuyOffered, MountsFit
<1>6. pc \in {"adapter", "connect"} /\ (host = "app" => pc = "connect")
      /\ (pc = "connect" => host = "app")
  BY DEF Shape
<1> HIDE DEF pc
<1>7. LegsKeep /\ \A q \in Legs : legs'[q].T = legs[q].T
  BY <1>1, <1>3, <1>6, ClickedLeg DEF LegsKeep, Shape
<1>8. \A q \in Legs : q # p => LegFits(q)' /\ JobFits(q)'
  BY <1>1, <1>3, OtherLegs
<1>9. LegFits(p)'
  BY <1>1, <1>3, <1>6, ClickedLeg
     DEF LegFits, Live, Sending, Crossed, Waited, Receipted, Dated, Signed, Requested, Built,
         WithT, BeforeT, Over, Finished
<1>10. JobFits(p)'
  BY <1>1, ClickedLeg DEF JobFits, Arming, Simulating
<1>11. LegShape'
  <2>1. legs'[p].asked \in BOOLEAN
    BY <1>3, Zenon
  <2> QED
    BY <1>3, <1>6, <2>1 DEF LegShape, BeforeT, PageShape
<1>12. PageShape'
  <2>1. page'.walletRequested \in BOOLEAN /\ page'.submitted \in BOOLEAN
    <3>1. CASE host = "web"
      BY <1>4, <3>1 DEF PageShape
    <3>2. CASE host # "web"
      BY <1>4, <3>2, Zenon
    <3> QED
      BY <3>1, <3>2
  <2> QED
    BY <1>4, <2>1 DEF PageShape
<1>13. MountsFit'
  <2>1. legs'[p].pc \in {"adapter", "failed"} \/ \A q \in Legs : legs[q].pc # "adapter"
    BY <1>3, <1>6 DEF MountsFit
  <2> QED
    BY <1>1, <1>3, <1>4, <1>5, <1>6, <2>1, ClickMounts
<1>14. /\ \A q \in Legs : Live(q)' /\ Mounted(q)' => q = p
       /\ host = "app" => \A q \in Legs : Live(q)' => q = p
  BY <1>1, <1>3, <1>4, <1>5 DEF Live, Mounted, MountsFit
<1>15. SessionFits'
  <2>1. ~Confirmable'
    BY <1>4 DEF Confirmable
  <2>2. \A q, r \in Legs :
          (/\ legs'[q].kind = "REFRESHED" /\ legs'[r].kind = "REFRESHED"
           /\ legs'[q].T # None /\ legs'[q].T = legs'[r].T) => q = r
    BY <1>3 DEF SessionFits
  <2>3. CASE host = "web"
    <3>1. ~MayConfirm'
      BY <1>3, <1>14, <2>1, <2>3 DEF MayConfirm, pc
    <3>2. page.session # None => \E q \in Legs : legs'[q].T = page.session.T
      BY <1>7 DEF SessionFits
    <3>3. page'.session = page.session /\ host' # "app" /\ landed' = landed
      BY <1>1, <1>4, <2>3
    <3> QED
      BY <2>2, <2>3, <3>1, <3>2, <3>3 DEF SessionFits
  <2>4. CASE host = "app"
    <3>1. page'.session = None /\ \A q \in Legs : Live(q)' => legs'[q].pc = "connect"
      BY <1>3, <1>4, <1>6, <1>14, <2>4
    <3>2. \A q \in Legs : Live(q)' => legs'[q].pc \notin WithT
      BY <3>1 DEF WithT, Built, Requested, Signed, Dated, Receipted, Waited, Crossed, Sending
    <3> QED
      BY <2>1, <2>2, <3>1, <3>2 DEF SessionFits
  <2> QED
    BY <2>3, <2>4 DEF Shape
<1>16. FlagsFit'
  <2>1. \A q \in Legs : Live(q)' /\ Mounted(q)' => legs'[q].pc \notin Requested \cup {"submit"} \cup Crossed
    BY <1>3, <1>6, <1>14 DEF Requested, Signed, Dated, Receipted, Waited, Crossed, Sending
  <2>2. host = "app" => \A q \in Legs : Live(q)' => page'.stage = BuyStages[legs'[q].pc]
    BY <1>3, <1>4, <1>6, <1>14 DEF BuyStages
  <2> QED
    BY <1>1, <2>1, <2>2 DEF FlagsFit
<1>17. ShownFits'
  BY <1>4 DEF ShownFits, FailureClaimsAreTrue
<1> QED
  BY <1>1, <1>7, <1>8, <1>9, <1>10, <1>11, <1>12, <1>13, <1>15, <1>16, <1>17, LegsKeepInv, TsKept

\* The updated order is confirmed on a page whose attempt was shown to be rejected.
LEMMA ConfirmOrderInv ==
    ASSUME IInv, NEW p \in Legs, ConfirmOrder(p)
    PROVE  IInv'
<1> USE DEF IInv
<1>1. /\ NextLeg(p) /\ page.kind = "REVIEWING"
      /\ UNCHANGED <<clock, boot, mint, program, sent, landed, co, job, files, host>>
  BY ReadingKeeps DEF ConfirmOrder, ConfirmOffered
<1>2. /\ Confirmable /\ MayConfirm
      /\ \A q \in Legs : ~(Live(q) /\ Mounted(q)) /\ legs[q].pc # "adapter"
      /\ host = "app" => \A q \in Legs : ~Live(q)
  BY <1>1 DEF Confirmable, MayConfirm, MountsFit
<1>3. page.failure # None => page.failure.leg # p
  BY <1>1, ClickedLeg DEF ShownFits, Over
<1>4. /\ page.stale # None => page.stale # p
      /\ page.updated # None => page.updated # p
  BY <1>1, ClickedLeg DEF ShownFits
<1>5. CASE page.session # None /\ page.session.stale # None
  <2> DEFINE T == page.session.T
             base == page.session.stale
  <2>1. /\ legs' = [legs EXCEPT ![p] = NewLeg("REFRESHED", "build", T, base)]
        /\ page' = [page EXCEPT !.kind = "RUNNING", !.leg = p, !.failure = None,
                      !.stage = "TRANSACTION_BUILD",
                      !.walletRequested = FALSE, !.submitted = FALSE]
    BY <1>5 DEF ConfirmOrder
  <2>2. /\ DOMAIN page' = PageFields
        /\ page'.mount = page.mount /\ page'.kind = "RUNNING" /\ page'.leg = p
        /\ page'.stale = page.stale /\ page'.updated = page.updated /\ page'.failure = None
        /\ page'.session = page.session /\ page'.stage = "TRANSACTION_BUILD"
        /\ page'.walletRequested = FALSE /\ page'.submitted = FALSE
    BY <2>1 DEF PageShape, PageFields
  <2>3. /\ T # None /\ base \in Legs
        /\ landed[base] # None /\ landed[base].outcome = "ActivationPhaseChanged"
        /\ host = "app" => legs[base].T = T
        /\ \A r \in Legs : legs[r].kind = "REFRESHED" => legs[r].T # T
    BY <1>2, <1>5 DEF SessionFits
  <2>4. PICK r \in Legs : legs[r].T = T
    BY <1>5 DEF SessionFits
  <2> HIDE DEF T, base
  <2>5. T \in Nat /\ T <= clock + ActivationDelay
    BY <2>3, <2>4, TypedLeg DEF LegFits
  <2>6. base # p /\ r # p
    BY <1>1, <2>3, <2>4, ClickedLeg
  <2>7. /\ DOMAIN legs' = Legs
        /\ \A q \in Legs : q # p => legs'[q] = legs[q]
        /\ DOMAIN legs'[p] = LegFields /\ legs'[p].pc = "build"
        /\ legs'[p].kind = "REFRESHED" /\ legs'[p].mount = page.mount
        /\ legs'[p].T = T /\ legs'[p].base = base
        /\ legs'[p].asked = FALSE /\ legs'[p].signedAt = None
    BY <2>1 DEF NewLeg, LegShape, LegFields
  <2>8. LegsKeep
    BY <1>1, <2>7, ClickedLeg DEF LegsKeep, Shape
  <2>9. \A q \in Legs : q # p => LegFits(q)' /\ JobFits(q)'
    BY <1>1, <2>7, OtherLegs
  <2>10. LegFits(p)'
    BY <1>1, <2>3, <2>5, <2>7, ClickedLeg
       DEF LegFits, Live, Sending, Crossed, Waited, Receipted, Dated, Signed, Requested, Built,
           WithT, BeforeT, Over, Finished
  <2>11. JobFits(p)'
    BY <1>1, <2>7, ClickedLeg DEF JobFits, Arming, Simulating
  <2>12. \A q \in Legs : BaseFits(q)'
    <3>1. BaseFits(p)'
      BY <1>1, <2>3, <2>6, <2>7 DEF BaseFits
    <3>2. \A q \in Legs : q # p => BaseFits(q)'
      BY <2>7, <2>8, BaseKept
    <3> QED
      BY <3>1, <3>2
  <2>13. FreshT'
    <3>1. \A q \in Legs : Replied(q)' <=> Replied(q)
      BY <1>1, <2>7, ClickedLeg DEF Replied
    <3>2. \A q \in Legs : \E s \in Legs : legs'[q].T = legs[s].T
      BY <2>4, <2>7
    <3> QED
      BY <1>1, <3>1, <3>2 DEF FreshT
  <2>14. LegShape'
    <3>1. legs'[p].asked \in BOOLEAN
      BY <2>7, Zenon
    <3> QED
      BY <2>7, <3>1 DEF LegShape, WithT, PageShape
  <2>15. PageShape'
    <3>1. page'.walletRequested \in BOOLEAN /\ page'.submitted \in BOOLEAN
      BY <2>2, Zenon
    <3> QED
      BY <2>2, <3>1 DEF PageShape
  <2>16. MountsFit'
    BY <1>1, <1>2, <2>2, <2>7, ClickMounts
  <2>17. /\ \A q \in Legs : Live(q)' /\ Mounted(q)' => q = p
         /\ host = "app" => \A q \in Legs : Live(q)' => q = p
    BY <1>1, <1>2, <2>2, <2>7 DEF Live, Mounted
  <2>18. SessionFits'
    <3>1. ~Confirmable' /\ ~MayConfirm'
      BY <2>2, <2>7, <2>17 DEF Confirmable, MayConfirm
    <3>2. \E q \in Legs : legs'[q].T = page'.session.T
      BY <2>2, <2>7 DEF T
    <3>3. \A q, s \in Legs :
            (/\ legs'[q].kind = "REFRESHED" /\ legs'[s].kind = "REFRESHED"
             /\ legs'[q].T # None /\ legs'[q].T = legs'[s].T) => q = s
      BY <2>3, <2>7 DEF SessionFits
    <3>4. host = "app" => \A q \in Legs : Live(q)' => legs'[q].kind # "STALE"
      BY <2>7, <2>17
    <3>5. page'.session # None =>
            /\ DOMAIN page'.session = {"T", "stale"} /\ page'.session.T # None
            /\ page'.session.stale # None =>
                 /\ page'.session.stale \in Legs
                 /\ landed'[page'.session.stale] # None
                 /\ landed'[page'.session.stale].outcome = "ActivationPhaseChanged"
                 /\ host' = "app" => legs'[page'.session.stale].T = page'.session.T
      BY <1>1, <1>5, <2>2, <2>3, <2>6, <2>7 DEF SessionFits, T, base
    <3> QED
      BY <1>1, <3>1, <3>2, <3>3, <3>4, <3>5 DEF SessionFits
  <2>19. FlagsFit'
    <3>1. \A q \in Legs : Live(q)' /\ Mounted(q)' =>
            legs'[q].pc \notin Requested \cup {"submit"} \cup Crossed
      BY <2>7, <2>17 DEF Requested, Signed, Dated, Receipted, Waited, Crossed, Sending
    <3>2. host = "app" => \A q \in Legs : Live(q)' => page'.stage = BuyStages[legs'[q].pc]
      BY <2>2, <2>7, <2>17 DEF BuyStages
    <3> QED
      BY <1>1, <3>1, <3>2 DEF FlagsFit
  <2>20. ShownFits'
    BY <1>1, <1>4, <2>2, <2>7 DEF ShownFits, FailureClaimsAreTrue
  <2> QED
    BY <1>1, <2>8, <2>9, <2>10, <2>11, <2>12, <2>13, <2>14, <2>15, <2>16, <2>18, <2>19, <2>20,
       LegsKeepInv
<1>6. CASE ~(page.session # None /\ page.session.stale # None)
  <2> DEFINE failure == FailureOf(p, "REFRESHED", page, "other")
  <2>1. /\ legs' = [legs EXCEPT ![p] = NewLeg("REFRESHED", "failed", None, None)]
        /\ page' = [page EXCEPT !.kind = "FAILED", !.failure = failure]
    BY <1>6 DEF ConfirmOrder
  <2>2. failure.leg = p
    BY DEF FailureOf
  <2> HIDE DEF failure
  <2>3. /\ DOMAIN page' = PageFields
        /\ page'.mount = page.mount /\ page'.kind = "FAILED" /\ page'.leg = page.leg
        /\ page'.stale = page.stale /\ page'.updated = page.updated
        /\ page'.failure = failure
        /\ page'.session = page.session /\ page'.stage = page.stage
        /\ page'.walletRequested = page.walletRequested /\ page'.submitted = page.submitted
    BY <2>1 DEF PageShape, PageFields
  <2>4. /\ DOMAIN legs' = Legs
        /\ \A q \in Legs : q # p => legs'[q] = legs[q]
        /\ DOMAIN legs'[p] = LegFields /\ legs'[p].pc = "failed"
        /\ legs'[p].kind = "REFRESHED" /\ legs'[p].mount = page.mount
        /\ legs'[p].T = None
        /\ legs'[p].asked = FALSE /\ legs'[p].signedAt = None
    BY <2>1 DEF NewLeg, LegShape, LegFields
  <2>5. host = "web" /\ host' # "app"
    BY <1>1, <1>2, <1>6 DEF SessionFits, Shape
  <2>6. LegsKeep /\ \A q \in Legs : legs'[q].T = legs[q].T
    BY <1>1, <2>4, ClickedLeg DEF LegsKeep, Shape
  <2>7. \A q \in Legs : q # p => LegFits(q)' /\ JobFits(q)'
    BY <1>1, <2>4, OtherLegs
  <2>8. LegFits(p)'
    BY <1>1, <2>4, ClickedLeg
       DEF LegFits, Live, Sending, Crossed, Waited, Receipted, Dated, Signed, Requested, Built,
           WithT, BeforeT, Over, Finished
  <2>9. JobFits(p)'
    BY <1>1, <2>4, ClickedLeg DEF JobFits, Arming, Simulating
  <2>10. LegShape'
    <3>1. legs'[p].asked \in BOOLEAN
      BY <2>4, Zenon
    <3> QED
      BY <2>4, <3>1 DEF LegShape, Finished, PageShape
  <2>11. PageShape'
    BY <2>3 DEF PageShape
  <2>12. \A q \in Legs : ~(Live(q)' /\ Mounted(q)')
    BY <1>2, <2>3, <2>4 DEF Live, Mounted, Finished
  <2>13. MountsFit'
    <3>1. ~Live(p)'
      BY <2>4 DEF Live, Finished
    <3> QED
      BY <1>1, <1>2, <2>3, <2>4, <3>1, ClickMounts
  <2>14. SessionFits'
    <3>1. ~Confirmable' /\ ~MayConfirm'
      BY <2>3, <2>12 DEF Confirmable, MayConfirm
    <3>2. page.session # None => \E q \in Legs : legs'[q].T = page.session.T
      BY <2>6 DEF SessionFits
    <3>3. \A q, s \in Legs :
            (/\ legs'[q].kind = "REFRESHED" /\ legs'[s].kind = "REFRESHED"
             /\ legs'[q].T # None /\ legs'[q].T = legs'[s].T) => q = s
      BY <2>4 DEF SessionFits
    <3> QED
      BY <1>1, <2>3, <2>5, <3>1, <3>2, <3>3 DEF SessionFits
  <2>15. FlagsFit'
    BY <2>5, <2>12 DEF FlagsFit
  <2>16. ShownFits'
    <3>1. FailureClaimsAreTrue'
      <4>1. ~legs'[p].asked /\ sent'[p] = None
        BY <1>1, <2>4, ClickedLeg
      <4> QED
        BY <2>2, <2>3, <2>5, <4>1 DEF FailureClaimsAreTrue
    <3> QED
      BY <1>1, <1>4, <2>2, <2>3, <2>4, <3>1 DEF ShownFits, Over
  <2> QED
    BY <1>1, <2>6, <2>7, <2>8, <2>9, <2>10, <2>11, <2>13, <2>14, <2>15, <2>16, LegsKeepInv, TsKept
<1> QED
  BY <1>5, <1>6
-------------------------------------------------------------------------------
\* The invariant holds.

LEMMA InitInv == Init => IInv
<1> SUFFICES ASSUME Init PROVE IInv
  OBVIOUS
<1>1. /\ clock = 0 /\ boot = 1 /\ program = Reviewed /\ mint = LocalMint(ParkedT)
      /\ sent = [p \in Legs |-> None] /\ landed = [p \in Legs |-> None]
      /\ co = StartedCoordinator /\ job = [p \in Legs |-> Idle] /\ files = {}
      /\ host \in {"web", "app"} /\ page = LoadedPage(1)
  BY DEF Init, EnvironmentInit
<1>2. ASSUME NEW p \in Legs
      PROVE  /\ DOMAIN legs[p] = LegFields
             /\ legs[p].pc = "unused" /\ legs[p].kind = "STALE" /\ legs[p].mount = 0
             /\ legs[p].T = None /\ legs[p].asked = FALSE /\ legs[p].signedAt = None
             /\ sent[p] = None /\ landed[p] = None
             /\ DOMAIN job[p] = {"at", "arg"} /\ job[p].at = "idle"
  BY <1>1 DEF Init, LegFields, Idle
<1>3. DOMAIN legs = Legs /\ DOMAIN sent = Legs /\ DOMAIN landed = Legs /\ DOMAIN job = Legs
  BY <1>1 DEF Init
<1>4. /\ DOMAIN co = {"armed", "arming", "digest", "sims", "auths"}
      /\ co.armed = None /\ co.arming = FALSE /\ co.sims = <<>> /\ co.auths = {}
  BY <1>1 DEF StartedCoordinator
<1>5. /\ DOMAIN page = PageFields /\ page.mount = 1 /\ page.kind = "IDLE"
      /\ page.stale = None /\ page.updated = None /\ page.failure = None
      /\ page.session = None /\ page.walletRequested = FALSE /\ page.submitted = FALSE
  BY <1>1 DEF LoadedPage, PageFields
<1>6. Shape
  <2>1. mint.effectiveTimestamp \in Nat
    BY <1>1, Constants DEF LocalMint
  <2>2. co.arming \in BOOLEAN
    BY <1>4, Zenon
  <2>3. clock \in Nat /\ clock <= MaxClock /\ boot \in Nat
    BY <1>1, Constants
  <2> QED
    BY <1>1, <1>2, <1>3, <1>4, <2>1, <2>2, <2>3 DEF Shape
<1>7. LegShape
  <2>1. \A p \in Legs : legs[p].asked \in BOOLEAN
    BY <1>2, Zenon
  <2>2. \A p \in Legs :
          /\ DOMAIN legs[p] = LegFields
          /\ legs[p].pc \in Finished
          /\ legs[p].kind \in {"STALE", "REFRESHED"}
          /\ legs[p].mount \in Nat
    <3>1. "unused" \in Finished /\ 0 \in Nat
      BY DEF Finished
    <3> QED
      BY <1>2, <3>1
  <2> QED
    BY <1>3, <2>1, <2>2 DEF LegShape
<1>8. PageShape
  <2>1. page.walletRequested \in BOOLEAN /\ page.submitted \in BOOLEAN
    BY <1>5, Zenon
  <2> QED
    BY <1>5, <2>1 DEF PageShape
<1>9. \A p \in Legs : ~Live(p)
  BY <1>2 DEF Live, Finished
<1>10. \A p \in Legs : LegFits(p)
  BY <1>2, <1>9 DEF LegFits, Sending, Crossed, Waited, Receipted, Dated, Signed, Requested,
                    Built, WithT, BeforeT, Over, Finished
<1>11. \A p \in Legs : BaseFits(p) /\ SentFits(p) /\ LandedFits(p)
  BY <1>2 DEF BaseFits, SentFits, LandedFits
<1>12. \A p \in Legs : JobFits(p)
  BY <1>2 DEF JobFits, Arming, Simulating
<1>13. ArmFits /\ FreshT
  BY <1>2, <1>4 DEF ArmFits, FreshT, Arming, Replied
<1>14. SimsFit /\ AuthsFit /\ FilesFit
  <2>1. <<>> \in Seq(SimulationRecords) /\ DOMAIN co.sims = {}
    BY <1>4
  <2> QED
    BY <1>1, <1>4, <2>1 DEF SimsFit, AuthsFit, FilesFit
<1>15. ~Confirmable
  BY <1>5 DEF Confirmable
<1>16. MountsFit /\ FlagsFit
  BY <1>2, <1>9, <1>15 DEF MountsFit, FlagsFit
<1>17. SessionFits
  BY <1>2, <1>5, <1>9, <1>15 DEF SessionFits
<1>18. ShownFits
  BY <1>5 DEF ShownFits, FailureClaimsAreTrue
<1>19. MovesOnlyAsConfirmed
  BY <1>2 DEF MovesOnlyAsConfirmed
<1> QED
  BY <1>6, <1>7, <1>8, <1>10, <1>11, <1>12, <1>13, <1>14, <1>16, <1>17, <1>18, <1>19 DEF IInv

LEMMA EnvironmentInv == IInv /\ Environment => IInv'
<1> SUFFICES ASSUME IInv, Environment PROVE IInv'
  OBVIOUS
<1>1. UNCHANGED <<host, page, legs>>
  BY DEF Environment
<1>2. CASE Tick
  BY <1>1, <1>2, TickInv
<1>3. CASE ReplaceProgram
  BY <1>1, <1>3, ReplaceProgramInv
<1>4. CASE Restart
  BY <1>1, <1>4, RestartInv
<1>5. ASSUME NEW p \in Legs, Land(p)
      PROVE  IInv'
  BY <1>1, <1>5, LandInv
<1>6. ASSUME NEW p \in Legs, JobStep(p)
      PROVE  IInv'
  <2>1. CASE ArmRead(p)
    BY <1>1, <2>1, ArmReadInv
  <2>2. CASE ArmLand(p)
    BY <1>1, <2>2, ArmLandInv
  <2>3. CASE ArmVerify(p)
    BY <1>1, <2>3, ArmVerifyInv
  <2>4. CASE SimClock(p)
    BY <1>1, <2>4, SimClockInv
  <2>5. CASE SimRun(p)
    BY <1>1, <2>5, SimRunInv
  <2>6. CASE ReceiptClock(p)
    BY <1>1, <2>6, ReceiptClockInv
  <2>7. CASE AttestRead(p)
    BY <1>1, <2>7, AttestReadInv
  <2> QED
    BY <1>6, <2>1, <2>2, <2>3, <2>4, <2>5, <2>6, <2>7 DEF JobStep
<1>7. ASSUME NEW p \in Legs, JobFails(p)
      PROVE  IInv'
  BY <1>1, <1>7, JobFailsInv
<1> QED
  BY <1>2, <1>3, <1>4, <1>5, <1>6, <1>7 DEF Environment

LEMMA LegStepInv ==
    ASSUME IInv, NEW p \in Legs, LegStep(p)
    PROVE  IInv'
<1>1. CASE AdapterLoaded(p)
  BY <1>1, AdapterLoadedInv
<1>2. CASE FixtureLoaded(p)
  BY <1>2, FixtureLoadedInv
<1>3. CASE ArmRequested(p)
  BY <1>3, ArmRequestedInv
<1>4. CASE Armed(p)
  BY <1>4, ArmedInv
<1>5. CASE BuildSnapshot(p)
  BY <1>5, BuildSnapshotInv
<1>6. CASE Prepared(p)
  BY <1>6, PreparedInv
<1>7. CASE BeforeSimulation(p)
  BY <1>7, BeforeSimulationInv
<1>8. CASE PreSignRequested(p)
  BY <1>8, PreSignRequestedInv
<1>9. CASE PreSigned(p)
  BY <1>9, PreSignedInv
<1>10. CASE AtSimulation(p)
  BY <1>10, AtSimulationInv
<1>11. CASE DeploymentRequested(p)
  BY <1>11, DeploymentRequestedInv
<1>12. CASE DeploymentBeforeSigning(p)
  BY <1>12, DeploymentBeforeSigningInv
<1>13. CASE AtSigning(p)
  BY <1>13, AtSigningInv
<1>14. CASE ReceiptRequested(p)
  BY <1>14, ReceiptRequestedInv
<1>15. CASE ReceiptAnswered(p)
  BY <1>15, ReceiptAnsweredInv
<1>16. CASE WaitPoll(p)
  BY <1>16, WaitPollInv
<1>17. CASE LifetimeChecked(p)
  BY <1>17, LifetimeCheckedInv
<1>18. CASE DeploymentBeforeSubmission(p)
  BY <1>18, DeploymentBeforeSubmissionInv
<1>19. CASE SubmitSnapshot(p)
  BY <1>19, SubmitSnapshotInv
<1>20. CASE Send(p)
  BY <1>20, SendInv
<1>21. CASE Confirmed(p)
  BY <1>21, ConfirmedInv
<1>22. CASE StaleVerified(p)
  BY <1>22, StaleVerifiedInv
<1>23. CASE UpdatedVerified(p)
  BY <1>23, UpdatedVerifiedInv
<1> QED
  BY <1>1, <1>2, <1>3, <1>4, <1>5, <1>6, <1>7, <1>8, <1>9, <1>10, <1>11, <1>12, <1>13, <1>14,
     <1>15, <1>16, <1>17, <1>18, <1>19, <1>20, <1>21, <1>22, <1>23 DEF LegStep

LEMMA StutterInv == IInv /\ UNCHANGED vars => IInv'
<1> SUFFICES ASSUME IInv, UNCHANGED vars PROVE IInv'
  OBVIOUS
<1>1. UNCHANGED <<clock, boot, mint, program, sent, landed, co, job, files, host, page, legs>>
  BY DEF vars, environment
<1>2. PageShape' /\ MountsFit' /\ SessionFits' /\ FlagsFit' /\ ShownFits'
  BY <1>1, PageKept DEF IInv
<1> QED
  BY <1>1, <1>2, PageOnlyInv

LEMMA NextInv == IInv /\ [Next]_vars => IInv'
<1> SUFFICES ASSUME IInv, [Next]_vars PROVE IInv'
  OBVIOUS
<1>1. CASE Environment
  BY <1>1, EnvironmentInv
<1>2. ASSUME NEW p \in Legs, LegStep(p)
      PROVE  IInv'
  BY <1>2, LegStepInv
<1>3. ASSUME NEW p \in Legs, AwaitFails(p)
      PROVE  IInv'
  BY <1>3, AwaitFailsInv
<1>4. ASSUME NEW p \in Legs, Evidence(p)
      PROVE  IInv'
  BY <1>4, EvidenceInv
<1>5. ASSUME NEW p \in Legs, WalletConnects(p)
      PROVE  IInv'
  BY <1>5, WalletConnectsInv
<1>6. ASSUME NEW p \in Legs, WalletSigns(p)
      PROVE  IInv'
  BY <1>6, WalletSignsInv
<1>7. ASSUME NEW p \in Legs, Buy(p)
      PROVE  IInv'
  BY <1>7, BuyInv
<1>8. ASSUME NEW p \in Legs, ConfirmOrder(p)
      PROVE  IInv'
  BY <1>8, ConfirmOrderInv
<1>9. CASE Review
  BY <1>9, ReviewInv
<1>10. CASE StartOver
  BY <1>10, StartOverInv
<1>11. CASE Reload
  BY <1>11, ReloadInv
<1>12. CASE Remount
  BY <1>12, RemountInv
<1>13. CASE UNCHANGED vars
  BY <1>13, StutterInv
<1> QED
  BY <1>1, <1>2, <1>3, <1>4, <1>5, <1>6, <1>7, <1>8, <1>9, <1>10, <1>11, <1>12, <1>13 DEF Next

LEMMA IInvHolds == Spec => []IInv
BY InitInv, NextInv, PTL DEF Spec

LEMMA AttestationsFollow == IInv => AttestationsAreTrue
<1> SUFFICES ASSUME IInv PROVE AttestationsAreTrue
  OBVIOUS
<1>1. ASSUME NEW a \in co.auths
      PROVE  /\ co.sims[a.proof].leg = a.leg
             /\ legs[a.leg].signedAt # None
             /\ co.sims[a.proof].ran <= legs[a.leg].signedAt
             /\ legs[a.leg].signedAt <= a.clock
             /\ a.timing.clockRelation = "before" => legs[a.leg].signedAt < a.T
  <2>1. /\ a.proof \in DOMAIN co.sims /\ co.sims[a.proof].leg = a.leg
        /\ legs[a.leg].signedAt # None /\ legs[a.leg].signedAt <= a.clock
        /\ a.timing.clockRelation = ObservedRelation(a.clock, a.T)
    BY DEF IInv, AuthsFit
  <2>2. a.leg \in Legs /\ a.T \in Nat /\ a.clock \in Nat
    BY DEF IInv, AuthsFit, AuthorizationRecords
  <2>3. co.sims[a.proof].ran <= legs[a.leg].signedAt
    BY <2>1 DEF IInv, SimsFit
  <2>4. legs[a.leg].signedAt \in Nat
    BY <2>1, <2>2, TypedLeg DEF LegFits
  <2>5. a.timing.clockRelation = "before" => a.clock < a.T
    BY <2>1 DEF ObservedRelation
  <2> QED
    BY <2>1, <2>2, <2>3, <2>4, <2>5
<1> QED
  BY <1>1 DEF IInv, SimsFit, AuthsFit, AttestationsAreTrue

LEMMA ResultsFollow == IInv => ResultsAreReal
<1> SUFFICES ASSUME IInv PROVE ResultsAreReal
  OBVIOUS
<1>1. ASSUME page.stale # None
      PROVE  /\ landed[page.stale].outcome = "ActivationPhaseChanged"
             /\ legs[page.stale].signedAt < legs[page.stale].T
             /\ landed[page.stale].at > legs[page.stale].T
             /\ landed[page.stale].boot = boot => \E a \in co.auths : a.leg = page.stale
  <2>1. PICK p \in Legs : p = page.stale
    BY <1>1 DEF IInv, ShownFits
  <2>2. /\ legs[p].kind = "STALE" /\ landed[p] # None
        /\ landed[p].outcome = "ActivationPhaseChanged"
    BY <1>1, <2>1 DEF IInv, ShownFits
  <2>3. sent[p] # None /\ landed[p].boot = sent[p].boot /\ landed[p].at > legs[p].T
    BY <2>2 DEF IInv, LandedFits
  <2>4. legs[p].signedAt < legs[p].T /\ (sent[p].boot = boot => Authorized(p))
    BY <2>2, <2>3 DEF IInv, SentFits
  <2> QED
    BY <2>1, <2>2, <2>3, <2>4 DEF Authorized
<1> QED
  BY <1>1 DEF IInv, ShownFits, ResultsAreReal

LEMMA OthersFollow ==
    IInv => MovesOnlyAsConfirmed /\ FailureClaimsAreTrue /\ EvidenceIsBacked
BY DEF IInv, ShownFits, FilesFit, EvidenceIsBacked
-------------------------------------------------------------------------------
\* The trader's tokens move at most once per environment, and only by the wire of a
\* confirmed order after a stale wire that the guard rejected, for any number of
\* clicks, reloads, remounts and restarts of the environment.
THEOREM MovesAreConfirmed == Spec => []MovesOnlyAsConfirmed
BY IInvHolds, OthersFollow, PTL

\* What the coordinator records as simulated or signed before T happened before T,
\* and each receipt is of one proof, whatever handlers interleave with it.
THEOREM AttestationsHold == Spec => []AttestationsAreTrue
BY IInvHolds, AttestationsFollow, PTL

\* What the page shows as rejected was signed before T, executed after T and rejected
\* by the guard; what it shows as executed was.
THEOREM ShownIsReal == Spec => []ResultsAreReal
BY IInvHolds, ResultsFollow, PTL

\* What a failure says of the wallet and of the submission is true of the failed leg,
\* also when an answer was lost or an orphaned leg shares the adapter's flags.
THEOREM FailuresAreTrue == Spec => []FailureClaimsAreTrue
BY IInvHolds, OthersFollow, PTL

\* Evidence filed in the environment that executed the stale wire holds its receipt.
THEOREM FiledEvidenceIsBacked == Spec => []EvidenceIsBacked
BY IInvHolds, OthersFollow, PTL
===============================================================================
