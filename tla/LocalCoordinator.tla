--------------------------- MODULE LocalCoordinator ----------------------------
(***************************************************************************)
(* The local proof environment of the Phantom demo: the validator with the   *)
(* captured mint, the guard program and one trader, and the coordinator      *)
(* (activation-server.ts, attestation.ts, deployment-attestation.ts) that    *)
(* arms the activation once, simulates every authorization before it is      *)
(* signed, dates the signed bytes by its own Clock and re-reads the program. *)
(*                                                                           *)
(* A leg is one Buy or Confirm of a page.  A leg's message is identified by  *)
(* the leg: every leg fetches a blockhash of its own.  The coordinator       *)
(* handles requests concurrently, so a request is a job that other jobs, the *)
(* Clock and a restart may interleave with at each of its awaits.            *)
(***************************************************************************)
EXTENDS GuardCheck, Sequences

CONSTANTS
    OldMultiplier,    \* the captured mint's multiplier
    NewMultiplier,    \* and the one it is scheduled to take
    ActivationDelay,  \* DEMO_ACTIVATION_DELAY_SECONDS
    BlockhashLife,    \* seconds a blockhash stays valid for
    MaxClock,         \* bound: the Clock
    MaxBoots,         \* bound: starts of the environment
    MaxLegs,          \* bound: legs
    None              \* null

ASSUME LocalCoordinatorConstants ==
    /\ {OldMultiplier, NewMultiplier} \subseteq Multipliers
    /\ OldMultiplier # NewMultiplier
    /\ {ActivationDelay, BlockhashLife, MaxClock, MaxLegs} \subseteq Nat
    /\ ActivationDelay > 0
    /\ 0 .. MaxClock + ActivationDelay + 1 \subseteq Timestamps
    /\ None \notin Nat
    /\ None \notin [T : 0 .. MaxClock + ActivationDelay, stale : 1 .. MaxLegs \cup {None}]

VARIABLES
    clock,    \* Clock::unix_timestamp of the validator
    boot,     \* starts of the environment: the genesis hash
    mint,     \* the protected state of the local mint
    program,  \* the deployed guard: its attestation digest
    moved,    \* trades executed since the boot: the trader's balances
    sent,     \* per leg: the wire the validator was given
    landed,   \* per leg: how and when its wire was executed
    co,       \* the coordinator's variables
    job,      \* per leg: its request to the coordinator, while it runs
    files     \* evidence files written

environment == <<clock, boot, mint, program, moved, sent, landed, co, job, files>>

Legs == 1 .. MaxLegs

Reviewed == "reviewed"   \* the digest of the reviewed deployment
Replaced == "replaced"   \* and of whatever else is at the program's address

ZeroWindow == [beforeSecs |-> 0, afterSecs |-> 0]

\* parkedT: a day after the measured Clock.
ParkedT == MaxClock + ActivationDelay + 1

\* deriveLocalMint: the captured mint with another authority and timestamp.
LocalMint(T) ==
    [multiplier |-> OldMultiplier, newMultiplier |-> NewMultiplier, effectiveTimestamp |-> T]

\* The coordinator's module-level variables at startup.
StartedCoordinator ==
    [armed |-> None, arming |-> FALSE, digest |-> Reviewed,
     sims |-> <<>>, auths |-> {}]

Idle == [at |-> "idle", arg |-> None]
Reply(value) == [at |-> "ok", arg |-> value]
Refusal == [at |-> "error", arg |-> None]

EnvironmentInit ==
    /\ clock = 0
    /\ boot = 1
    /\ mint = LocalMint(ParkedT)
    /\ program = Reviewed
    /\ moved = 0
    /\ sent = [p \in Legs |-> None]
    /\ landed = [p \in Legs |-> None]
    /\ co = StartedCoordinator
    /\ job = [p \in Legs |-> Idle]
    /\ files = {}
-------------------------------------------------------------------------------
\* The validator.

Request(wire) ==
    [expected |-> LocalMint(wire.T), expectedPhase |-> wire.phase, window |-> ZeroWindow]

BlockhashValid(wire) == wire.boot = boot /\ clock <= wire.built + BlockhashLife

\* What executing a wire now may lead to.  Only the reviewed program is the guard;
\* behind it the swap itself may fail.
Outcomes(wire) ==
    LET verdict == Check(Request(wire), mint, clock)
    IN  IF program # Reviewed THEN {"Ok", "ActivationPhaseChanged", "SwapFailed"}
        ELSE IF verdict = "Ok" THEN {"Ok", "SwapFailed"}
        ELSE {verdict}

Tick ==
    /\ clock < MaxClock
    /\ clock' = clock + 1
    /\ UNCHANGED <<boot, mint, program, moved, sent, landed, co, job, files>>

\* A wire is included while its blockhash is valid, at most once, or never.
Land(p) ==
    /\ sent[p] # None
    /\ landed[p] = None
    /\ BlockhashValid(sent[p])
    /\ \E outcome \in Outcomes(sent[p]) :
         /\ landed' = [landed EXCEPT ![p] =
                         [outcome |-> outcome, at |-> clock, boot |-> boot, program |-> program]]
         /\ moved' = IF outcome = "Ok" THEN moved + 1 ELSE moved
    /\ UNCHANGED <<clock, boot, mint, program, sent, co, job, files>>

\* Somebody deploys another program at the guard's address.
ReplaceProgram ==
    /\ program = Reviewed
    /\ program' = Replaced
    /\ UNCHANGED <<clock, boot, mint, moved, sent, landed, co, job, files>>

\* prepare-activation.ts and the startup of activation-server.ts: the old server and
\* validator are gone, the fixtures are loaded again and the deployment attested.  The
\* two validator starts are polled at half a second each, so the Clock has moved on.
Restart ==
    /\ boot < MaxBoots /\ clock < MaxClock
    /\ boot' = boot + 1
    /\ clock' = clock + 1
    /\ mint' = LocalMint(ParkedT)
    /\ program' = Reviewed
    /\ moved' = 0
    /\ co' = StartedCoordinator
    /\ job' = [p \in Legs |-> IF job[p].at \in {"idle", "ok"} THEN job[p] ELSE Refusal]
    /\ UNCHANGED <<sent, landed, files>>
-------------------------------------------------------------------------------
\* The endpoints, up to their first await.  Each refuses by answering 409.

Handle(p, next) == job' = [job EXCEPT ![p] = next]

\* Faulty variant: a second arm request waits for the first one.
ArmCallQueued(p) ==
    IF co.armed # None \/ co.arming
        THEN Handle(p, [at |-> "arm-queued", arg |-> None]) /\ UNCHANGED co
        ELSE Handle(p, [at |-> "arm-read", arg |-> None]) /\ co' = [co EXCEPT !.arming = TRUE]

\* POST /api/arm: nothing ever clears arming again.
ArmCall(p) ==
    IF co.armed # None \/ co.arming
        THEN Handle(p, Refusal) /\ UNCHANGED co
        ELSE Handle(p, [at |-> "arm-read", arg |-> None]) /\ co' = [co EXCEPT !.arming = TRUE]

\* decodeProtectedTradeWire: the grammar is the builder's own (TransactionGrammar),
\* which leaves the activation the payload names.
DecodesFor(wire, T) == wire.T = T

\* POST /api/pre-sign-simulation
PreSignCall(p, wire) ==
    /\ UNCHANGED co
    /\ Handle(p, IF co.armed # None /\ DecodesFor(wire, co.armed)
                     THEN [at |-> "sim-clock", arg |-> wire] ELSE Refusal)

\* recordSignedAuthorization before its await: the proof is known, names this
\* activation, is not attested yet, and simulated this very message.
Authorizes(proof, wire) ==
    /\ co.armed # None
    /\ proof \in DOMAIN co.sims
    /\ co.sims[proof].T = co.armed
    /\ \A a \in co.auths : a.proof # proof
    /\ DecodesFor(wire, co.armed)
    /\ co.sims[proof].leg = wire.leg

\* POST /api/signed-authorization
ReceiptCall(p, proof, wire) ==
    /\ UNCHANGED co
    /\ Handle(p, IF Authorizes(proof, wire)
                     THEN [at |-> "receipt-clock", arg |-> [proof |-> proof, wire |-> wire]]
                     ELSE Refusal)

\* POST /api/deployment-attestation
AttestCall(p) ==
    /\ UNCHANGED co
    /\ Handle(p, [at |-> "attest", arg |-> None])
-------------------------------------------------------------------------------
\* The handlers from one await to the next.

UnchangedByJobs == UNCHANGED <<clock, boot, program, moved, sent, landed, files>>

\* arm: T is fixed by the first read.
ArmRead(p) ==
    /\ job[p].at = "arm-read"
    /\ Handle(p, IF mint.effectiveTimestamp = ParkedT
                     THEN [at |-> "arm-send", arg |-> clock + ActivationDelay] ELSE Refusal)
    /\ UNCHANGED <<mint, co>>
    /\ UnchangedByJobs

\* The setup transaction lands.  Token-2022 UpdateMultiplier: a timestamp that has
\* passed takes effect at once.
ArmLand(p) ==
    /\ job[p].at = "arm-send"
    /\ mint' = LET T == job[p].arg IN
                 IF T <= clock THEN [LocalMint(T) EXCEPT !.multiplier = NewMultiplier]
                 ELSE LocalMint(T)
    /\ Handle(p, [job[p] EXCEPT !.at = "arm-verify"])
    /\ UNCHANGED co
    /\ UnchangedByJobs

\* The mint must hold the captured multipliers and T.  The reply is lost when
\* activation.json cannot be written; the coordinator is armed all the same.
ArmVerify(p) ==
    /\ job[p].at = "arm-verify"
    /\ IF mint = LocalMint(job[p].arg)
           THEN /\ co' = [co EXCEPT !.armed = job[p].arg]
                /\ \E reply \in {Reply(job[p].arg), Refusal} : Handle(p, reply)
           ELSE Handle(p, Refusal) /\ UNCHANGED co
    /\ UNCHANGED mint
    /\ UnchangedByJobs

\* Where a Clock reading sits, and where the signed payload's own phase requires it.
ObservedRelation(now, T) == IF now < T THEN "before" ELSE "at or after"
RequiredRelation(phase) == IF phase = "Pending" THEN "before" ELSE "at or after"

\* assertClockMatchesPhase
ClockMatchesPhase(now, T, phase) == ObservedRelation(now, T) = RequiredRelation(phase)

\* phaseTiming: what a record says about a reading that passed.
PhaseTiming(now, T, phase) ==
    [encodedPhase |-> phase, clockRelation |-> ObservedRelation(now, T)]

\* The records.  The Clock is read before the simulation runs; ran and program are
\* history: when it ran, and against which program.
PreSignSimulationRecord(wire, read) ==
    [leg |-> wire.leg, T |-> wire.T, timing |-> PhaseTiming(read, wire.T, wire.phase),
     ran |-> clock, program |-> program]

SignedAuthorizationRecord(proof, wire) ==
    [proof |-> proof, leg |-> wire.leg, T |-> wire.T, clock |-> clock,
     timing |-> PhaseTiming(clock, wire.T, wire.phase)]

SimClock(p) ==
    LET wire == job[p].arg
    IN  /\ job[p].at = "sim-clock"
        /\ Handle(p, IF ClockMatchesPhase(clock, wire.T, wire.phase)
                         THEN [at |-> "sim-run", arg |-> [wire |-> wire, read |-> clock]]
                         ELSE Refusal)
        /\ UNCHANGED <<mint, co>>
        /\ UnchangedByJobs

\* Faulty variant: a simulation counts whatever error it answers.
SimulationAnswers(wire) == BlockhashValid(wire)

\* The simulation has no error: the guard and the swap behind it both let it pass.
SimulationMaySucceed(wire) == BlockhashValid(wire) /\ "Ok" \in Outcomes(wire)

\* simulateTransaction and its record.
SimRun(p) ==
    LET wire == job[p].arg.wire
    IN  /\ job[p].at = "sim-run"
        /\ \/ /\ SimulationMaySucceed(wire)
              /\ co' = [co EXCEPT !.sims =
                          Append(@, PreSignSimulationRecord(wire, job[p].arg.read))]
              /\ Handle(p, Reply(Len(co.sims) + 1))
           \/ /\ Outcomes(wire) # {"Ok"} \/ ~BlockhashValid(wire)
              /\ Handle(p, Refusal) /\ UNCHANGED co
        /\ UNCHANGED mint
        /\ UnchangedByJobs

\* recordSignedAuthorization after its Clock read.
ReceiptClock(p) ==
    LET wire == job[p].arg.wire
    IN  /\ job[p].at = "receipt-clock"
        /\ IF ClockMatchesPhase(clock, wire.T, wire.phase)
               THEN /\ co' = [co EXCEPT !.auths = @ \cup
                                {SignedAuthorizationRecord(job[p].arg.proof, wire)}]
                    /\ Handle(p, Reply(wire.leg))
               ELSE Handle(p, Refusal) /\ UNCHANGED co
        /\ UNCHANGED mint
        /\ UnchangedByJobs

\* reattestGuardDeployment: the program is the one attested at startup.  The list
\* of successful re-attestations is a log and left out.
DeploymentUnchanged == program = co.digest

AttestRead(p) ==
    /\ job[p].at = "attest"
    /\ Handle(p, IF DeploymentUnchanged THEN Reply(program) ELSE Refusal)
    /\ UNCHANGED <<mint, co>>
    /\ UnchangedByJobs

\* An RPC call of a handler fails.  An arm that failed stays arming.
JobFails(p) ==
    /\ job[p].at \notin {"idle", "ok", "error"}
    /\ Handle(p, Refusal)
    /\ UNCHANGED <<mint, co>>
    /\ UnchangedByJobs

JobStep(p) ==
    \/ ArmRead(p) \/ ArmLand(p) \/ ArmVerify(p)
    \/ SimClock(p) \/ SimRun(p) \/ ReceiptClock(p) \/ AttestRead(p)

\* POST /api/evidence: the page's proofs beside the coordinator's records of the
\* moment and the validator's own metadata.
RecordEvidence(stale, refreshed) ==
    /\ files' = files \cup {[stale |-> stale, refreshed |-> refreshed, boot |-> boot,
                             armed |-> co.armed, auths |-> {a.leg : a \in co.auths}]}
    /\ UNCHANGED <<clock, boot, mint, program, moved, sent, landed, co, job>>
===============================================================================
