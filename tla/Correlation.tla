----------------------------- MODULE Correlation ------------------------------
(***************************************************************************)
(* The issuer's API as the watcher saw it (xstocks-api.ts) and its            *)
(* correlation with the mint's capture (kox-correlation.ts): first-observed   *)
(* brackets, bounds on the lead of one source over the other, and the          *)
(* descriptive outcomes.                                                       *)
(*                                                                           *)
(* An API line is a response, a request error or a malformed record.          *)
(* Multipliers are opaque, 0 stands for "none"; f64Hex is injective, so the    *)
(* advertised multiplier is compared with the stored one as a value.           *)
(***************************************************************************)
EXTENDS Timeline

ApiCoverageMaxLagSecs == CaptureGapThresholdSecs

(***************************************************************************)
(* xstocks-api.ts                                                            *)
(***************************************************************************)

\* interpretActivationTime: the units of a number are told by its size; 0 and
\* null are "none", and differ in their raw value only.  What no rule recognises
\* throws.  Times are whole seconds here, milliseconds in the code.
Recognized(raw) == raw.as \in {"none", "unix-seconds", "unix-milliseconds", "iso-8601"}

InterpretActivationTime(raw) ==
    CASE raw.as = "none" -> Null
      [] raw.as = "unix-seconds" -> raw.value
      [] raw.as = "unix-milliseconds" -> raw.value \div 1000
      [] raw.as = "iso-8601" -> raw.value

DecodeXStocksApiLine(line, n) ==
    LET base == [lineNumber |-> n, wallclock |-> line.wallclock]
        failed(status, error) == [status |-> status, error |-> error] @@ base
    IN  CASE line.kind = "malformed" \/ line.wallclock = Null -> failed("malformed", "record")
          [] line.wallclock # Null /\ line.kind = "error" -> failed("request-error", line.error)
          [] line.wallclock # Null /\ line.kind = "response" ->
               IF \/ line.current \notin Multipliers
                  \/ line.new \notin Multipliers \cup {Null}
                  \/ ~Recognized(line.activation)
               THEN failed("malformed", "field")
               ELSE LET at == InterpretActivationTime(line.activation)
                    IN [status |-> "ok", current |-> line.current, new |-> line.new,
                        raw |-> line.activation, activation |-> at, reason |-> line.reason,
                        hasPendingUpdate |-> line.new # Null \/ at # Null] @@ base

DecodeApi(lines) == [n \in DOMAIN lines |-> DecodeXStocksApiLine(lines[n], n)]

Ok(api) == SelectSeq(api, LAMBDA o : o.status = "ok")

\* XStocksApiEventDetector.push on an observation, given the last good one and
\* the last error.
ApiEvents(lastOk, lastError, o) ==
    IF o.status # "ok"
    THEN IF lastError = <<o.status, o.error>> THEN {}
         ELSE {IF o.status = "request-error" THEN "API_REQUEST_ERROR" ELSE "API_MALFORMED_RECORD"}
    ELSE IF lastOk = Null THEN {}
    ELSE LET was == lastOk.hasPendingUpdate  is == o.hasPendingUpdate
             when(cond, e) == IF cond THEN {e} ELSE {}
         IN  when(lastOk.current # o.current, "API_CURRENT_MULTIPLIER_CHANGED")
             \cup when(~was /\ is, "API_PENDING_UPDATE_PUBLISHED")
             \cup when(was /\ ~is, "API_PENDING_UPDATE_CLEARED")
             \cup when(was /\ is /\ lastOk.new # o.new, "API_PENDING_UPDATE_CHANGED")
             \cup when(was /\ is /\ lastOk.raw # o.raw, "API_ACTIVATION_TIME_CHANGED")
             \cup when(lastOk.reason # o.reason /\ was = is, "API_REASON_CHANGED")

DetectApiEvents(api) ==
    FoldLeft(LAMBDA acc, o :
                [lastOk |-> IF o.status = "ok" THEN o ELSE acc.lastOk,
                 lastError |-> IF o.status = "ok" THEN Null ELSE <<o.status, o.error>>,
                 events |-> acc.events \cup {<<o.lineNumber, e>> :
                                             e \in ApiEvents(acc.lastOk, acc.lastError, o)}],
             [lastOk |-> Null, lastError |-> Null, events |-> {}], api).events

(***************************************************************************)
(* kox-correlation.ts                                                        *)
(***************************************************************************)

ApiKey(o) == IF o.status = "ok" THEN <<o.current, o.new, o.raw, o.reason>>
             ELSE <<o.status, o.error>>

\* apiIntervals: runs of one key, cut at holes.
ApiIntervals(api) ==
    LET flush(acc) == IF acc.open = Null THEN {} ELSE {acc.open}
        step(acc, o) ==
            LET gap  == /\ o.wallclock # Null /\ acc.lastAt # Null
                        /\ o.wallclock - acc.lastAt >= CaptureGapThresholdSecs
                open == IF gap THEN Null ELSE acc.open
                same == open # Null /\ open.key = ApiKey(o)
            IN  [open |-> IF same THEN Extend(open, o.lineNumber)
                          ELSE [first |-> o.lineNumber, last |-> o.lineNumber,
                                count |-> 1, key |-> ApiKey(o)],
                 lastAt |-> IF o.wallclock # Null THEN o.wallclock ELSE acc.lastAt,
                 done |-> acc.done \cup (IF same THEN {} ELSE flush(acc)),
                 gaps |-> acc.gaps \cup (IF gap THEN {o.lineNumber} ELSE {})]
        end == FoldLeft(step, [open |-> Null, lastAt |-> Null, done |-> {}, gaps |-> {}], api)
    IN  [intervals |-> end.done \cup flush(end), gaps |-> end.gaps]

DecodedChain(records, m) ==
    SelectSeq(records, LAMBDA r : /\ r.kind = "observation"
                                  /\ r.mint = m
                                  /\ r.evidence.kind = "decoded")

\* chainBoundary and apiBoundary: the first observation of a state, bracketed
\* by the observation before it.
Boundary(obs, i) ==
    IF i = 0 THEN Null
    ELSE IF obs[i].wallclock = Null THEN Null
    ELSE [first |-> obs[i].wallclock,
          before |-> IF i > 1 THEN obs[i - 1].wallclock ELSE Null]

\* Faulty variant: the order is read off the first observations alone.
DeltaBoundsOfFirstSeen(api, chain) ==
    [minExclusive |-> IF chain.before = Null THEN Null ELSE chain.before - api.first,
     maxInclusive |-> chain.first - (IF api.before = Null THEN 0 ELSE api.before),
     order |-> IF api.first <= chain.first THEN "API_BEFORE_CHAIN" ELSE "CHAIN_BEFORE_API"]

\* Bounds on (chain - api) from the brackets (a0, a1] and (c0, c1].
DeltaBounds(api, chain) ==
    [minExclusive |-> IF chain.before = Null THEN Null ELSE chain.before - api.first,
     maxInclusive |-> chain.first - (IF api.before = Null THEN 0 ELSE api.before),
     order |-> IF chain.before # Null /\ chain.before >= api.first THEN "API_BEFORE_CHAIN"
               ELSE IF api.before # Null /\ api.before >= chain.first THEN "CHAIN_BEFORE_API"
               ELSE "UNRESOLVED_WITHIN_POLLING"]

Pending(o) == o.evidence.hasScheduledChange /\ o.evidence.phase = "Pending"

\* The API side of correlateKOx: where a pending update was first seen, and
\* what it advertised.
ApiDerived(api) ==
    LET ok == Ok(api)
        i  == SelectInSeq(ok, LAMBDA o : o.hasPendingUpdate)
    IN  [pending |-> Boundary(ok, i),
         advertised |-> IF i = 0 THEN Null
                        ELSE IF ok[i].new = Null THEN Null
                        ELSE [new |-> ok[i].new, activation |-> ok[i].activation]]

\* The chain side of correlateKOx.
ChainDerived(chain) ==
    LET i == SelectInSeq(chain, Pending)
        before(k) == chain[k - 1].evidence
        steps == 2 .. Len(chain)
        first(at) == IF at = {} THEN 0 ELSE Min(at)
        j == first({k \in steps : /\ before(k).phase = "Pending"
                                  /\ chain[k].evidence.phase = "Activated"})
        l == first({k \in steps : before(k).protectedState.multiplier
                                    # chain[k].evidence.protectedState.multiplier})
    IN  [pending |-> Boundary(chain, i),
         pendingState |-> IF i = 0 THEN Null ELSE chain[i].evidence.protectedState,
         activation |-> Boundary(chain, j),
         bracket |-> IF Boundary(chain, j) = Null THEN Null
                     ELSE [lastPending |-> chain[j - 1].blockTime,
                           firstActivated |-> chain[j].blockTime],
         multiplierChange |-> Boundary(chain, l)]

\* How far the advertised activation may lie from the effective timestamp.
Resolution(bracket) ==
    IF bracket = Null THEN CaptureCadenceSecs
    ELSE IF Null \in {bracket.lastPending, bracket.firstActivated} THEN CaptureCadenceSecs
    ELSE bracket.firstActivated - bracket.lastPending

Outcomes(api, chain) ==
    LET a == ApiDerived(api)
        c == ChainDerived(chain)
        seenBy(t) == {i \in DOMAIN chain : chain[i].wallclock # Null /\ chain[i].wallclock <= t}
        when(cond, outcome) == IF cond THEN {outcome} ELSE {}
        compared == a.advertised # Null /\ c.pendingState # Null
        off == IF compared /\ a.advertised.activation # Null
               THEN a.advertised.activation - c.pendingState.effectiveTimestamp ELSE Null
        apiBy(t) == \E i \in DOMAIN api : /\ api[i].status = "ok" /\ api[i].hasPendingUpdate
                                          /\ api[i].wallclock <= t
        coveredBy(t) == \E i \in DOMAIN api : /\ api[i].wallclock # Null
                                              /\ api[i].wallclock <= t
                                              /\ t - api[i].wallclock <= ApiCoverageMaxLagSecs
    IN  when(a.pending = Null /\ {c.pending, c.activation, c.multiplierChange} = {Null},
             "NO_PENDING_UPDATE_OBSERVED")
        \cup (IF a.pending = Null THEN {}
              ELSE LET seen == seenBy(a.pending.first)
                   IN  when(seen # {} /\ ~Pending(chain[Max(seen)]),
                            "API_PENDING_CHAIN_NOT_YET_PENDING"))
        \cup (IF ~compared THEN {}
              ELSE {IF a.advertised.new = c.pendingState.newMultiplier /\ off = 0
                    THEN "API_AND_CHAIN_PENDING_AGREE" ELSE "API_AND_CHAIN_PENDING_CONFLICT"})
        \cup (IF c.pending = Null THEN {}
              ELSE IF apiBy(c.pending.first) THEN {}
              ELSE {IF coveredBy(c.pending.first)
                    THEN "CHAIN_PENDING_OBSERVED_BEFORE_API_PENDING"
                    ELSE "INSUFFICIENT_API_COVERAGE"})
        \cup (IF off = Null THEN {}
              ELSE {IF (IF off < 0 THEN -off ELSE off) <= Resolution(c.bracket)
                    THEN "API_ACTIVATION_MATCHES_CHAIN_WITHIN_RESOLUTION"
                    ELSE "API_ACTIVATION_DIFFERS_FROM_CHAIN"})

\* correlateKOx on the decoded API observations and the records of the capture.
CorrelateKOx(api, records, m) ==
    LET chain == DecodedChain(records, m)
        a     == ApiDerived(api).pending
        c     == ChainDerived(chain).pending
        polls == [i \in DOMAIN Ok(api) |-> [line |-> Ok(api)[i].lineNumber,
                                            wallclock |-> Ok(api)[i].wallclock]]
    IN  [outcomes |-> Outcomes(api, chain),
         apiPending |-> a, chainPending |-> c,
         apiPublicationLead |-> IF Null \in {a, c} THEN Null ELSE DeltaBounds(a, c),
         apiIntervals |-> ApiIntervals(api), apiEvents |-> DetectApiEvents(api),
         chainTimeline |-> BuildTimeline(SelectSeq(records,
                              LAMBDA r : r.kind = "line-error" \/ r.mint = m), {m}),
         apiQuality |-> QualityMetrics(polls,
                           Cardinality({i \in DOMAIN api : api[i].wallclock # Null}),
                           Len(api) - Len(polls), GapCount(polls))]

(***************************************************************************)
(* What the API intervals and events should be, read off the observations    *)
(***************************************************************************)

ApiTogether(api, i, j) ==
    /\ \A k \in i .. j : ApiKey(api[k]) = ApiKey(api[i])
    /\ \A k \in i + 1 .. j : ~HoleBefore(api, k)

\* What a good answer says: with nothing pending, the way it writes "no activation"
\* (null or 0) says nothing, though it is part of the key of an interval.
ApiSays(o) == <<o.current, o.reason, IF o.hasPendingUpdate THEN <<o.new, o.raw>> ELSE <<>> >>

\* The intervals are the maximal runs of one key, and a change of what the API says
\* between one good answer and the next, whatever failed between, is an event.
ApiExact(correlation, api) ==
    LET N  == DOMAIN api
        ok == Ok(api)
    IN  /\ {<<r.first, r.last, r.count>> : r \in correlation.apiIntervals.intervals}
             = {<<q[1], q[2], q[2] - q[1] + 1>> : q \in
                   {r \in N \X N :
                       /\ r[1] <= r[2] /\ ApiTogether(api, r[1], r[2])
                       /\ r[1] = 1 \/ ~ApiTogether(api, r[1] - 1, r[1])
                       /\ r[2] = Len(api) \/ ~ApiTogether(api, r[2], r[2] + 1)}}
        /\ correlation.apiIntervals.gaps = {i \in N : HoleBefore(api, i)}
        /\ \A i \in 2 .. Len(ok) :
               (\E e \in correlation.apiEvents : e[1] = ok[i].lineNumber)
                 <=> ApiSays(ok[i]) # ApiSays(ok[i - 1])
===============================================================================
