------------------------------- MODULE Timeline -------------------------------
(***************************************************************************)
(* What the observation tools make of a capture file: decoding its lines    *)
(* (capture.ts), the change detector (events.ts) and the timeline with its   *)
(* evidence quality (timeline.ts).  All of it is a fold over the records of  *)
(* the file.                                                                 *)
(*                                                                           *)
(* A line is junk, or a poll with an optional wallclock, an optional block   *)
(* time and the accounts it read.  Times are seconds.  The slot, the symbol  *)
(* and the issuer follow the mint and are left out, and so is the final sort *)
(* of the entries, which is by line and only lays the output out.            *)
(***************************************************************************)
EXTENDS GuardCheck, FiniteSetsExt, SequencesExt

CONSTANTS Mints, Null

CaptureCadenceSecs == 30
CaptureGapThresholdSecs == 60
MaxGoodGapSecs == 90
MaxDegradedGapSecs == 300

(***************************************************************************)
(* capture.ts and chain-observation.ts                                       *)
(***************************************************************************)

\* observeMintAccount: the block time is the chain time the phase is taken at.
ObserveMintAccount(account, blockTime) ==
    IF account.code # "Ok" THEN [kind |-> "decode-error", code |-> account.code]
    ELSE [kind |-> "decoded", protectedState |-> account.state,
          paused |-> account.paused,
          hasScheduledChange |-> HasScheduledChange(account.state),
          phase |-> IF blockTime = Null THEN Null ELSE PhaseAt(account.state, blockTime)]

DecodeAccount(line, n, entry) ==
    [kind |-> "observation", lineNumber |-> n, mint |-> entry.mint,
     wallclock |-> line.wallclock, blockTime |-> line.blockTime,
     evidence |-> ObserveMintAccount(entry.account, line.blockTime)]

DecodeCaptureLine(line, n) ==
    IF line.kind = "junk" THEN <<[kind |-> "line-error", lineNumber |-> n]>>
    ELSE [i \in DOMAIN line.accounts |-> DecodeAccount(line, n, line.accounts[i])]

DecodeCapture(lines) ==
    FlattenSeq([n \in DOMAIN lines |-> DecodeCaptureLine(lines[n], n)])

(***************************************************************************)
(* events.ts: the streaming detector, keyed by mint                          *)
(***************************************************************************)

NewDetector == [lastDecoded |-> [m \in Mints |-> Null],
                lastErrorCode |-> [m \in Mints |-> Null]]

ChangeEvents(before, evidence) ==
    {e \in {"SCALED_UI_STATE_CHANGED", "ACTIVATION_PHASE_CHANGED", "PAUSE_STATE_CHANGED"} :
        CASE e = "SCALED_UI_STATE_CHANGED" -> before.protectedState # evidence.protectedState
          [] e = "ACTIVATION_PHASE_CHANGED" ->
               Null \notin {before.phase, evidence.phase} /\ before.phase # evidence.phase
          [] e = "PAUSE_STATE_CHANGED" -> before.paused # evidence.paused}

\* ObservationEventDetector.push: what it emits, and the detector afterwards.
DetectorEvents(d, record) ==
    IF record.kind = "line-error" THEN {"DECODE_ERROR"}
    ELSE LET m == record.mint  e == record.evidence
         IN  CASE e.kind = "decode-error" ->
                    IF d.lastErrorCode[m] = e.code THEN {} ELSE {"DECODE_ERROR"}
               [] e.kind = "decoded" ->
                    IF d.lastDecoded[m] = Null THEN {} ELSE ChangeEvents(d.lastDecoded[m], e)

\* Faulty variant: an error clears what was last decoded.
DetectorForgetsAtErrors(d, record) ==
    IF record.kind = "line-error" THEN d
    ELSE LET m == record.mint  e == record.evidence
         IN  IF e.kind = "decode-error"
             THEN [lastDecoded |-> [d.lastDecoded EXCEPT ![m] = Null],
                   lastErrorCode |-> [d.lastErrorCode EXCEPT ![m] = e.code]]
             ELSE [lastDecoded |-> [d.lastDecoded EXCEPT ![m] = e],
                   lastErrorCode |-> [d.lastErrorCode EXCEPT ![m] = Null]]

DetectorAfter(d, record) ==
    IF record.kind = "line-error" THEN d
    ELSE LET m == record.mint  e == record.evidence
         IN  IF e.kind = "decode-error"
             THEN [d EXCEPT !.lastErrorCode[m] = e.code]
             ELSE [lastDecoded |-> [d.lastDecoded EXCEPT ![m] = e],
                   lastErrorCode |-> [d.lastErrorCode EXCEPT ![m] = Null]]

(***************************************************************************)
(* timeline.ts: one track per mint                                           *)
(***************************************************************************)

NewTrack == [interval |-> Null, errors |-> Null, lastPoint |-> Null,
             lastDecoded |-> Null, polls |-> <<>>, decodeErrors |-> 0, gaps |-> 0]

\* stateFields: what an interval shows of the decoded evidence.  The decimals of a
\* mint never change and are left out.
StateFields(evidence) ==
    [protectedState |-> evidence.protectedState, paused |-> evidence.paused,
     phase |-> evidence.phase]

CloseInterval(track, m) ==
    IF track.interval = Null THEN {}
    ELSE {[entry |-> "STABLE_INTERVAL", mint |-> m, firstLine |-> track.interval.first,
           lastLine |-> track.interval.last, count |-> track.interval.count,
           state |-> track.interval.state]}

CloseErrors(track, m) ==
    IF track.errors = Null THEN {}
    ELSE {[entry |-> "DECODE_ERROR", mint |-> m, firstLine |-> track.errors.first,
           lastLine |-> track.errors.last, count |-> track.errors.count,
           code |-> track.errors.code]}

Extend(run, n) == [run EXCEPT !.last = n, !.count = @ + 1]

GapBefore(track, record) ==
    /\ record.wallclock # Null
    /\ track.lastPoint # Null
    /\ record.wallclock - track.lastPoint.wallclock >= CaptureGapThresholdSecs

\* A gap closes whatever is open; every record with a wallclock is a poll.
TrackPoll(track, record) ==
    LET gap   == GapBefore(track, record)
        point == [line |-> record.lineNumber, wallclock |-> record.wallclock]
    IN  IF record.wallclock = Null THEN track
        ELSE [track EXCEPT !.interval = IF gap THEN Null ELSE @,
                           !.errors = IF gap THEN Null ELSE @,
                           !.gaps = IF gap THEN @ + 1 ELSE @,
                           !.lastPoint = point,
                           !.polls = Append(@, point)]

\* The entry of a gap, with the runs it closes.
GapEntries(track, m, record) ==
    IF ~GapBefore(track, record) THEN {}
    ELSE CloseInterval(track, m) \cup CloseErrors(track, m)
         \cup {[entry |-> "CAPTURE_GAP", mint |-> m, firstLine |-> track.lastPoint.line,
                lastLine |-> record.lineNumber]}

\* A record that does not decode: it ends the open interval, and starts or
\* lengthens a run of one error code.
ErrorTrack(track, record) ==
    LET n == record.lineNumber  code == record.evidence.code
    IN  [track EXCEPT
            !.decodeErrors = @ + 1, !.interval = Null,
            !.errors = IF @ # Null /\ @.code = code THEN Extend(@, n)
                       ELSE [first |-> n, last |-> n, count |-> 1, code |-> code]]

ErrorEntries(track, m, record) ==
    CloseInterval(track, m) \cup
    (IF track.errors # Null /\ track.errors.code = record.evidence.code THEN {}
     ELSE CloseErrors(track, m))

\* A record that decodes: it ends an error run; a change ends the interval.
DecodedTrack(track, record, events) ==
    LET n       == record.lineNumber
        changed == events # {} /\ track.lastDecoded # Null
        open    == IF changed THEN Null ELSE track.interval
    IN  [track EXCEPT
            !.errors = Null, !.lastDecoded = StateFields(record.evidence),
            !.interval = IF open # Null THEN Extend(open, n)
                         ELSE [first |-> n, last |-> n, count |-> 1,
                               state |-> StateFields(record.evidence)]]

DecodedEntries(track, m, record, events) ==
    CloseErrors(track, m) \cup
    (IF events = {} \/ track.lastDecoded = Null THEN {}
     ELSE CloseInterval(track, m)
          \cup {[entry |-> "STATE_CHANGE", mint |-> m, firstLine |-> record.lineNumber,
                 lastLine |-> record.lineNumber, events |-> events,
                 previous |-> track.lastDecoded,
                 current |-> StateFields(record.evidence)]})

\* buildTimeline's loop body.
TimelineStep(acc, record) ==
    LET lines == IF record.kind = "observation" /\ record.wallclock # Null
                 THEN acc.allPollLines \cup {record.lineNumber} ELSE acc.allPollLines
    IN  IF record.kind = "line-error"
        THEN [acc EXCEPT !.lineErrors = @ + 1,
                         !.entries = @ \cup {[entry |-> "DECODE_ERROR", mint |-> Null,
                                              firstLine |-> record.lineNumber,
                                              lastLine |-> record.lineNumber, count |-> 1,
                                              code |-> "line-error"]}]
        ELSE IF record.mint \notin acc.symbols THEN [acc EXCEPT !.allPollLines = lines]
        ELSE LET m      == record.mint
                 events == DetectorEvents(acc.detector, record) \ {"DECODE_ERROR"}
                 polled == TrackPoll(acc.tracks[m], record)
                 isErr  == record.evidence.kind = "decode-error"
             IN  [acc EXCEPT
                    !.allPollLines = lines,
                    !.detector = DetectorAfter(@, record),
                    !.overallPolls = IF record.wallclock = Null
                                        \/ \E p \in Range(@) : p.line = record.lineNumber
                                     THEN @ ELSE Append(@, polled.lastPoint),
                    !.tracks[m] = IF isErr THEN ErrorTrack(polled, record)
                                  ELSE DecodedTrack(polled, record, events),
                    !.entries = @ \cup GapEntries(acc.tracks[m], m, record)
                                  \cup (IF isErr THEN ErrorEntries(polled, m, record)
                                        ELSE DecodedEntries(polled, m, record, events))]

GapCount(polls) ==
    Cardinality({i \in 2 .. Len(polls) :
        polls[i].wallclock - polls[i - 1].wallclock >= CaptureGapThresholdSecs})

LargestGap(polls) ==
    Max({0} \cup {polls[i].wallclock - polls[i - 1].wallclock : i \in 2 .. Len(polls)})

CoverageBps(polls) ==
    IF polls = <<>> THEN 0
    ELSE LET expected == (Last(polls).wallclock - Head(polls).wallclock) \div CaptureCadenceSecs + 1
         IN  Min({10000, (Len(polls) * 10000) \div expected})

\* Faulty variant: a good capture may have the holes of a degraded one.
QualityIgnoringHoles(polls, totalPolls, decodeErrors, gaps) ==
    [totalPolls |-> totalPolls, decodeErrors |-> decodeErrors, gaps |-> gaps,
     status |-> IF Len(polls) >= 2 /\ CoverageBps(polls) >= 9800 /\ decodeErrors = 0
                THEN "GOOD" ELSE "INSUFFICIENT"]

QualityMetrics(polls, totalPolls, decodeErrors, gaps) ==
    [totalPolls |-> totalPolls, decodeErrors |-> decodeErrors, gaps |-> gaps,
     status |->
        IF /\ Len(polls) >= 2
           /\ CoverageBps(polls) >= 9800
           /\ LargestGap(polls) <= MaxGoodGapSecs
           /\ decodeErrors = 0 THEN "GOOD"
        ELSE IF /\ Len(polls) >= 2
                /\ CoverageBps(polls) >= 9000
                /\ LargestGap(polls) <= MaxDegradedGapSecs THEN "DEGRADED"
        ELSE "INSUFFICIENT"]

\* What is still open is closed, and the evidence is rated.
TimelineResult(acc) ==
    LET total == Cardinality(acc.allPollLines)
        errs  == MapThenSumSet(LAMBDA m : acc.tracks[m].decodeErrors, Mints)
    IN  [entries |-> acc.entries \cup UNION {CloseInterval(acc.tracks[m], m)
                                             \cup CloseErrors(acc.tracks[m], m) : m \in Mints},
         bySymbol |-> [m \in Mints |-> LET t == acc.tracks[m] IN
                          QualityMetrics(t.polls, total, t.decodeErrors, t.gaps)],
         overall |-> QualityMetrics(acc.overallPolls, total, errs + acc.lineErrors,
                                    GapCount(acc.overallPolls))]

BuildTimeline(records, symbols) ==
    TimelineResult(FoldLeft(TimelineStep,
        [entries |-> {}, detector |-> NewDetector, lineErrors |-> 0,
         tracks |-> [m \in Mints |-> NewTrack], symbols |-> symbols,
         overallPolls |-> <<>>, allPollLines |-> {}], records))

\* detect-events.ts: every event of the detector, with the line it is about.
DetectEvents(records) ==
    FoldLeft(LAMBDA acc, r :
                [detector |-> DetectorAfter(acc.detector, r),
                 events |-> acc.events \cup {<<r.lineNumber, e>> :
                                             e \in DetectorEvents(acc.detector, r)}],
             [detector |-> NewDetector, events |-> {}], records).events

(***************************************************************************)
(* What a timeline should say, read off the records directly                 *)
(***************************************************************************)

\* The observations of a mint, and whether a hole lies just before one of them.
ObservationsOf(records, m) ==
    SelectSeq(records, LAMBDA r : r.kind = "observation" /\ r.mint = m)

HoleBefore(obs, i) ==
    LET earlier == {j \in 1 .. i - 1 : obs[j].wallclock # Null}
    IN  /\ obs[i].wallclock # Null
        /\ earlier # {}
        /\ obs[i].wallclock - obs[Max(earlier)].wallclock >= CaptureGapThresholdSecs

Shows(r) == IF r.evidence.kind = "decoded" THEN StateFields(r.evidence) ELSE r.evidence

\* i and j belong together: the same state or the same error all the way, and
\* no hole.
Together(obs, i, j) ==
    /\ \A k \in i .. j : Shows(obs[k]) = Shows(obs[i])
    /\ \A k \in i + 1 .. j : ~HoleBefore(obs, k)

\* The maximal runs of observations that belong together.
Runs(obs) ==
    {r \in (1 .. Len(obs)) \X (1 .. Len(obs)) :
        /\ r[1] <= r[2]
        /\ Together(obs, r[1], r[2])
        /\ r[1] = 1 \/ ~Together(obs, r[1] - 1, r[1])
        /\ r[2] = Len(obs) \/ ~Together(obs, r[2], r[2] + 1)}

Changed(obs, i) ==
    LET earlier == {j \in 1 .. i - 1 : obs[j].evidence.kind = "decoded"}
    IN  /\ obs[i].evidence.kind = "decoded"
        /\ earlier # {}
        /\ Shows(obs[Max(earlier)]) # Shows(obs[i])

\* The intervals and error runs of a mint are the maximal runs of its
\* observations, and its changes and gaps are all there and nothing else.
ExactFor(timeline, records, m) ==
    LET obs     == ObservationsOf(records, m)
        line(i) == obs[i].lineNumber
        mine    == {e \in timeline.entries : e.mint = m}
    IN  /\ {<<e.firstLine, e.lastLine, e.count>> :
               e \in {f \in mine : f.entry \in {"STABLE_INTERVAL", "DECODE_ERROR"}}}
             = {<<line(r[1]), line(r[2]), r[2] - r[1] + 1>> : r \in Runs(obs)}
        /\ {e.firstLine : e \in {f \in mine : f.entry = "STATE_CHANGE"}}
             = {line(i) : i \in {j \in DOMAIN obs : Changed(obs, j)}}
        /\ {e.lastLine : e \in {f \in mine : f.entry = "CAPTURE_GAP"}}
             = {line(i) : i \in {j \in DOMAIN obs : HoleBefore(obs, j)}}

KnownPhases(records) ==
    \A i \in DOMAIN records :
        records[i].kind = "observation" => records[i].blockTime # Null
===============================================================================
