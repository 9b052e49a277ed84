---------------------------- MODULE CaptureTools ------------------------------
(***************************************************************************)
(* The observation tools at work on files that are still being written: a     *)
(* recorder and an API watcher append to their captures while snapshots are   *)
(* sealed, windows extracted and sealed inputs analysed (capture-isolation.ts,*)
(* snapshot-capture.ts, extract-window.ts, correlate-kox.ts, timeline.ts).    *)
(* Every await is a step boundary, and a tool may be killed at any of them.   *)
(*                                                                           *)
(* The recorder and the watcher are not part of the repository: they append   *)
(* whole lines.  The mint and the API change as they like; what they really   *)
(* were is kept in histories that only the properties read.  A digest is      *)
(* injective, so a manifest holds the lines it was made of.                   *)
(***************************************************************************)
EXTENDS Correlation

CONSTANTS
    Tracked,       \* the mint that changes; the others keep their first state
    MintOrder,     \* the mints in the order the recorder polls them
    FirstMint,     \* the first state of every mint: state, paused
    MintStates,    \* the states the tracked mint may be rewritten to
    FirstApi,      \* what the API first shows
    ApiStates,     \* what the API may come to show
    ErrorCodes,    \* why an account may not decode
    Spans,         \* the windows that may be extracted: <<start, end>>
    Tools,         \* tool processes
    Budgets        \* bounds on what a behaviour may contain, and on the
                   \* seconds between two polls

ASSUME CaptureConstants ==
    /\ Spans \subseteq Int \X Int
    /\ Budgets \subseteq [steps : SUBSET Nat, polls : Nat, apiPolls : Nat, mintUpdates : Nat,
                           apiUpdates : Nat, faults : Nat, tools : Nat, crashes : Nat,
                           quiet : Nat]

\* assertSafeCaptureInput: MIN_INPUT_QUIET_SECS.
MinInputQuietSecs == 90

VARIABLES
    now,         \* wall time; the chain's clock is the same
    held,        \* history of the tracked mint: from, account
    published,   \* history of the API: from, response
    files,       \* path -> lines, mtime
    manifests,   \* path -> the sidecar of a sealed copy
    tools,       \* the tool processes
    reports,     \* what tools reported: snapshots and analyses
    budget       \* what is left of the bounds

captureVars == <<now, held, published, files, manifests, tools, reports, budget>>

world == <<now, held, published>>

Path(name, of, at) == [name |-> name, of |-> of, at |-> at]
Live == Path("live", "chain", 0)
Capture == Path("backup", "chain", 0)
ApiCapture == Path("watcher", "api", 0)
Window == Path("window", "chain", 0)

\* EQUITYGUARD_PROTECTED_CAPTURE_PATHS names the live capture.
ProtectedPaths == {Live}

Idle == [pc |-> "idle"]

CaptureInit ==
    /\ now = 0
    /\ held = <<[from |-> 0, account |-> FirstMint]>>
    /\ published = <<[from |-> 0, response |-> FirstApi]>>
    /\ files = [p \in {Capture, ApiCapture, Live} |-> [lines |-> <<>>, mtime |-> 0]]
    /\ manifests = [p \in {} |-> Null]
    /\ tools = [t \in Tools |-> Idle]
    /\ reports = {}
    /\ budget \in Budgets

Spend(what) ==
    /\ budget[what] > 0
    /\ budget' = [budget EXCEPT ![what] = @ - 1]

(***************************************************************************)
(* The world                                                                 *)
(***************************************************************************)

AppendTo(paths, line, at) ==
    files' = [p \in DOMAIN files |->
                 IF p \in paths THEN [lines |-> Append(files[p].lines, line), mtime |-> at]
                 ELSE files[p]]

AccountOf(m) == IF m = Tracked THEN Last(held).account ELSE FirstMint

PollLine(at, bad, code) ==
    [kind |-> "poll", wallclock |-> at, blockTime |-> at,
     accounts |-> [i \in DOMAIN MintOrder |->
         [mint |-> MintOrder[i],
          account |-> IF MintOrder[i] = bad THEN [AccountOf(bad) EXCEPT !.code = code]
                      ELSE AccountOf(MintOrder[i])]]]

\* One poll of the recorder, to the live file and to its backup.
Poll ==
    \E d \in budget.steps :
        /\ Spend("polls")
        /\ AppendTo({Capture, Live}, PollLine(now + d, Null, Null), now + d)
        /\ now' = now + d
        /\ UNCHANGED <<held, published, manifests, tools, reports>>

\* What a poll that goes wrong writes: an account does not decode, the line is
\* junk, or its wallclock or block time is missing.
UndecodedLines(at) == {PollLine(at, m, c) : m \in Mints, c \in ErrorCodes}

BrokenLines(at) ==
    LET good == PollLine(at, Null, Null)
    IN  {[kind |-> "junk"], [good EXCEPT !.wallclock = Null], [good EXCEPT !.blockTime = Null]}

FaultyPoll ==
    \E d \in budget.steps :
        \E line \in UndecodedLines(now + d) \cup BrokenLines(now + d) :
            /\ budget.polls > 0 /\ budget.faults > 0
            /\ budget' = [budget EXCEPT !.polls = @ - 1, !.faults = @ - 1]
            /\ AppendTo({Capture, Live}, line, now + d)
            /\ now' = now + d
            /\ UNCHANGED <<held, published, manifests, tools, reports>>

ApiPoll ==
    \E d \in budget.steps :
        /\ Spend("apiPolls")
        /\ AppendTo({ApiCapture}, [wallclock |-> now + d, kind |-> "response"]
                                  @@ Last(published).response, now + d)
        /\ now' = now + d
        /\ UNCHANGED <<held, published, manifests, tools, reports>>

FaultyApiPoll ==
    \E d \in budget.steps : \E line \in {[kind |-> "error", wallclock |-> now + d, error |-> "timeout"],
                              [kind |-> "malformed", wallclock |-> Null],
                              [kind |-> "response", wallclock |-> now + d, activation |->
                                  [as |-> "unrecognized", value |-> 0]] @@ FirstApi} :
        /\ budget.apiPolls > 0 /\ budget.faults > 0
        /\ budget' = [budget EXCEPT !.apiPolls = @ - 1, !.faults = @ - 1]
        /\ AppendTo({ApiCapture}, line, now + d)
        /\ now' = now + d
        /\ UNCHANGED <<held, published, manifests, tools, reports>>

\* The issuer rewrites the mint, or the API shows something else.
MintUpdate ==
    \E a \in MintStates \ {Last(held).account} :
        /\ Spend("mintUpdates")
        /\ now' = now + 1
        /\ held' = Append(held, [from |-> now + 1, account |-> a])
        /\ UNCHANGED <<published, files, manifests, tools, reports>>

ApiUpdate ==
    \E r \in ApiStates \ {Last(published).response} :
        /\ Spend("apiUpdates")
        /\ now' = now + 1
        /\ published' = Append(published, [from |-> now + 1, response |-> r])
        /\ UNCHANGED <<held, files, manifests, tools, reports>>

\* Nothing happens for longer than an input must be quiet.
Quiet ==
    /\ Spend("quiet")
    /\ now' = now + MinInputQuietSecs + 1
    /\ UNCHANGED <<held, published, files, manifests, tools, reports>>

(***************************************************************************)
(* capture-isolation.ts                                                      *)
(***************************************************************************)

AssertNotProtected(p) == p \notin ProtectedPaths

\* verifiedManifest: the sidecar is there and still describes the bytes.
VerifiedManifest(p) ==
    p \in DOMAIN manifests /\ manifests[p].sha256 = files[p].lines

AssertSafeCaptureInput(p) ==
    /\ AssertNotProtected(p)
    /\ now - files[p].mtime >= MinInputQuietSecs \/ VerifiedManifest(p)

AssertSafeOutput(out, in) == out # in /\ out \notin ProtectedPaths

Stays(t, next) == tools' = [tools EXCEPT ![t] = next]

\* A new file at path p.
Created(dir, p, file) ==
    [q \in DOMAIN dir \cup {p} |-> IF q = p THEN file ELSE dir[q]]

Removed(dir, p) == [q \in DOMAIN dir \ {p} |-> dir[q]]

\* A tool that has what it will write: writeSealedCopy is given path, bytes and manifest.
Copying(path, manifest) ==
    [pc |-> "copy", path |-> path, bytes |-> manifest.sha256, manifest |-> manifest]

\* writeSealedCopy, first file: "wx" fails when the path exists.
WriteCopy(t) ==
    LET me == tools[t] IN
    /\ me.pc = "copy"
    /\ IF me.path \in DOMAIN files
       THEN Stays(t, Idle) /\ UNCHANGED files
       ELSE /\ files' = Created(files, me.path, [lines |-> me.bytes, mtime |-> now])
            /\ Stays(t, [me EXCEPT !.pc = "sidecar"])
    /\ UNCHANGED <<world, manifests, reports, budget>>

\* The sidecar, then both are made read-only.
WriteSidecar(t) ==
    LET me == tools[t] IN
    /\ me.pc = "sidecar"
    /\ IF me.path \in DOMAIN manifests
       THEN Stays(t, Idle) /\ UNCHANGED manifests
       ELSE /\ manifests' = Created(manifests, me.path, me.manifest)
            /\ Stays(t, IF me.manifest.kind = "snapshot" THEN [me EXCEPT !.pc = "verify"]
                        ELSE Idle)
    /\ UNCHANGED <<world, files, reports, budget>>

(***************************************************************************)
(* snapshot-capture.ts: sealSnapshot                                         *)
(***************************************************************************)

SnapshotStat(t, source) ==
    /\ tools[t].pc = "idle"
    /\ AssertNotProtected(source)
    /\ Spend("tools")
    /\ Stays(t, [pc |-> "snapshotRead", source |-> source, mtime |-> files[source].mtime])
    /\ UNCHANGED <<world, files, manifests, reports>>

SnapshotRead(t) ==
    LET me == tools[t] IN
    /\ me.pc = "snapshotRead"
    /\ Stays(t, [pc |-> "snapshotName",
                 manifest |-> [kind |-> "snapshot", source |-> me.source,
                               sha256 |-> files[me.source].lines, sourceMtime |-> me.mtime]])
    /\ UNCHANGED <<world, files, manifests, reports, budget>>

\* The clock names the copy, once its directory is there: to the second, so two
\* copies can have one name.
SnapshotName(t) ==
    LET me == tools[t] IN
    /\ me.pc = "snapshotName"
    /\ Stays(t, Copying(Path("snapshot", me.manifest.source.of, now), me.manifest))
    /\ UNCHANGED <<world, files, manifests, reports, budget>>

Reported(me) ==
    [what |-> "snapshot", path |-> me.path, lines |-> me.bytes,
     source |-> files[me.manifest.source].lines]

\* Faulty variant: what was copied is reported without looking again.
SnapshotReport(t) ==
    LET me == tools[t] IN
    /\ me.pc = "verify"
    /\ reports' = reports \cup {Reported(me)}
    /\ Stays(t, Idle)
    /\ UNCHANGED <<world, files, manifests, budget>>

\* The source is looked at again; a copy of a file that changed is withdrawn.
SnapshotVerify(t) ==
    LET me == tools[t]  source == files[me.manifest.source] IN
    /\ me.pc = "verify"
    /\ IF source.lines = me.bytes /\ source.mtime = me.manifest.sourceMtime
       THEN /\ reports' = reports \cup {Reported(me)}
            /\ Stays(t, Idle)
            /\ UNCHANGED files
       ELSE /\ files' = Removed(files, me.path)
            /\ Stays(t, [me EXCEPT !.pc = "withdraw"])
            /\ UNCHANGED reports
    /\ UNCHANGED <<world, manifests, budget>>

WithdrawSidecar(t) ==
    /\ tools[t].pc = "withdraw"
    /\ manifests' = Removed(manifests, tools[t].path)
    /\ Stays(t, Idle)
    /\ UNCHANGED <<world, files, reports, budget>>

(***************************************************************************)
(* extract-window.ts                                                         *)
(***************************************************************************)

Placeable(line) == line.kind # "junk" /\ line.wallclock # Null

InWindow(line, span) ==
    Placeable(line) /\ span[1] <= line.wallclock /\ line.wallclock < span[2]

\* The loop over the lines of the input.
WindowLines(lines, span) ==
    LET selected[n \in 0 .. Len(lines)] ==
            IF n = 0 THEN <<>>
            ELSE IF InWindow(lines[n], span) THEN Append(selected[n - 1], lines[n])
            ELSE selected[n - 1]
    IN  selected[Len(lines)]

\* The exact lines of the window, the holes between them and the lines that
\* have no place in time.
WindowManifest(lines, source, span) ==
    LET selected == WindowLines(lines, span)
    IN  [kind |-> "window", source |-> source, sha256 |-> selected,
         sourceLines |-> lines, span |-> span,
         gaps |-> GapCount([i \in DOMAIN selected |-> [wallclock |-> selected[i].wallclock]]),
         unplaceable |-> Len(SelectSeq(lines, LAMBDA l : ~Placeable(l)))]

WindowCheck(t, source, span) ==
    /\ tools[t].pc = "idle"
    /\ AssertSafeCaptureInput(source)
    /\ AssertSafeOutput(Window, source)
    /\ Spend("tools")
    /\ Stays(t, [pc |-> "windowRead", source |-> source, span |-> span])
    /\ UNCHANGED <<world, files, manifests, reports>>

\* The input may have been withdrawn since it was checked.
WindowRead(t) ==
    LET me == tools[t] IN
    /\ me.pc = "windowRead"
    /\ Stays(t, IF me.source \notin DOMAIN files THEN Idle
                ELSE Copying(Window,
                             WindowManifest(files[me.source].lines, me.source, me.span)))
    /\ UNCHANGED <<world, files, manifests, reports, budget>>

(***************************************************************************)
(* timeline.ts, detect-events.ts, correlate-kox.ts: an input is checked,      *)
(* read line by line, and read again for the digest in the summary.           *)
(***************************************************************************)

ChainFiles == {p \in DOMAIN files : p.of = "chain"}

\* A file that its own tool has told the user about: a snapshot that passed the
\* second look, or a window.
Finished(p) ==
    p = Window \/ \E r \in reports : r.what = "snapshot" /\ r.path = p

\* final is history: the input was sealed and finished when it was checked.
AnalyseCheck(t, source) ==
    /\ tools[t].pc = "idle"
    /\ AssertSafeCaptureInput(source)
    /\ Spend("tools")
    /\ Stays(t, [pc |-> "analyseRead", source |-> source,
                 final |-> VerifiedManifest(source) /\ Finished(source)])
    /\ UNCHANGED <<world, files, manifests, reports>>

AnalyseRead(t) ==
    LET me == tools[t] IN
    /\ me.pc = "analyseRead"
    /\ Stays(t, IF me.source \notin DOMAIN files THEN Idle
                ELSE [pc |-> "analyseHash", source |-> me.source, final |-> me.final,
                      bytes |-> files[me.source].lines])
    /\ UNCHANGED <<world, files, manifests, reports, budget>>

AnalyseHash(t) ==
    LET me == tools[t] IN
    /\ me.pc = "analyseHash"
    /\ reports' = IF me.source \notin DOMAIN files THEN reports
                  ELSE reports \cup {[what |-> "analysis", final |-> me.final,
                                      lines |-> me.bytes, sha256 |-> files[me.source].lines]}
    /\ Stays(t, Idle)
    /\ UNCHANGED <<world, files, manifests, budget>>

\* A tool is killed.  A copy it was writing may be left cut short.
Crash(t) ==
    LET me == tools[t] IN
    /\ me.pc # "idle"
    /\ Spend("crashes")
    /\ Stays(t, Idle)
    /\ \/ UNCHANGED files
       \/ /\ me.pc = "copy"
          /\ me.path \notin DOMAIN files
          /\ \E k \in 0 .. Len(me.bytes) :
                files' = Created(files, me.path, [lines |-> SubSeq(me.bytes, 1, k), mtime |-> now])
    /\ UNCHANGED <<world, manifests, reports>>

CaptureNext ==
    \/ Poll \/ FaultyPoll \/ ApiPoll \/ FaultyApiPoll \/ MintUpdate \/ ApiUpdate \/ Quiet
    \/ \E t \in Tools :
          \/ \E p \in {Live, Capture, ApiCapture} : SnapshotStat(t, p)
          \/ \E p \in ChainFiles : AnalyseCheck(t, p) \/ \E s \in Spans : WindowCheck(t, p, s)
          \/ SnapshotRead(t) \/ SnapshotName(t) \/ WriteCopy(t) \/ WriteSidecar(t) \/ SnapshotVerify(t)
          \/ WithdrawSidecar(t) \/ WindowRead(t) \/ AnalyseRead(t) \/ AnalyseHash(t)
          \/ Crash(t)

CaptureSpec == CaptureInit /\ [][CaptureNext]_captureVars

(***************************************************************************)
(* What really happened                                                      *)
(***************************************************************************)

At(history, t) == Last(SelectSeq(history, LAMBDA h : h.from <= t))

MintPendingAt(t) ==
    LET s == At(held, t).account.state
    IN  HasScheduledChange(s) /\ PhaseAt(s, t) = "Pending"

ApiPendingAt(t) ==
    LET r == At(published, t).response
    IN  r.new # Null \/ r.activation.as # "none"

\* When the pending span that covers t began.
PendingSince(history, Holds(_), t) ==
    Min({s \in {history[i].from : i \in DOMAIN history} :
            s <= t /\ \A u \in s .. t : Holds(u)})

(***************************************************************************)
(* Properties                                                                *)
(***************************************************************************)

Inputs == {files[p].lines : p \in ChainFiles \ {Live}}

\* The timeline of whatever a tool may be given, the growing capture, a sealed
\* copy, a window of it or a copy cut short, is exact for every mint: its
\* stable intervals and error runs are the maximal runs of equal observations
\* that no hole interrupts, every change between one decoded observation and
\* the next is an entry whatever failed or was missed between them, and every
\* hole of 60 s is a gap.  The detector alone reports the same changes.  The
\* same holds of the API's intervals and events.  Captures in which a poll has
\* no block time are left out: there a phase is unknown and the claim is false.
\* The gaps that the manifest of a window counts are those its timeline reports.
TimelineIsExact ==
    /\ \A lines \in Inputs :
        LET records  == DecodeCapture(lines)
            timeline == BuildTimeline(records, Mints)
        IN  KnownPhases(records) =>
              /\ \A m \in Mints : ExactFor(timeline, records, m)
              /\ {e[1] : e \in {f \in DetectEvents(records) : f[2] # "DECODE_ERROR"}}
                   = {e.firstLine : e \in {f \in timeline.entries : f.entry = "STATE_CHANGE"}}
    /\ LET api == DecodeApi(files[ApiCapture].lines)
       IN  ApiExact(CorrelateKOx(api, <<>>, Tracked), api)
    /\ \A p \in DOMAIN manifests : manifests[p].kind = "window" =>
         LET seen == ObservationsOf(DecodeCapture(manifests[p].sha256), Tracked)
         IN  manifests[p].gaps = Cardinality({i \in DOMAIN seen : HoleBefore(seen, i)})

\* Evidence that is called GOOD misses nothing that lasts: a state the mint
\* was in for more than 90 s between the first and the last poll of a GOOD
\* capture is the state of a stable interval of its timeline.
GoodEvidenceMissesNothing ==
    LET records  == DecodeCapture(files[Capture].lines)
        timeline == BuildTimeline(records, Mints)
        times    == {records[i].wallclock : i \in
                        {j \in DOMAIN records : records[j].kind = "observation"}} \ {Null}
    IN  timeline.bySymbol[Tracked].status = "GOOD" =>
            \A i \in DOMAIN held :
                LET from == Max({held[i].from, Min(times)})
                    to   == Min({IF i = Len(held) THEN now ELSE held[i + 1].from - 1,
                                 Max(times)})
                IN  to - from > MaxGoodGapSecs =>
                      \E e \in timeline.entries :
                          /\ e.entry = "STABLE_INTERVAL"
                          /\ e.mint = Tracked
                          /\ e.state.protectedState = held[i].account.state
                          /\ e.state.paused = held[i].account.paused

\* What the correlation says of the two sources is true of them: the lead of
\* the API over the mint lies within the reported bounds, an order is claimed
\* only when it was so, and the API is said to be pending before the chain exactly
\* when the mint really was not pending when it was last polled up to then.  Not
\* "not yet" pending: an update that has already activated counts as well.  Again
\* for captures with block times.
CorrelationIsTrue ==
    LET records == DecodeCapture(files[Capture].lines)
        api     == DecodeApi(files[ApiCapture].lines)
        c       == CorrelateKOx(api, records, Tracked)
        lead    == c.apiPublicationLead
        really  == PendingSince(held, MintPendingAt, c.chainPending.first)
                   - PendingSince(published, ApiPendingAt, c.apiPending.first)
        polled  == {r.wallclock : r \in Range(DecodedChain(records, Tracked))} \ {Null}
    IN  KnownPhases(records) =>
          /\ lead # Null =>
               /\ lead.minExclusive # Null => lead.minExclusive < really
               /\ really <= lead.maxInclusive
               /\ lead.order = "API_BEFORE_CHAIN" => really > 0
               /\ lead.order = "CHAIN_BEFORE_API" => really < 0
          /\ "API_PENDING_CHAIN_NOT_YET_PENDING" \in c.outcomes <=>
               /\ c.apiPending # Null
               /\ LET seen == {t \in polled : t <= c.apiPending.first}
                  IN  seen # {} /\ ~MintPendingAt(Max(seen))

\* However tools, recorder and crashes interleave, a file whose manifest
\* matches is what it says: a snapshot is a beginning of its source, a window
\* holds exactly the lines of the input it was read from that lie in its span,
\* and that input was a beginning of the capture; a snapshot is reported only if
\* its source still was those lines; the digest in an analysis of a sealed file
\* that was finished is of the lines that were analysed.
SealedCopiesAreExact ==
    /\ \A p \in DOMAIN manifests : p \in DOMAIN files /\ VerifiedManifest(p) =>
         LET m == manifests[p]  lines == files[p].lines IN
         /\ m.kind = "snapshot" => IsPrefix(lines, files[m.source].lines)
         /\ m.kind = "window" =>
              /\ IsPrefix(m.sourceLines, files[Capture].lines)
              /\ ToSet(lines) = {l \in ToSet(m.sourceLines) :
                    Placeable(l) /\ l.wallclock \in m.span[1] .. m.span[2] - 1}
    /\ \A r \in reports :
         /\ r.what = "snapshot" => r.lines = r.source
         /\ r.what = "analysis" /\ r.final => r.lines = r.sha256
===============================================================================
