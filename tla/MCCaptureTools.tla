--------------------------- MODULE MCCaptureTools -----------------------------
(* Values of the constants of CaptureTools for TLC.  Each budget spends the    *)
(* bound on one question: the capture alone, the capture with a second mint's   *)
(* errors, two sources, or tools that race the recorder.                        *)
EXTENDS CaptureTools

MCMints == {"KOx", "KOon"}
MCOrder == <<"KOx", "KOon">>
MCTimestamps == 0 .. 100

Account(m, n, t, paused) ==
    [code |-> "Ok", paused |-> paused,
     state |-> [multiplier |-> m, newMultiplier |-> n, effectiveTimestamp |-> t]]

MCFirst == Account("m1", "m1", 0, FALSE)

MCStates == {Account("m1", "m2", 75, FALSE), Account("m2", "m2", 0, FALSE),
             Account("m1", "m1", 0, TRUE)}

Response(new, as, value) ==
    [current |-> "m1", new |-> new, activation |-> [as |-> as, value |-> value],
     reason |-> "none"]

MCFirstApi == Response(Null, "none", Null)

\* Two pending updates, and none again, written as 0 instead of null.
MCApiStates == {Response("m2", "unix-seconds", 75), Response("m2", "iso-8601", 30),
                Response(Null, "none", 0)}

MCSpans == {<<0, 60>>, <<30, 200>>}

Budget(steps, polls, apiPolls, mintUpdates, apiUpdates, faults, toolRuns, crashes, quiet) ==
    [steps |-> steps, polls |-> polls, apiPolls |-> apiPolls, mintUpdates |-> mintUpdates,
     apiUpdates |-> apiUpdates, faults |-> faults, tools |-> toolRuns, crashes |-> crashes,
     quiet |-> quiet]

MCBudgets == {Budget({1, 30, 105}, 4, 0, 2, 0, 0, 0, 0, 1),
              Budget({1, 30, 89}, 5, 0, 1, 0, 0, 0, 0, 0),
              Budget({30, 60}, 3, 0, 1, 0, 2, 0, 0, 0),
              Budget({30}, 3, 3, 1, 1, 0, 0, 0, 0),
              Budget({30, 60}, 0, 4, 0, 2, 1, 0, 0, 0),
              Budget({30}, 2, 0, 0, 0, 0, 2, 1, 1)}
===============================================================================
