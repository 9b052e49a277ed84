---------------------------- MODULE MCProtectedSwap ----------------------------
(* Values of the constants of ProtectedSwap for TLC.  EQ is a known tokenized     *)
(* equity: unscheduled, scheduled, or unreadable; NEW is a Token-2022 mint nobody *)
(* listed, SPL an ordinary token.                                                 *)
EXTENDS ProtectedSwap

MCTimestamps == 0 .. 3

Ok(m, n, t) ==
    [decode |-> "Ok", state |-> [multiplier |-> m, newMultiplier |-> n, effectiveTimestamp |-> t]]
Bad(error) == [decode |-> error, state |-> None]

MCMintAccounts ==
    [m \in Mints |->
       CASE m = "EQ" -> {Ok("m1", "m1", 0), Ok("m1", "m2", 1), Ok("m2", "m2", 1),
                        Bad("MissingScaledUiAmount")}
         [] m = "NEW" -> {Ok("m1", "m1", 0), Bad("AccountNotFound")}
         [] OTHER    -> {Bad("InvalidMintOwner")}]

\* The first two are within the limits; each of the others breaks one.
MCRequests ==
    LET valid == [validAddresses |-> TRUE, amount |-> 1, slippageBps |-> 0, maxAccounts |-> 64]
    IN  {valid, [valid EXCEPT !.maxAccounts = None], [valid EXCEPT !.validAddresses = FALSE],
         [valid EXCEPT !.amount = 0], [valid EXCEPT !.slippageBps = -1],
         [valid EXCEPT !.maxAccounts = 65]}

WellFormed ==
    [mints |-> "address", amounts |-> "unsigned integer string", swapMode |-> "string",
     slippageBps |-> "number", routePlan |-> "steps", requiredInstructions |-> "instructions",
     optionalInstructions |-> "absent", lookupTables |-> "addresses",
     blockhash |-> "32 bytes", lastValidBlockHeight |-> "number"]

Build(in, out, entrypoint, shape, moves) ==
    [inputMint |-> in, outputMint |-> out, entrypoint |-> entrypoint, shape |-> shape,
     moves |-> moves, json |-> WellFormed]

MCBuilds ==
    {Build("USDC", "EQ", "route_v2", "supported", <<"USDC", "EQ">>),
     Build("USDC", "SPL", "route_v2", "supported", <<"USDC", "SPL">>),
     Build("USDC", "SPL", "route_v2", "supported", <<"USDC", "EQ">>),
     Build("NEW", "EQ", "route_v2", "supported", <<"NEW", "EQ">>),
     Build("SPL", "NEW", "route_v2", "supported", <<"SPL", "NEW">>),
     Build("EQ", "USDC", "other", "supported", <<"EQ", "USDC">>),
     Build("USDC", "SPL", "other", "supported", <<"USDC", "EQ">>),
     Build("USDC", "EQ", "route_v2", "oversized", <<"USDC", "EQ">>),
     Build("USDC", "EQ", "route_v2", "resolves differently", <<"USDC", "EQ">>),
     [Build("USDC", "SPL", "route_v2", "supported", <<"USDC", "SPL">>)
        EXCEPT !.json.blockhash = "31 bytes"]}

MCWindows == {[beforeSecs |-> 0, afterSecs |-> 1], [beforeSecs |-> -1, afterSecs |-> 0]}

\* Before, at and after the one scheduled activation, with a window of that second.
ThreeTimes == 0 .. 2
PointWindows == {[beforeSecs |-> 0, afterSecs |-> 0], [beforeSecs |-> -1, afterSecs |-> 0]}

Program(check, elf, authority) == [check |-> check, elf |-> elf, authority |-> authority]

\* Either address may hold anything, and change.
MovingPrograms ==
    [at \in {Reviewed, Other} |->
       IF at = Reviewed
       THEN {Program("Ok", "reviewed", "key"), Program("Ok", "foreign", "key"),
             Program("NOT_EXECUTABLE", "reviewed", None),
             Program("MALFORMED_PROGRAM_DATA", "reviewed", "key")}
       ELSE {Program("Ok", "reviewed", "key")}]

\* The reviewed address may be foreign, malformed, upgraded, finalized or closed;
\* the other one is fixed.
UpgradablePrograms ==
    [at \in {Reviewed, Other} |->
       IF at = Reviewed
       THEN {Program("Ok", "reviewed", "key"), Program("Ok", "foreign", "key"),
             Program("MALFORMED_PROGRAM_DATA", "reviewed", None)}
       ELSE {Program("Ok", "reviewed", "zero")}]

\* One mint, one build.
FixedMints == [m \in Mints |-> {Ok("m1", "m2", 1)}]

OneBuild == {Build("USDC", "EQ", "route_v2", "supported", <<"USDC", "EQ">>)}
===============================================================================
