--------------------------- MODULE GuardedTransaction ---------------------------
(***************************************************************************)
(* The life of one guarded transaction as a list of instructions: the client  *)
(* builds it (buildGuardedTransferChecked, composeGuardedJupiterTrade),        *)
(* or the page builds it), it is changed on its way to the signature, a client  *)
(* may check it again (verifyProtectedSwap, verifyWalletSignedTransaction),    *)
(* and the program judges what the runtime shows it.                           *)
(*                                                                            *)
(* Whoever writes a transaction also writes its commitment: Recommit.  The    *)
(* lookup tables the client resolves with are the ones Jupiter reported; the  *)
(* ones the runtime resolves with are the chain's.                            *)
(***************************************************************************)
EXTENDS TransactionGrammar, Absent, FiniteSets

CONSTANTS
    Equity,         \* the protected mint
    Decode(_),      \* the result of decoding a mint account
    Transfers,      \* TransferChecked instructions, well formed or not
    Befores,        \* what may precede the guard of a transfer
    Builds,         \* Jupiter builds
    Taker,          \* the wallet a swap is for
    Payers,         \* fee payers
    ComputeUnitLimit,
    LookedUp,       \* the address a lookup table entry should hold
    TableAnswers,   \* the addresses the chain's table may hold there
    EditAddresses, EditData(_), EditPrograms, ExtraInstructions,   \* what an edit puts in
    MaxEdits        \* bound on the edits

IsSequence(s) == s \in Seq({s[i] : i \in DOMAIN s})

\* An instruction is a record, its accounts are a sequence of account metas.
IsInstruction(i) ==
    /\ i = Instruction(i.program, i.accounts, i.data)
    /\ IsSequence(i.accounts)
    /\ \A j \in DOMAIN i.accounts :
         LET m == i.accounts[j] IN m = Meta(m.address, m.signer, m.writable)

IsInstructionList(list) ==
    /\ IsSequence(list)
    /\ \A i \in DOMAIN list : IsInstruction(list[i])

\* Only the guard a builder writes carries a guard's payload.  The protected mint
\* decodes; USDC, a mint of the legacy token program, does not.
ASSUME TransactionConstants ==
    /\ MaxEdits \in Nat
    /\ LookedUp \in TableAnswers
    /\ \A i \in Transfers \cup ExtraInstructions : IsInstruction(i) /\ i.data.tag # "guard"
    /\ \A before \in Befores :
         /\ IsInstructionList(before)
         /\ \A i \in DOMAIN before :
              before[i].program # GuardProgram /\ before[i].data.tag # "guard"
    /\ \A build \in Builds :
         /\ IsInstructionList(build.budget) /\ IsInstructionList(build.setups)
         /\ IsInstruction(build.swap)
         /\ build.swap.data.tag = "route_v2" => build.swap.data.slippageBps \in Nat
    /\ Decode(Equity) = "Ok" /\ Decode(USDC_MINT) # "Ok"

VARIABLES
    built,       \* what the client built, None before, "refused" if it would not
    tx,          \* the transaction as it is now: instructions and fee payer
    edits,       \* edits made
    recommitted, \* the commitment was rewritten after an edit
    table,       \* what the chain's lookup table holds at the entry
    client,      \* the client's answer on tx, None if not asked
    outcome      \* what the program answered

transactionVars == <<built, tx, edits, recommitted, table, client, outcome>>
-------------------------------------------------------------------------------
\* Building.

Guard(mint, adapter, commitment) ==
    Instruction(GuardProgram, <<Meta(mint, FALSE, FALSE), Meta(INSTRUCTIONS_SYSVAR, FALSE, FALSE)>>,
                AssertSafeExecutionV2(mint, adapter, commitment))

Transaction(instructions, feePayer) == [instructions |-> instructions, feePayer |-> feePayer]

\* assertSupportedTransferChecked
SupportedTransferChecked(transfer) ==
    /\ transfer.program = TOKEN_2022_PROGRAM_ID
    /\ transfer.data.tag = "TransferChecked"
    /\ Len(transfer.accounts) >= 4
    /\ transfer.accounts[2].address = Equity

\* downstreamCommitment and jupiterSuffixCommitment.
ClientDownstreamCommitment(instruction) ==
    [domain |-> "EQUITYGUARD_DOWNSTREAM_V2", instructions |-> <<instruction>>]

ClientSuffixCommitment(suffix) ==
    [domain |-> "EQUITYGUARD_JUPITER_SUFFIX_V1", instructions |-> suffix]

\* buildGuardedTransferChecked: the flags come from the whole list, with a
\* placeholder for the guard.
GuardedTransferChecked(transfer, before, feePayer) ==
    LET list      == before \o <<Guard(Equity, TransferKind, ZeroCommitment), transfer>>
        committed == SysvarView(list, feePayer)[Len(list)]
    IN  [kind |-> TransferKind,
         committed |-> <<committed>>,
         tx |-> Transaction(before \o <<Guard(Equity, TransferKind,
                                              ClientDownstreamCommitment(committed)),
                                        transfer>>, feePayer)]

\* The live page has a builder of its own: commitmentOf collects the flags of the
\* two instructions, and the mint is not looked at.
CommitmentOf(instruction, list, feePayer) ==
    DownstreamCommitment(WithFlags(<<instruction>>, Signers(list, feePayer),
                                   Writables(list, feePayer))[1])

EncodeAssertSafeExecutionV2(mint, commitment) == AssertSafeExecutionV2(mint, TransferKind, commitment)

PublicGuard(commitment) ==
    Instruction(GuardProgram, <<Meta(Equity, FALSE, FALSE), Meta(INSTRUCTIONS_SYSVAR, FALSE, FALSE)>>,
                EncodeAssertSafeExecutionV2(Equity, commitment))

BuildPublicGuardedTransfer(transfer, feePayer) ==
    LET list == <<PublicGuard(ZeroCommitment), transfer>>
    IN  [kind |-> TransferKind,
         committed |-> <<SysvarView(list, feePayer)[2]>>,
         tx |-> Transaction(<<PublicGuard(CommitmentOf(transfer, list, feePayer)), transfer>>,
                            feePayer)]

MinimumOutFromQuote(quotedOut, slippageBps) == (quotedOut * (10000 - slippageBps) + 9999) \div 10000

IsShape(instruction, tag) ==
    /\ instruction.program = COMPUTE_BUDGET_PROGRAM_ID
    /\ instruction.accounts = <<>>
    /\ instruction.data.tag = tag

\* assertSupportedJupiterBuild
SupportedJupiterBuild(build, adapter) ==
    LET budget   == build.budget
        prices   == {i \in DOMAIN budget : IsShape(budget[i], "SetComputeUnitPrice")}
        limits   == {i \in DOMAIN budget : IsShape(budget[i], "SetComputeUnitLimit")}
        swap     == build.swap
    IN  /\ ~build.extras
        /\ Cardinality(prices) = 1
        /\ prices \cup limits = DOMAIN budget
        /\ Cardinality(limits) <= 1
        /\ \A i \in limits : budget[i].data.value = ComputeUnitLimit
        /\ Len(build.setups) <= 1
        /\ \A i \in DOMAIN build.setups :
             /\ build.setups[i].program = ASSOCIATED_TOKEN_PROGRAM_ID
             /\ build.setups[i].data.tag = "CreateIdempotent"
        /\ swap.program = JUPITER_PROGRAM_ID
        /\ swap.data.tag = "route_v2"
        /\ build.swapMode = "ExactIn"
        /\ <<build.inputMint, build.outputMint>> =
             IF adapter = BuyKind THEN <<USDC_MINT, Equity>> ELSE <<Equity, USDC_MINT>>
        /\ Len(swap.accounts) > 0
        /\ swap.accounts[1].address = Taker
        /\ swap.data.inAmount = build.inAmount
        /\ swap.data.quotedOutAmount = build.outAmount
        /\ swap.data.slippageBps = build.slippageBps
        /\ MinimumOutFromQuote(swap.data.quotedOutAmount, swap.data.slippageBps)
             = build.otherAmountThreshold

\* normalizedJupiterSuffix: Jupiter's price, the composer's limit, the setup, the trade.
NormalizedJupiterSuffix(build) ==
    LET prices == {i \in DOMAIN build.budget : IsShape(build.budget[i], "SetComputeUnitPrice")}
        first  == CHOOSE i \in prices : \A j \in prices : i <= j
    IN  <<build.budget[first],
          Instruction(COMPUTE_BUDGET_PROGRAM_ID, <<>>,
                      [tag |-> "SetComputeUnitLimit", value |-> ComputeUnitLimit])>>
          \o build.setups \o <<build.swap>>

\* jupiter.ts has the program's grammar a second time.
ComputeBudgetVerdict(instruction, tag) ==
    LET canonical == instruction.accounts = <<>> /\ instruction.data.tag = tag
    IN  IF canonical THEN "Ok" ELSE "InvalidComputeBudgetInstruction"

RouteVerdict(trade, adapter, mint) ==
    IF Len(trade.accounts) < Fixed THEN "InvalidJupiterInstruction"
    ELSE IF trade.data.tag # "route_v2" THEN "InvalidJupiterInstruction"
    ELSE LET key(i) == trade.accounts[i].address
             buy    == adapter = BuyKind
             structurallyValid ==
               /\ key(9) = JUPITER_EVENT_AUTHORITY
               /\ trade.accounts[1].signer
               /\ trade.data.inAmount > 0
               /\ trade.data.quotedOutAmount > 0
               /\ trade.data.slippageBps <= MAX_SLIPPAGE_BPS
               /\ trade.data.routePlanLen > 0
             protectedSide    == IF buy THEN key(5) ELSE key(4)
             protectedProgram == IF buy THEN key(7) ELSE key(6)
             counter          == IF buy THEN key(4) ELSE key(5)
             counterProgram   == IF buy THEN key(6) ELSE key(7)
    IN  IF key(10) # JUPITER_PROGRAM_ID THEN "InvalidJupiterProgram"
        ELSE IF ~structurallyValid THEN "InvalidJupiterInstruction"
        ELSE IF key(8) # JUPITER_PROGRAM_ID THEN "DestinationOverrideUnsupported"
        ELSE IF protectedSide # mint THEN "InvalidJupiterDirection"
        ELSE IF counter # USDC_MINT THEN "InvalidCounterMint"
        ELSE IF protectedProgram # TOKEN_2022_PROGRAM_ID \/ counterProgram # LEGACY_TOKEN_PROGRAM_ID
          THEN "InvalidTokenProgram"
        ELSE IF trade.data.platformFeeBps # 0 \/ trade.data.positiveSlippageBps # 0
          THEN "UnsupportedJupiterFee"
        ELSE "Ok"

SetupVerdict(setup, route) ==
    LET forThisTrade ==
          /\ setup.accounts[1].signer
          /\ <<setup.accounts[2].address, setup.accounts[3].address, setup.accounts[4].address>>
               = <<route.destination, route.authority, route.destinationMint>>
          /\ <<setup.accounts[5].address, setup.accounts[6].address>>
               = <<SYSTEM_PROGRAM_ID, route.destinationTokenProgram>>
    IN  IF Len(setup.accounts) # 6 \/ setup.data.tag # "CreateIdempotent" THEN "InvalidAtaSetup"
        ELSE IF forThisTrade THEN "Ok"
        ELSE "InvalidAtaSetup"

CanonicalAtas(route) ==
    IF Ata(route.authority, route.sourceMint, route.sourceTokenProgram) # route.source
      THEN "NonCanonicalSourceAccount"
    ELSE IF Ata(route.authority, route.destinationMint, route.destinationTokenProgram)
              # route.destination
      THEN "NonCanonicalDestinationAccount"
    ELSE "Ok"

CheckJupiterSuffix(suffix, adapter, mint) ==
    IF Len(suffix) # 3 /\ Len(suffix) # 4 THEN "UnsupportedTransactionGrammar"
    ELSE LET price  == suffix[1]
             limit  == suffix[2]
             setups == IF Len(suffix) = 4 THEN {suffix[3]} ELSE {}
             trade  == suffix[Len(suffix)]
             prices == ComputeBudgetVerdict(price, "SetComputeUnitPrice")
             limits == ComputeBudgetVerdict(limit, "SetComputeUnitLimit")
             routes == RouteVerdict(trade, adapter, mint)
    IN  IF \/ price.program # COMPUTE_BUDGET_PROGRAM_ID \/ limit.program # COMPUTE_BUDGET_PROGRAM_ID
           \/ \E setup \in setups : setup.program # ASSOCIATED_TOKEN_PROGRAM_ID
          THEN "UnsupportedTransactionGrammar"
        ELSE IF trade.program # JUPITER_PROGRAM_ID THEN "InvalidJupiterProgram"
        ELSE IF prices # "Ok" THEN prices
        ELSE IF limits # "Ok" THEN limits
        ELSE IF routes # "Ok" THEN routes
        ELSE IF \E setup \in setups : SetupVerdict(setup, Route(trade)) # "Ok" THEN "InvalidAtaSetup"
        ELSE CanonicalAtas(Route(trade))

\* checkGuardedJupiterTransaction, with the guard at top-level index 0.
CheckGuardedJupiterTransaction(view, adapter, commitment) ==
    IF CheckJupiterSuffix(Tail(view), adapter, Equity) # "Ok"
      THEN CheckJupiterSuffix(Tail(view), adapter, Equity)
    ELSE IF ClientSuffixCommitment(Tail(view)) # commitment THEN "DownstreamCommitmentMismatch"
    ELSE "Ok"

\* jupiterTradeBindingOf: what an execution plan compares before it signs.
JupiterTradeBindingOf(committed, adapter) ==
    LET trade == committed[Len(committed)]
        route == Route(trade)
    IN  [adapterKind |-> adapter,
         protectedMint |-> ProtectedSide(route, adapter)[1],
         counterMint |-> ProtectedSide(route, adapter)[3],
         authority |-> route.authority,
         sourceMint |-> route.sourceMint,
         destinationMint |-> route.destinationMint,
         sourceTokenAccount |-> route.source,
         destinationTokenAccount |-> route.destination,
         inAmountRaw |-> trade.data.inAmount,
         quotedOutRaw |-> trade.data.quotedOutAmount,
         slippageBps |-> trade.data.slippageBps,
         minOutRaw |-> MinimumOutFromQuote(trade.data.quotedOutAmount, trade.data.slippageBps),
         suffixInstructionCount |-> Len(committed)]

\* downstreamProblems finds none: an execution plan takes the binding of kinds 2
\* and 3 for well formed (every amount here is below 2^64).
IsDownstreamBinding(b) ==
    LET sides == IF b.adapterKind = BuyKind THEN <<b.destinationMint, b.sourceMint>>
                 ELSE <<b.sourceMint, b.destinationMint>>
    IN  /\ b.adapterKind \in {BuyKind, SellKind}
        /\ b.counterMint = USDC_MINT
        /\ sides = <<b.protectedMint, b.counterMint>>
        /\ b.inAmountRaw > 0 /\ b.quotedOutRaw > 0
        /\ b.slippageBps \in 0 .. MAX_SLIPPAGE_BPS
        /\ b.minOutRaw = MinimumOutFromQuote(b.quotedOutRaw, b.slippageBps)
        /\ b.suffixInstructionCount \in {3, 4}

\* jupiterQuoteMismatches finds none: the binding is the trade of the quote a plan
\* pins.  Plans only buy.
IsTradeOfQuote(b, quote, mint) ==
    /\ b.adapterKind = BuyKind
    /\ b.protectedMint = mint /\ b.destinationMint = quote.mint
    /\ b.sourceMint = quote.inputMint
    /\ b.inAmountRaw = quote.inputRaw
    /\ b.quotedOutRaw = quote.outputRaw
    /\ b.minOutRaw = quote.minOutputRaw

\* The quote identity of a build.
BuildQuoteIdentity(build) ==
    [mint |-> build.outputMint, inputMint |-> build.inputMint, inputRaw |-> build.inAmount,
     outputRaw |-> build.outAmount, minOutputRaw |-> build.otherAmountThreshold]

\* buildGuardedJupiterTrade, the size limit of composeGuardedJupiterTrade, and
\* whether the transaction is what they return.
GuardedJupiterTrade(build, adapter, feePayer) ==
    LET suffix    == NormalizedJupiterSuffix(build)
        list      == <<Guard(Equity, adapter, ZeroCommitment)>> \o suffix
        committed == Tail(SysvarView(list, feePayer))
    IN  [kind |-> adapter,
         committed |-> committed,
         binding |-> JupiterTradeBindingOf(committed, adapter),
         quote |-> BuildQuoteIdentity(build),
         tx |-> Transaction(<<Guard(Equity, adapter, ClientSuffixCommitment(committed))>> \o suffix,
                            feePayer)]

ComposableJupiterTrade(build, adapter, feePayer) ==
    /\ SupportedJupiterBuild(build, adapter)
    /\ LET list == <<Guard(Equity, adapter, ZeroCommitment)>> \o NormalizedJupiterSuffix(build)
       IN  /\ Demoted(list, feePayer) = {}
           /\ CheckJupiterSuffix(Tail(SysvarView(list, feePayer)), adapter, Equity) = "Ok"
    /\ ~build.oversized
    /\ LET trade == GuardedJupiterTrade(build, adapter, feePayer)
           view  == SysvarView(trade.tx.instructions, feePayer)
       IN  CheckGuardedJupiterTransaction(view, adapter, ClientSuffixCommitment(trade.committed)) = "Ok"
-------------------------------------------------------------------------------
\* Faulty variant: the guard instruction itself is not compared.
VerifySuffixOnly(b, t) ==
    LET view == SysvarView(t.instructions, t.feePayer)
    IN  IF view = <<>> THEN "UnsupportedTransactionGrammar"
        ELSE IF CheckJupiterSuffix(Tail(view), b.kind, Equity) # "Ok"
          THEN CheckJupiterSuffix(Tail(view), b.kind, Equity)
        ELSE IF JupiterSuffixCommitment(Tail(view)) # JupiterSuffixCommitment(b.committed)
          THEN "DownstreamCommitmentMismatch"
        ELSE "Ok"

\* verifyProtectedSwap, for the transaction t the wallet would sign.
VerifyProtectedSwap(b, t) ==
    LET view  == SysvarView(t.instructions, t.feePayer)
        first == SysvarView(b.tx.instructions, b.tx.feePayer)[1]
    IN  IF view = <<>> \/ view[1] # first THEN "GUARD_INSTRUCTION_CHANGED"
        ELSE CheckGuardedJupiterTransaction(view, b.kind, ClientSuffixCommitment(b.committed))

\* SetComputeUnitLimit or SetComputeUnitPrice, without accounts.
IsAllowedComputeBudgetPrefix(instruction) ==
    IsShape(instruction, "SetComputeUnitLimit") \/ IsShape(instruction, "SetComputeUnitPrice")

\* Program, data, accounts and the roles the message gives them.
SameInstruction(left, right) ==
    /\ left.program = right.program
    /\ left.data = right.data
    /\ left.accounts = right.accounts

\* verifySignedTransaction: of the transaction t a wallet returned for b.  One
\* signer, the same; at most two different compute-budget instructions in
\* front; and then what the wallet was given.
VerifySignedTransaction(b, t) ==
    LET unsigned == SysvarView(b.tx.instructions, b.tx.feePayer)
        signed   == SysvarView(t.instructions, t.feePayer)
        n        == Len(signed) - Len(unsigned)
    IN  IF \/ Signers(unsigned, b.tx.feePayer) # {b.tx.feePayer}
           \/ Signers(signed, t.feePayer) # {b.tx.feePayer}
          THEN "signer changed"
        ELSE IF n \notin 0 .. 2 THEN "unexpected shape"
        ELSE IF \/ \E i \in 1 .. n : ~IsAllowedComputeBudgetPrefix(signed[i])
                \/ n = 2 /\ signed[1].data.tag = signed[2].data.tag
          THEN "unsupported instruction added"
        ELSE IF \E i \in DOMAIN unsigned : ~SameInstruction(unsigned[i], signed[n + i])
          THEN "instruction changed"
        ELSE "Ok"

\* verifyWalletSignedTransaction also says where the guard now is, counted from 0,
\* when the wallet was given a list that starts with it.
VerifyWalletSignedTransaction(b, t) ==
    [verdict |-> VerifySignedTransaction(b, t),
     guardInstructionIndex |-> Len(t.instructions) - Len(b.tx.instructions)]

\* The list with the addresses the chain's lookup table holds.
Loaded(instructions) ==
    [i \in DOMAIN instructions |->
       [instructions[i] EXCEPT !.accounts =
          [j \in DOMAIN @ |-> IF @[j].address = LookedUp THEN [@[j] EXCEPT !.address = table]
                              ELSE @[j]]]]

\* The instructions at which the guard is invoked: as themselves, or by a program
\* that passes its data and accounts on.
Invocations(view) ==
    {i \in DOMAIN view : \/ view[i].program = GuardProgram
                         \/ view[i].program = "Wrapper" /\ view[i].data.tag = "guard"}

\* The first invocation that fails fails the transaction.
ProgramVerdict(view, economic) ==
    LET verdict == [i \in Invocations(view) |->
                      AssertSafeTransaction(view, i, view[i].accounts, view[i].data, Decode, economic)]
        failing == {i \in Invocations(view) : verdict[i] # "Ok"}
    IN  IF Invocations(view) = {} THEN "Unguarded"
        ELSE IF failing = {} THEN "Ok"
        ELSE verdict[CHOOSE i \in failing : \A j \in failing : i <= j]
-------------------------------------------------------------------------------
TransactionInit ==
    /\ built = None
    /\ tx = None
    /\ edits = 0
    /\ recommitted = FALSE
    /\ table \in TableAnswers
    /\ client = None
    /\ outcome = None

NothingBuilt == built = None /\ tx = None

BuildTransfer ==
    /\ NothingBuilt
    /\ \E transfer \in Transfers, before \in Befores, feePayer \in Payers :
         IF SupportedTransferChecked(transfer)
         THEN /\ built' = GuardedTransferChecked(transfer, before, feePayer)
              /\ tx' = built'.tx
         ELSE built' = "refused" /\ UNCHANGED tx
    /\ UNCHANGED <<edits, recommitted, table, client, outcome>>

\* The live page gives its builder a TransferChecked of the session mint, and the
\* connected wallet pays.
BuildPublicTransfer ==
    /\ NothingBuilt
    /\ \E transfer \in {t \in Transfers : SupportedTransferChecked(t)} :
         /\ built' = BuildPublicGuardedTransfer(transfer, Taker)
         /\ tx' = built'.tx
    /\ UNCHANGED <<edits, recommitted, table, client, outcome>>

\* protectJupiterSwap pays with the wallet; composeGuardedJupiterTrade lets the
\* caller name another payer.
BuildJupiter ==
    /\ NothingBuilt
    /\ \E build \in Builds, adapter \in {BuyKind, SellKind}, feePayer \in Payers :
         IF ComposableJupiterTrade(build, adapter, feePayer)
         THEN /\ built' = GuardedJupiterTrade(build, adapter, feePayer)
              /\ tx' = built'.tx
         ELSE built' = "refused" /\ UNCHANGED tx
    /\ UNCHANGED <<edits, recommitted, table, client, outcome>>

\* An edit leaves the commitment as it is: Recommit is the step that writes one.
KeepsCommitment(old, new) ==
    /\ old.tag = "guard" <=> new.tag = "guard"
    /\ old.tag = "guard" => new.commitment = old.commitment

EditedData(data) == {new \in EditData(data) : KeepsCommitment(data, new)}

\* One change to the list: an account, a flag, data, a program, an instruction
\* less or more, another payer.
EditedInstruction(instruction) ==
    {[instruction EXCEPT !.accounts[j].address = a] :
        j \in DOMAIN instruction.accounts, a \in EditAddresses}
    \cup {[instruction EXCEPT !.accounts[j].signer = ~@] : j \in DOMAIN instruction.accounts}
    \cup {[instruction EXCEPT !.accounts[j].writable = ~@] : j \in DOMAIN instruction.accounts}
    \cup {[instruction EXCEPT !.data = d] : d \in EditedData(instruction.data)}
    \cup {[instruction EXCEPT !.program = p] : p \in EditPrograms}
    \cup {[instruction EXCEPT !.accounts = SubSeq(@, 1, Len(@) - 1)] :
            n \in {1} \cap DOMAIN instruction.accounts}

Without(list, i) == SubSeq(list, 1, i - 1) \o SubSeq(list, i + 1, Len(list))

With(list, i, instruction) == SubSeq(list, 1, i - 1) \o <<instruction>> \o SubSeq(list, i, Len(list))

EditedList(list) ==
    (UNION {{[list EXCEPT ![i] = new] : new \in EditedInstruction(list[i])} : i \in DOMAIN list})
    \cup {Without(list, i) : i \in DOMAIN list}
    \cup {With(list, i, new) : i \in 1 .. Len(list) + 1, new \in ExtraInstructions}

Edit ==
    /\ tx # None
    /\ outcome = None
    /\ edits < MaxEdits
    /\ \/ \E list \in EditedList(tx.instructions) : tx' = [tx EXCEPT !.instructions = list]
       \/ \E feePayer \in Payers \ {tx.feePayer} : tx' = [tx EXCEPT !.feePayer = feePayer]
    /\ edits' = edits + 1
    /\ client' = None
    /\ UNCHANGED <<built, recommitted, table, outcome>>

\* A builder writes the commitment that fits what now follows the guard.
Recommit ==
    /\ tx # None
    /\ outcome = None
    /\ edits > 0 /\ ~recommitted
    /\ \E i \in DOMAIN tx.instructions :
         LET view == SysvarView(tx.instructions, tx.feePayer)
             data == tx.instructions[i].data
         IN  /\ tx.instructions[i].program = GuardProgram
             /\ data.tag = "guard"
             /\ data.adapter = TransferKind => i < Len(view)
             /\ tx' = [tx EXCEPT !.instructions[i].data.commitment =
                         IF data.adapter = TransferKind THEN DownstreamCommitment(view[i + 1])
                         ELSE JupiterSuffixCommitment(SubSeq(view, i + 1, Len(view)))]
    /\ recommitted' = TRUE
    /\ client' = None
    /\ UNCHANGED <<built, edits, table, outcome>>

\* The client looks again before it signs.
Verify ==
    /\ tx # None
    /\ outcome = None
    /\ client = None
    /\ built.kind # TransferKind
    /\ client' = VerifyProtectedSwap(built, tx)
    /\ UNCHANGED <<built, tx, edits, recommitted, table, outcome>>

\* The pages look at what the wallet has signed.
VerifySigned ==
    /\ tx # None
    /\ outcome = None
    /\ client = None
    /\ built.kind = TransferKind
    /\ client' = VerifyWalletSignedTransaction(built, tx).verdict
    /\ UNCHANGED <<built, tx, edits, recommitted, table, outcome>>

\* The transaction is signed and executed.  The state and clock checks come last
\* and are a module of their own (EquityGuard): here they pass.
Execute ==
    /\ tx # None
    /\ outcome = None
    /\ LET view == RuntimeView(Loaded(tx.instructions), tx.feePayer)
       IN  outcome' = [verdict |-> ProgramVerdict(view, "Ok"), view |-> view]
    /\ UNCHANGED <<built, tx, edits, recommitted, table, client>>

TransactionNext ==
    \/ BuildTransfer \/ BuildPublicTransfer \/ BuildJupiter
    \/ Edit \/ Recommit \/ Verify \/ VerifySigned \/ Execute

TransactionSpec == TransactionInit /\ [][TransactionNext]_transactionVars
-------------------------------------------------------------------------------
\* What the other programs do with an instruction: a trade moves from the source
\* to the destination, or to the override if one is given; a setup creates an
\* account; the budget instructions and the guard touch no tokens.
Effects(instruction) ==
    CASE instruction.program \in {COMPUTE_BUDGET_PROGRAM_ID, GuardProgram} -> {}
      [] instruction.program = JUPITER_PROGRAM_ID /\ Len(instruction.accounts) >= Fixed
           /\ instruction.data.tag = "route_v2" ->
           {[what |-> "trade", owner |-> instruction.accounts[1].address,
             signed |-> instruction.accounts[1].signer,
             from |-> instruction.accounts[2].address,
             to |-> IF instruction.accounts[8].address = JUPITER_PROGRAM_ID
                    THEN instruction.accounts[3].address ELSE instruction.accounts[8].address,
             pays |-> instruction.accounts[4].address,
             gets |-> instruction.accounts[5].address,
             fees |-> instruction.data.platformFeeBps + instruction.data.positiveSlippageBps]}
      [] instruction.program = ASSOCIATED_TOKEN_PROGRAM_ID /\ Len(instruction.accounts) = 6 ->
           {[what |-> "create", account |-> instruction.accounts[2].address]}
      [] OTHER -> {[what |-> "other"]}

TokenProgramOf(mint) == IF mint = USDC_MINT THEN LEGACY_TOKEN_PROGRAM_ID ELSE TOKEN_2022_PROGRAM_ID

Accepted == outcome # None /\ outcome.verdict = "Ok"

\* The commitment of kinds 1, 2 and 3 (downstream.rs, jupiter.rs): whatever was
\* edited after the client fixed the transaction, and whatever the chain's lookup
\* table holds, what an accepting guard protects is what the client committed to,
\* flags included, and a trade is the one of the binding that the plan compared.
AcceptedIsCommitted ==
    (Accepted /\ ~recommitted) =>
        LET view == outcome.view
        IN  IF built.kind = TransferKind
            THEN \E i \in 1 .. Len(view) - 1 :
                   view[i].program = GuardProgram /\ view[i + 1] = built.committed[1]
            ELSE /\ Tail(view) = built.committed
                 /\ \E trade \in Effects(view[Len(view)]) :
                      /\ trade.owner = built.binding.authority
                      /\ trade.from = built.binding.sourceTokenAccount
                      /\ trade.to = built.binding.destinationTokenAccount
                      /\ {trade.pays, trade.gets} =
                           {built.binding.protectedMint, built.binding.counterMint}
                 /\ view[Len(view)].data.inAmount = built.binding.inAmountRaw

\* The grammar of kinds 2 and 3 (jupiter.rs, "why grammar and commitment are both
\* required"): even when the commitment was written for the edited transaction,
\* all it does is one trade of the protected mint against USDC in the direction of
\* the kind, signed by the owner, between the owner's own accounts, without
\* fees, and at most the creation of the account it fills.
AcceptedIsOneOwnTrade ==
    Accepted =>
        LET view == outcome.view
        IN  \A i \in Invocations(view) : view[i].data.adapter # TransferKind =>
                LET mint  == view[i].data.expectedMint
                    sides == IF view[i].data.adapter = BuyKind THEN <<USDC_MINT, mint>>
                             ELSE <<mint, USDC_MINT>>
                    all   == UNION {Effects(view[j]) : j \in DOMAIN view}
                    rest  == {e \in all : e.what # "create"}
                IN  \E trade \in rest :
                      /\ rest = {trade}
                      /\ trade.what = "trade"
                      /\ trade.signed /\ trade.fees = 0
                      /\ <<trade.pays, trade.gets>> = sides
                      /\ trade.from = Ata(trade.owner, trade.pays, TokenProgramOf(trade.pays))
                      /\ trade.to = Ata(trade.owner, trade.gets, TokenProgramOf(trade.gets))
                      /\ \A e \in all \ rest : e.account = trade.to

\* buildGuardedJupiterTrade: the client never builds a guard the program would
\* refuse, nor a trade whose binding createExecutionPlan would refuse: a purchase is
\* the trade of the quote its build gave.  Kind 1 has no refusal of accounts the
\* runtime demotes.
BuiltIsAccepted ==
    (outcome # None /\ edits = 0 /\ table = LookedUp) =>
        /\ \/ outcome.verdict = "Ok"
           \/ built.kind = TransferKind /\ Demoted(tx.instructions, tx.feePayer) # {}
        /\ built.kind # TransferKind => IsDownstreamBinding(built.binding)
        /\ built.kind = BuyKind => IsTradeOfQuote(built.binding, built.quote, Equity)

\* verifyProtectedSwap: what it passes the program accepts, and what it refuses the
\* program refuses with the same error, unless the runtime demotes an account or
\* the table is not the reported one.  verifyWalletSignedTransaction: what it
\* passes the program accepts too, with the one guard at the index it returned,
\* where the pages expect the failure.
ClientMirrorsProgram ==
    (outcome # None /\ client # None /\ table = LookedUp) =>
        LET demoted == Demoted(tx.instructions, tx.feePayer) # {}
            index   == VerifyWalletSignedTransaction(built, tx).guardInstructionIndex
        IN  IF built.kind # TransferKind
            THEN /\ client = "Ok" => outcome.verdict = "Ok"
                 /\ (client \notin {"Ok", "GUARD_INSTRUCTION_CHANGED"} /\ ~demoted)
                      => outcome.verdict = client
            ELSE client = "Ok" =>
                 /\ outcome.verdict = "Ok" \/ demoted
                 /\ built.tx.instructions[1].program = GuardProgram =>
                      Invocations(outcome.view) = {index + 1}
===============================================================================
