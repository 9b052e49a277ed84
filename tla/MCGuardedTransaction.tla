-------------------------- MODULE MCGuardedTransaction --------------------------
(* Values of the constants of GuardedTransaction for TLC: a wallet and another     *)
(* key, their token accounts, two transfers, and builds of every supported shape   *)
(* and of some that are refused.                                                   *)
EXTENDS GuardedTransaction

MCAta(owner, mint, program) ==
    CASE <<owner, mint, program>> = <<"wallet", "EQ", "Token-2022">> -> "wallet EQ"
      [] <<owner, mint, program>> = <<"wallet", "USDC", "Token">>    -> "wallet USDC"
      [] <<owner, mint, program>> = <<"other", "EQ", "Token-2022">>  -> "other EQ"
      [] <<owner, mint, program>> = <<"other", "USDC", "Token">>     -> "other USDC"
      [] OTHER                                                       -> "another ATA"

MCDecode(mint) == IF mint = Equity THEN "Ok" ELSE "InvalidMintOwner"

R(a) == Meta(a, FALSE, FALSE)
W(a) == Meta(a, FALSE, TRUE)
S(a) == Meta(a, TRUE, FALSE)
WS(a) == Meta(a, TRUE, TRUE)

Transfer(mint, to) ==
    Instruction("Token-2022", <<W("wallet EQ"), R(mint), W(to), S("wallet")>>,
                [tag |-> "TransferChecked", amount |-> 1])

\* Pays lamports out of the wallet, which is thereby writable.
Tip == Instruction("System", <<WS("wallet"), W("other")>>, [tag |-> "Transfer"])

MCTransfers == {Transfer("EQ", "other EQ"), Transfer("EQ", "Token-2022"), Transfer("USDC", "other EQ")}
MCBefores == {<<Tip>>}

Price == Instruction("ComputeBudget", <<>>, [tag |-> "SetComputeUnitPrice", value |-> 5])
Limit(units) == Instruction("ComputeBudget", <<>>, [tag |-> "SetComputeUnitLimit", value |-> units])

Setup(payer) ==
    Instruction("AToken", <<WS(payer), W("wallet EQ"), R("wallet"), R("EQ"), R("System"),
                            R("Token-2022")>>, [tag |-> "CreateIdempotent"])

RouteData(in, out) ==
    [tag |-> "route_v2", inAmount |-> in, quotedOutAmount |-> out, slippageBps |-> 50,
     platformFeeBps |-> 0, positiveSlippageBps |-> 0, routePlanLen |-> 1]

Swap(from, to, inMint, outMint, inProgram, outProgram) ==
    Instruction("JUP6", <<S("wallet"), W(from), W(to), R(inMint), R(outMint), R(inProgram),
                          R(outProgram), R("JUP6"), R("JUP6 event authority"), R("JUP6"),
                          W("venue")>>, RouteData(3, 200))

Buy == Swap("wallet USDC", "wallet EQ", "USDC", "EQ", "Token", "Token-2022")
Sell == Swap("wallet EQ", "wallet USDC", "EQ", "USDC", "Token-2022", "Token")

\* 199 = ceil(200 * 9950 / 10000)
BuildOf(in, out, budget, setups, swap) ==
    [inputMint |-> in, outputMint |-> out, extras |-> FALSE, budget |-> budget,
     setups |-> setups, swap |-> swap, swapMode |-> "ExactIn", inAmount |-> 3,
     outAmount |-> 200, slippageBps |-> 50, otherAmountThreshold |-> 199, oversized |-> FALSE]

BuyBuild == BuildOf("USDC", "EQ", <<Price>>, <<Setup("wallet")>>, Buy)

MCBuilds ==
    {BuyBuild,
     BuildOf("EQ", "USDC", <<Price, Limit(7)>>, <<>>, Sell),
     [BuyBuild EXCEPT !.oversized = TRUE],
     [BuyBuild EXCEPT !.extras = TRUE],
     [BuyBuild EXCEPT !.otherAmountThreshold = 198],
     [BuyBuild EXCEPT !.swap.accounts[10] = W("JUP6")],
     [BuyBuild EXCEPT !.swap.accounts[8] = W("other EQ")]}

MCEditData(data) ==
    CASE data.tag = "guard" ->
           {[data EXCEPT !.version = 1], [data EXCEPT !.expectedMint = "USDC"]}
             \cup {[data EXCEPT !.adapter = k] : k \in 1 .. 4 \ {data.adapter}}
      [] data.tag = "route_v2" ->
           {[data EXCEPT !.inAmount = 0], [data EXCEPT !.inAmount = 9],
            [data EXCEPT !.slippageBps = 10001], [data EXCEPT !.platformFeeBps = 1],
            [data EXCEPT !.routePlanLen = 0], [tag |-> "shared_route"]}
      [] data.tag = "SetComputeUnitPrice" -> {[data EXCEPT !.tag = "SetComputeUnitLimit"]}
      [] data.tag = "SetComputeUnitLimit" -> {[data EXCEPT !.value = 8]}
      [] data.tag = "CreateIdempotent" -> {[data EXCEPT !.tag = "Create"]}
      [] data.tag = "TransferChecked" -> {[data EXCEPT !.amount = 2], [data EXCEPT !.tag = "Transfer"]}
      [] OTHER -> {}

\* A wallet adds Limit and Price in front.
MCExtraInstructions == {Tip, Transfer("EQ", "other EQ"), Buy, Price, Limit(7)}
===============================================================================
