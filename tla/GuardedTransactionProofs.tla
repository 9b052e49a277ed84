------------------------ MODULE GuardedTransactionProofs ------------------------
(***************************************************************************)
(* The guarded transaction, for every protected mint, every set of transfers, *)
(* builds, payers and edits, and any number of edits: what is accepted is     *)
(* what was committed to, what is built is accepted, and the client's answer  *)
(* is the program's.                                                          *)
(***************************************************************************)
EXTENDS GuardedTransaction, SequenceTheorems, FiniteSetTheorems, WellFoundedInduction, TLAPS

\* The client's two copies, jupiterSuffixCommitment and checkJupiterSuffix of
\* jupiter.ts, agree with the program's on every suffix, adapter and mint.
LEMMA ClientCommitmentIsPrograms ==
    ASSUME NEW suffix
    PROVE  ClientSuffixCommitment(suffix) = JupiterSuffixCommitment(suffix)
  BY DEF ClientSuffixCommitment, JupiterSuffixCommitment

LEMMA ClientRouteIsPrograms ==
    ASSUME NEW trade, NEW adapter, NEW mint
    PROVE  RouteVerdict(trade, adapter, mint) = CheckRoute(trade, adapter, mint)
  BY Zenon DEF RouteVerdict, CheckRoute, Route, ProtectedSide

LEMMA ClientSetupIsPrograms ==
    ASSUME NEW setup, NEW route
    PROVE  SetupVerdict(setup, route) = CheckSetup(setup, route)
  BY DEF SetupVerdict, CheckSetup

LEMMA ClientGrammarIsPrograms ==
    ASSUME NEW suffix, NEW adapter, NEW mint
    PROVE  CheckJupiterSuffix(suffix, adapter, mint) = CheckSuffix(suffix, adapter, mint)
  BY ClientRouteIsPrograms, ClientSetupIsPrograms
     DEF CheckJupiterSuffix, CheckSuffix, ComputeBudgetVerdict, CheckComputeBudget, CanonicalAtas

\* Sequences whatever their elements are.
LEMMA SequenceFacts ==
    ASSUME NEW s, IsSequence(s)
    PROVE  /\ Len(s) \in Nat
           /\ DOMAIN s = 1 .. Len(s)
           /\ s = [i \in 1 .. Len(s) |-> s[i]]
  <1>1. s \in Seq({s[i] : i \in DOMAIN s})
    BY DEF IsSequence
  <1>2. Len(s) \in Nat /\ s \in [1 .. Len(s) -> {s[i] : i \in DOMAIN s}] /\ DOMAIN s = 1 .. Len(s)
    BY <1>1, LenProperties
  <1> QED
    BY <1>2

LEMMA FunctionIsSequence ==
    ASSUME NEW n \in Nat, NEW s, s = [i \in 1 .. n |-> s[i]]
    PROVE  IsSequence(s) /\ Len(s) = n /\ DOMAIN s = 1 .. n
  <1> DEFINE S == {s[i] : i \in DOMAIN s}
  <1>1. DOMAIN s = 1 .. n
    OBVIOUS
  <1>2. s \in [1 .. n -> S]
    BY <1>1
  <1>3. s \in Seq(S)
    BY <1>2, SeqDef
  <1>4. Len(s) \in Nat /\ DOMAIN s = 1 .. Len(s)
    BY <1>3, LenProperties
  <1>5. Len(s) = n
    BY <1>1, <1>4
  <1> QED
    BY <1>1, <1>3, <1>5 DEF IsSequence

LEMMA SequencesEqual ==
    ASSUME NEW s, IsSequence(s), NEW t, IsSequence(t), Len(s) = Len(t),
           \A i \in 1 .. Len(s) : s[i] = t[i]
    PROVE  s = t
  BY SequenceFacts

\* Any two sequences are sequences over a common set.
LEMMA CommonSet ==
    ASSUME NEW s, IsSequence(s), NEW t, IsSequence(t)
    PROVE  \E S : s \in Seq(S) /\ t \in Seq(S)
  <1> DEFINE A == {s[i] : i \in DOMAIN s}
             B == {t[i] : i \in DOMAIN t}
  <1>1. s \in Seq(A) /\ t \in Seq(B)
    BY DEF IsSequence
  <1> HIDE DEF A, B
  <1>2. s \in Seq(A \cup B) /\ t \in Seq(A \cup B)
    BY <1>1, SeqMonotonic
  <1> QED
    BY <1>2

LEMMA SequenceOver ==
    ASSUME NEW S, NEW s \in Seq(S)
    PROVE  IsSequence(s)
  <1>1. Len(s) \in Nat /\ s \in [1 .. Len(s) -> S]
    BY LenProperties
  <1> QED
    BY <1>1, FunctionIsSequence

\* Names for what the provers would otherwise expand.
Cat(s, t) == s \o t

Slice(s, m, n) == SubSeq(s, m, n)

LEMMA ConcatSequences ==
    ASSUME NEW s, IsSequence(s), NEW t, IsSequence(t)
    PROVE  /\ IsSequence(Cat(s, t))
           /\ Len(Cat(s, t)) = Len(s) + Len(t)
           /\ DOMAIN Cat(s, t) = 1 .. Len(s) + Len(t)
           /\ \A i \in 1 .. Len(s) : Cat(s, t)[i] = s[i]
           /\ \A i \in 1 .. Len(t) : Cat(s, t)[Len(s) + i] = t[i]
  <1> DEFINE r == Cat(s, t)
  <1>1. PICK S : s \in Seq(S) /\ t \in Seq(S)
    BY CommonSet
  <1>2. /\ r \in Seq(S)
        /\ Len(r) = Len(s) + Len(t)
        /\ \A i \in 1 .. Len(s) + Len(t) : r[i] = IF i <= Len(s) THEN s[i] ELSE t[i - Len(s)]
    BY <1>1, ConcatProperties DEF Cat
  <1>3. IsSequence(r)
    BY <1>2, SequenceOver
  <1>4. Len(s) \in Nat /\ Len(t) \in Nat
    BY SequenceFacts
  <1>5. DOMAIN r = 1 .. Len(s) + Len(t)
    BY <1>2, <1>3, SequenceFacts
  <1>6. \A i \in 1 .. Len(s) : r[i] = s[i]
    <2> TAKE i \in 1 .. Len(s)
    <2>1. i \in 1 .. Len(s) + Len(t) /\ i <= Len(s)
      BY <1>4
    <2> QED
      BY <1>2, <2>1
  <1>7. \A i \in 1 .. Len(t) : r[Len(s) + i] = t[i]
    <2> TAKE i \in 1 .. Len(t)
    <2>1. /\ Len(s) + i \in 1 .. Len(s) + Len(t)
          /\ ~(Len(s) + i <= Len(s))
          /\ (Len(s) + i) - Len(s) = i
      BY <1>4
    <2>2. r[Len(s) + i] = IF Len(s) + i <= Len(s) THEN s[Len(s) + i] ELSE t[(Len(s) + i) - Len(s)]
      BY <1>2, <2>1
    <2> QED
      BY <2>1, <2>2
  <1> QED
    BY <1>2, <1>3, <1>5, <1>6, <1>7

LEMMA SubSequence ==
    ASSUME NEW s, IsSequence(s), NEW m \in Nat, NEW n \in Nat, 1 <= m, n <= Len(s)
    PROVE  /\ IsSequence(Slice(s, m, n))
           /\ Len(Slice(s, m, n)) = IF m <= n THEN n - m + 1 ELSE 0
           /\ \A i \in 1 .. n - m + 1 : Slice(s, m, n)[i] = s[m + i - 1]
  <1> DEFINE t == Slice(s, m, n)
  <1> DEFINE S == {s[i] : i \in DOMAIN s}
  <1>1. \A i \in m .. n : s[i] \in S
    BY SequenceFacts
  <1>2. /\ t \in Seq(S)
        /\ Len(t) = IF m <= n THEN n - m + 1 ELSE 0
        /\ \A i \in 1 .. n - m + 1 : t[i] = s[m + i - 1]
    BY <1>1, SubSeqProperties DEF Slice
  <1> QED
    BY <1>2, SequenceOver

LEMMA TailSequence ==
    ASSUME NEW s, IsSequence(s), Len(s) # 0
    PROVE  /\ IsSequence(Tail(s))
           /\ Len(Tail(s)) = Len(s) - 1
           /\ DOMAIN Tail(s) = 1 .. Len(s) - 1
           /\ \A i \in 1 .. Len(s) - 1 : Tail(s)[i] = s[i + 1]
  <1> DEFINE S == {s[i] : i \in DOMAIN s}
  <1>1. s \in Seq(S)
    BY DEF IsSequence
  <1>2. s # << >>
    BY EmptySeq
  <1> HIDE DEF S
  <1>3. /\ Tail(s) \in Seq(S)
        /\ Len(Tail(s)) = Len(s) - 1
        /\ \A i \in 1 .. Len(Tail(s)) : Tail(s)[i] = s[i + 1]
    BY <1>1, <1>2, HeadTailProperties
  <1>4. IsSequence(Tail(s))
    BY <1>3, SequenceOver
  <1> QED
    BY <1>3, <1>4, SequenceFacts

\* A nonempty set of positions has a first.
LEMMA FirstPosition ==
    ASSUME NEW S \in SUBSET Nat, S # {}
    PROVE  \E i \in S : \A j \in S : i <= j
  <1> DEFINE R == {x \in Nat \X Nat : x[1] < x[2]}
  <1>1. IsWellFoundedOn(R, Nat)
    BY NatLessThanWellFounded, Zenon DEF OpToRel
  <1>2. \A x : x \in R <=> x \in Nat \X Nat /\ x[1] < x[2]
    OBVIOUS
  <1> HIDE DEF R
  <1>3. PICK i \in S : \A j \in S : <<j, i>> \notin R
    BY <1>1, WFMin
  <1>4. \A j \in S : j \in Nat /\ i \in Nat /\ ~(j < i)
    BY <1>2, <1>3
  <1>5. \A j \in S : i <= j
    BY <1>4
  <1> QED
    BY <1>5
-------------------------------------------------------------------------------
\* Instructions and lists of them.
LEMMA MakeInstruction ==
    ASSUME NEW program, NEW accounts, NEW data, IsSequence(accounts),
           \A j \in DOMAIN accounts :
              accounts[j] = Meta(accounts[j].address, accounts[j].signer, accounts[j].writable)
    PROVE  /\ IsInstruction(Instruction(program, accounts, data))
           /\ Instruction(program, accounts, data).program = program
           /\ Instruction(program, accounts, data).accounts = accounts
           /\ Instruction(program, accounts, data).data = data
  BY DEF IsInstruction, Instruction

LEMMA MetaFields ==
    ASSUME NEW a, NEW s, NEW w
    PROVE  /\ Meta(a, s, w).address = a
           /\ Meta(a, s, w).signer = s
           /\ Meta(a, s, w).writable = w
  BY DEF Meta

\* A list whose instructions all come from lists or are instructions.
LEMMA ListElements ==
    ASSUME NEW list, IsInstructionList(list)
    PROVE  /\ Len(list) \in Nat
           /\ DOMAIN list = 1 .. Len(list)
           /\ list = [i \in 1 .. Len(list) |-> list[i]]
           /\ \A i \in 1 .. Len(list) : IsInstruction(list[i])
  BY SequenceFacts DEF IsInstructionList

LEMMA ConcatLists ==
    ASSUME NEW s, IsInstructionList(s), NEW t, IsInstructionList(t)
    PROVE  /\ IsInstructionList(Cat(s, t))
           /\ \A k \in DOMAIN Cat(s, t) : \/ \E i \in DOMAIN s : Cat(s, t)[k] = s[i]
                                  \/ \E i \in DOMAIN t : Cat(s, t)[k] = t[i]
  <1> DEFINE r == Cat(s, t)
  <1>1. IsSequence(s) /\ IsSequence(t)
    BY DEF IsInstructionList
  <1>2. /\ IsSequence(r)
        /\ DOMAIN r = 1 .. Len(s) + Len(t)
        /\ \A i \in 1 .. Len(s) : r[i] = s[i]
        /\ \A i \in 1 .. Len(t) : r[Len(s) + i] = t[i]
    BY <1>1, ConcatSequences
  <1>3. /\ Len(s) \in Nat /\ DOMAIN s = 1 .. Len(s)
        /\ Len(t) \in Nat /\ DOMAIN t = 1 .. Len(t)
    BY <1>1, SequenceFacts
  <1>4. ASSUME NEW k \in DOMAIN r
        PROVE  (\E i \in DOMAIN s : r[k] = s[i]) \/ (\E i \in DOMAIN t : r[k] = t[i])
    <2>1. CASE k \in 1 .. Len(s)
      BY <1>2, <1>3, <2>1
    <2>2. CASE k \notin 1 .. Len(s)
      <3> DEFINE i == k - Len(s)
      <3>1. i \in 1 .. Len(t) /\ Len(s) + i = k
        BY <1>2, <1>3, <2>2
      <3>2. r[k] = t[i]
        BY <1>2, <3>1
      <3> QED
        BY <1>3, <3>1, <3>2
    <2> QED
      BY <2>1, <2>2
  <1>5. \A k \in DOMAIN r : IsInstruction(r[k])
    BY <1>4 DEF IsInstructionList
  <1> QED
    BY <1>2, <1>4, <1>5 DEF IsInstructionList

LEMMA SubList ==
    ASSUME NEW s, IsInstructionList(s), NEW m \in Nat, NEW n \in Nat, 1 <= m, n <= Len(s)
    PROVE  /\ IsInstructionList(Slice(s, m, n))
           /\ \A k \in DOMAIN Slice(s, m, n) : \E i \in DOMAIN s : Slice(s, m, n)[k] = s[i]
  <1> DEFINE t == Slice(s, m, n)
  <1>1. IsSequence(s)
    BY DEF IsInstructionList
  <1>2. /\ IsSequence(t)
        /\ Len(t) = IF m <= n THEN n - m + 1 ELSE 0
        /\ \A i \in 1 .. n - m + 1 : t[i] = s[m + i - 1]
    BY <1>1, SubSequence
  <1>3. DOMAIN t = 1 .. Len(t) /\ DOMAIN s = 1 .. Len(s) /\ Len(s) \in Nat
    BY <1>1, <1>2, SequenceFacts
  <1>4. ASSUME NEW k \in DOMAIN t
        PROVE  \E i \in DOMAIN s : t[k] = s[i]
    <2>1. k \in 1 .. n - m + 1
      BY <1>2, <1>3
    <2>2. m + k - 1 \in DOMAIN s
      BY <1>3, <2>1
    <2> QED
      BY <1>2, <2>1, <2>2
  <1>5. \A k \in DOMAIN t : IsInstruction(t[k])
    BY <1>4 DEF IsInstructionList
  <1> QED
    BY <1>2, <1>4, <1>5 DEF IsInstructionList

LEMMA OneInstruction ==
    ASSUME NEW i, IsInstruction(i)
    PROVE  /\ IsInstructionList(<<i>>) /\ Len(<<i>>) = 1 /\ DOMAIN <<i>> = {1} /\ <<i>>[1] = i
  <1>1. <<i>> = [k \in 1 .. 1 |-> <<i>>[k]] /\ DOMAIN <<i>> = {1} /\ <<i>>[1] = i
    OBVIOUS
  <1>2. IsSequence(<<i>>) /\ Len(<<i>>) = 1
    BY <1>1, FunctionIsSequence
  <1> QED
    BY <1>1, <1>2 DEF IsInstructionList

LEMMA TwoInstructions ==
    ASSUME NEW i, IsInstruction(i), NEW j, IsInstruction(j)
    PROVE  /\ IsInstructionList(<<i, j>>) /\ Len(<<i, j>>) = 2 /\ DOMAIN <<i, j>> = 1 .. 2
           /\ <<i, j>>[1] = i /\ <<i, j>>[2] = j
  <1>1. /\ <<i, j>> = [k \in 1 .. 2 |-> <<i, j>>[k]] /\ DOMAIN <<i, j>> = 1 .. 2
        /\ <<i, j>>[1] = i /\ <<i, j>>[2] = j
    OBVIOUS
  <1>2. IsSequence(<<i, j>>) /\ Len(<<i, j>>) = 2
    BY <1>1, FunctionIsSequence
  <1> QED
    BY <1>1, <1>2 DEF IsInstructionList

LEMMA TailList ==
    ASSUME NEW s, IsInstructionList(s), Len(s) # 0
    PROVE  IsInstructionList(Tail(s))
  <1>1. IsSequence(s)
    BY DEF IsInstructionList
  <1>2. /\ IsSequence(Tail(s))
        /\ DOMAIN Tail(s) = 1 .. Len(s) - 1
        /\ \A i \in 1 .. Len(s) - 1 : Tail(s)[i] = s[i + 1]
    BY <1>1, TailSequence
  <1>3. Len(s) \in Nat /\ DOMAIN s = 1 .. Len(s)
    BY <1>1, SequenceFacts
  <1>4. ASSUME NEW i \in DOMAIN Tail(s)
        PROVE  IsInstruction(Tail(s)[i])
    <2>1. i + 1 \in DOMAIN s /\ Tail(s)[i] = s[i + 1]
      BY <1>2, <1>3
    <2> QED
      BY <2>1 DEF IsInstructionList
  <1> QED
    BY <1>2, <1>4 DEF IsInstructionList

\* The wire format never changes the instructions, only what is shown of their flags.
LEMMA FlaggedList ==
    ASSUME NEW list, IsInstructionList(list), NEW signers, NEW writables,
           NEW view, view = WithFlags(list, signers, writables)
    PROVE  /\ IsInstructionList(view)
           /\ Len(view) = Len(list) /\ DOMAIN view = DOMAIN list
           /\ \A i \in DOMAIN list :
                /\ view[i].program = list[i].program
                /\ view[i].data = list[i].data
                /\ Len(view[i].accounts) = Len(list[i].accounts)
                /\ DOMAIN view[i].accounts = DOMAIN list[i].accounts
                /\ \A j \in DOMAIN list[i].accounts :
                     /\ view[i].accounts[j].address = list[i].accounts[j].address
                     /\ view[i].accounts[j] = Meta(list[i].accounts[j].address,
                                                   list[i].accounts[j].address \in signers,
                                                   list[i].accounts[j].address \in writables)
  <1> DEFINE accounts(i) == [j \in DOMAIN list[i].accounts |->
                              Meta(list[i].accounts[j].address,
                                   list[i].accounts[j].address \in signers,
                                   list[i].accounts[j].address \in writables)]
  <1>1. Len(list) \in Nat /\ DOMAIN list = 1 .. Len(list)
    BY ListElements
  <1>2. view = [i \in DOMAIN list |-> Instruction(list[i].program, accounts(i), list[i].data)]
    BY DEF WithFlags
  <1>3. view = [i \in 1 .. Len(list) |-> view[i]] /\ DOMAIN view = DOMAIN list
    BY <1>1, <1>2
  <1>4. IsSequence(view) /\ Len(view) = Len(list)
    BY <1>1, <1>3, FunctionIsSequence
  <1>5. ASSUME NEW i \in DOMAIN list
        PROVE  /\ IsInstruction(view[i])
               /\ view[i].program = list[i].program
               /\ view[i].data = list[i].data
               /\ Len(view[i].accounts) = Len(list[i].accounts)
               /\ DOMAIN view[i].accounts = DOMAIN list[i].accounts
               /\ view[i].accounts = accounts(i)
    <2>1. IsSequence(list[i].accounts)
      BY DEF IsInstructionList, IsInstruction
    <2>2. Len(list[i].accounts) \in Nat /\ DOMAIN list[i].accounts = 1 .. Len(list[i].accounts)
      BY <2>1, SequenceFacts
    <2>3. accounts(i) = [j \in 1 .. Len(list[i].accounts) |-> accounts(i)[j]]
      BY <2>2
    <2>4. /\ IsSequence(accounts(i)) /\ Len(accounts(i)) = Len(list[i].accounts)
          /\ DOMAIN accounts(i) = DOMAIN list[i].accounts
      BY <2>2, <2>3, FunctionIsSequence
    <2>5. \A j \in DOMAIN accounts(i) :
            accounts(i)[j] = Meta(accounts(i)[j].address, accounts(i)[j].signer, accounts(i)[j].writable)
      BY MetaFields
    <2>6. view[i] = Instruction(list[i].program, accounts(i), list[i].data)
      BY <1>2
    <2> HIDE DEF accounts
    <2> QED
      BY <2>4, <2>5, <2>6, MakeInstruction
  <1>6. IsInstructionList(view)
    BY <1>3, <1>4, <1>5 DEF IsInstructionList
  <1>7. ASSUME NEW i \in DOMAIN list, NEW j \in DOMAIN list[i].accounts
        PROVE  /\ view[i].accounts[j].address = list[i].accounts[j].address
               /\ view[i].accounts[j] = Meta(list[i].accounts[j].address,
                                             list[i].accounts[j].address \in signers,
                                             list[i].accounts[j].address \in writables)
    <2> DEFINE a == list[i].accounts[j].address
    <2>1. view[i].accounts[j] = Meta(a, a \in signers, a \in writables)
      BY <1>5
    <2> QED
      BY <2>1, MetaFields
  <1> HIDE DEF accounts
  <1> QED
    BY <1>3, <1>4, <1>5, <1>6, <1>7
-------------------------------------------------------------------------------
\* What the guard invoked by the i-th instruction answers.
InvocationVerdict(view, i) ==
    AssertSafeTransaction(view, i, view[i].accounts, view[i].data, Decode, "Ok")

\* processor.rs: an error of any guard fails the transaction, so in a transaction
\* that passes there is a guard and all of them accept.
LEMMA AllGuardsAccept ==
    ASSUME NEW view, IsInstructionList(view), ProgramVerdict(view, "Ok") = "Ok"
    PROVE  /\ Invocations(view) # {}
           /\ \A i \in Invocations(view) : InvocationVerdict(view, i) = "Ok"
  <1> DEFINE verdict == [i \in Invocations(view) |-> InvocationVerdict(view, i)]
             failing == {i \in Invocations(view) : verdict[i] # "Ok"}
             first   == CHOOSE i \in failing : \A j \in failing : i <= j
  <1>1. ProgramVerdict(view, "Ok") = IF Invocations(view) = {} THEN "Unguarded"
                                     ELSE IF failing = {} THEN "Ok" ELSE verdict[first]
    BY Zenon DEF ProgramVerdict, InvocationVerdict
  <1>2. Invocations(view) # {}
    BY <1>1
  <1>3. failing = {}
    <2> SUFFICES ASSUME failing # {}
                 PROVE  FALSE
      OBVIOUS
    <2>1. Invocations(view) \subseteq Nat
      BY ListElements DEF Invocations
    <2>2. failing \subseteq Nat
      BY <2>1
    <2>3. \E i \in failing : \A j \in failing : i <= j
      <3> HIDE DEF failing
      <3> QED
        BY <2>2, FirstPosition
    <2>4. first \in failing
      <3> HIDE DEF failing
      <3> QED
        BY <2>3
    <2>5. verdict[first] # "Ok"
      BY <2>4
    <2> QED
      BY <1>1, <1>2, <2>5
  <1>4. \A i \in Invocations(view) : verdict[i] = "Ok"
    BY <1>3
  <1> QED
    BY <1>2, <1>4

LEMMA NoGuardFails ==
    ASSUME NEW view, Invocations(view) # {},
           \A i \in Invocations(view) : InvocationVerdict(view, i) = "Ok"
    PROVE  ProgramVerdict(view, "Ok") = "Ok"
  <1> DEFINE verdict == [i \in Invocations(view) |-> InvocationVerdict(view, i)]
             failing == {i \in Invocations(view) : verdict[i] # "Ok"}
             first   == CHOOSE i \in failing : \A j \in failing : i <= j
  <1>1. ProgramVerdict(view, "Ok") = IF Invocations(view) = {} THEN "Unguarded"
                                     ELSE IF failing = {} THEN "Ok" ELSE verdict[first]
    BY Zenon DEF ProgramVerdict, InvocationVerdict
  <1>2. failing = {}
    OBVIOUS
  <1> QED
    BY <1>1, <1>2

\* The error of a failing guard at the first position is the transaction's.
LEMMA FirstGuardFails ==
    ASSUME NEW view, IsInstructionList(view), 1 \in Invocations(view),
           InvocationVerdict(view, 1) # "Ok"
    PROVE  ProgramVerdict(view, "Ok") = InvocationVerdict(view, 1)
  <1> DEFINE verdict == [i \in Invocations(view) |-> InvocationVerdict(view, i)]
             failing == {i \in Invocations(view) : verdict[i] # "Ok"}
             first   == CHOOSE i \in failing : \A j \in failing : i <= j
  <1>1. ProgramVerdict(view, "Ok") = IF Invocations(view) = {} THEN "Unguarded"
                                     ELSE IF failing = {} THEN "Ok" ELSE verdict[first]
    BY Zenon DEF ProgramVerdict, InvocationVerdict
  <1>2. 1 \in failing
    OBVIOUS
  <1>3. \A i \in failing : i \in Nat /\ 1 <= i
    BY ListElements DEF Invocations
  <1>4. verdict[1] = InvocationVerdict(view, 1)
    OBVIOUS
  <1> HIDE DEF failing, verdict
  <1>5. first \in failing /\ first <= 1
    BY <1>2, <1>3
  <1>6. first = 1
    BY <1>3, <1>5
  <1> QED
    BY <1>1, <1>2, <1>4, <1>6

\* downstream.rs and jupiter.rs: what an accepting guard has established.
LEMMA AcceptingGuard ==
    ASSUME NEW view, NEW i, InvocationVerdict(view, i) = "Ok"
    PROVE  /\ view[i].program = GuardProgram
           /\ view[i].data.tag = "guard"
           /\ view[i].data.adapter \in {TransferKind, BuyKind, SellKind}
           /\ Decode(view[i].data.expectedMint) = "Ok"
           /\ view[i].data.adapter = TransferKind =>
                i # Len(view) /\ DownstreamCommitment(view[i + 1]) = view[i].data.commitment
           /\ view[i].data.adapter # TransferKind =>
                /\ i = 1
                /\ CheckSuffix(Tail(view), view[i].data.adapter, view[i].data.expectedMint) = "Ok"
                /\ JupiterSuffixCommitment(Tail(view)) = view[i].data.commitment
  <1> DEFINE data == view[i].data
  <1>1. /\ Unpack(data) = "Ok"
        /\ Decode(data.expectedMint) = "Ok"
        /\ VerifyDownstream(view, i, data) = "Ok"
    BY DEF InvocationVerdict, AssertSafeTransaction
  <1>2. data.tag = "guard" /\ data.adapter \in {TransferKind, BuyKind, SellKind}
    BY <1>1 DEF Unpack
  <1>3. /\ view[i].program = GuardProgram
        /\ data.adapter = TransferKind => VerifyTransferChecked(view, i, data) = "Ok"
        /\ data.adapter # TransferKind => VerifyJupiterSuffix(view, i, data) = "Ok"
    BY <1>1 DEF VerifyDownstream
  <1>4. ASSUME data.adapter = TransferKind
        PROVE  i # Len(view) /\ DownstreamCommitment(view[i + 1]) = data.commitment
    BY <1>3, <1>4 DEF VerifyTransferChecked
  <1>5. ASSUME data.adapter # TransferKind
        PROVE  /\ i = 1
               /\ CheckSuffix(Tail(view), data.adapter, data.expectedMint) = "Ok"
               /\ JupiterSuffixCommitment(Tail(view)) = data.commitment
    BY <1>3, <1>5 DEF VerifyJupiterSuffix
  <1> QED
    BY <1>1, <1>2, <1>3, <1>4, <1>5
-------------------------------------------------------------------------------
\* jupiter.rs check_suffix, check_route and check_setup: the grammar.
LEMMA AcceptedSuffix ==
    ASSUME NEW suffix, NEW adapter, NEW mint, CheckSuffix(suffix, adapter, mint) = "Ok",
           NEW trade, trade = suffix[Len(suffix)]
    PROVE  /\ Len(suffix) \in {3, 4}
           /\ suffix[1].program = COMPUTE_BUDGET_PROGRAM_ID
           /\ suffix[2].program = COMPUTE_BUDGET_PROGRAM_ID
           /\ Len(suffix) = 4 => /\ suffix[3].program = ASSOCIATED_TOKEN_PROGRAM_ID
                                 /\ CheckSetup(suffix[3], Route(trade)) = "Ok"
           /\ trade.program = JUPITER_PROGRAM_ID
           /\ CheckRoute(trade, adapter, mint) = "Ok"
           /\ trade.accounts[2].address =
                Ata(trade.accounts[1].address, trade.accounts[4].address, trade.accounts[6].address)
           /\ trade.accounts[3].address =
                Ata(trade.accounts[1].address, trade.accounts[5].address, trade.accounts[7].address)
  BY DEF CheckSuffix, CheckComputeBudget, Route

LEMMA AcceptedRoute ==
    ASSUME NEW trade, IsInstruction(trade), NEW adapter, NEW mint,
           CheckRoute(trade, adapter, mint) = "Ok"
    PROVE  /\ Len(trade.accounts) >= Fixed
           /\ trade.data.tag = "route_v2"
           /\ trade.accounts[1].signer
           /\ trade.accounts[8].address = JUPITER_PROGRAM_ID
           /\ trade.data.platformFeeBps = 0 /\ trade.data.positiveSlippageBps = 0
           /\ trade.data.inAmount > 0 /\ trade.data.quotedOutAmount > 0
           /\ trade.data.slippageBps <= MAX_SLIPPAGE_BPS
           /\ ProtectedSide(Route(trade), adapter)
                = <<mint, TOKEN_2022_PROGRAM_ID, USDC_MINT, LEGACY_TOKEN_PROGRAM_ID>>
  <1> DEFINE side == ProtectedSide(Route(trade), adapter)
  <1>1. Len(trade.accounts) \in Nat
    BY SequenceFacts DEF IsInstruction
  <1>2. ~(Len(trade.accounts) < Fixed) /\ trade.data.tag = "route_v2"
    BY DEF CheckRoute
  <1>3. /\ trade.accounts[1].signer
        /\ trade.accounts[8].address = JUPITER_PROGRAM_ID
        /\ trade.data.platformFeeBps = 0 /\ trade.data.positiveSlippageBps = 0
        /\ trade.data.inAmount > 0 /\ trade.data.quotedOutAmount > 0
        /\ trade.data.slippageBps <= MAX_SLIPPAGE_BPS
        /\ side[1] = mint /\ side[2] = TOKEN_2022_PROGRAM_ID
        /\ side[3] = USDC_MINT /\ side[4] = LEGACY_TOKEN_PROGRAM_ID
    BY DEF CheckRoute
  <1>4. side = <<side[1], side[2], side[3], side[4]>>
    BY DEF ProtectedSide
  <1> QED
    BY <1>1, <1>2, <1>3, <1>4 DEF Fixed

\* The two sides of a route are its two mints, each with its token program.
LEMMA RouteSides ==
    ASSUME NEW trade, NEW adapter, NEW mint,
           ProtectedSide(Route(trade), adapter)
             = <<mint, TOKEN_2022_PROGRAM_ID, USDC_MINT, LEGACY_TOKEN_PROGRAM_ID>>
    PROVE  /\ adapter = BuyKind =>
                /\ trade.accounts[4].address = USDC_MINT /\ trade.accounts[5].address = mint
                /\ trade.accounts[6].address = LEGACY_TOKEN_PROGRAM_ID
                /\ trade.accounts[7].address = TOKEN_2022_PROGRAM_ID
           /\ adapter # BuyKind =>
                /\ trade.accounts[4].address = mint /\ trade.accounts[5].address = USDC_MINT
                /\ trade.accounts[6].address = TOKEN_2022_PROGRAM_ID
                /\ trade.accounts[7].address = LEGACY_TOKEN_PROGRAM_ID
  BY DEF ProtectedSide, Route

TradeOf(trade) ==
    [what |-> "trade", owner |-> trade.accounts[1].address,
     signed |-> trade.accounts[1].signer,
     from |-> trade.accounts[2].address,
     to |-> trade.accounts[3].address,
     pays |-> trade.accounts[4].address,
     gets |-> trade.accounts[5].address,
     fees |-> 0]

\* What the programs of an accepted suffix do.
LEMMA TradeEffects ==
    ASSUME NEW trade, trade.program = JUPITER_PROGRAM_ID, Len(trade.accounts) >= Fixed,
           trade.data.tag = "route_v2", trade.accounts[8].address = JUPITER_PROGRAM_ID,
           trade.data.platformFeeBps = 0, trade.data.positiveSlippageBps = 0
    PROVE  Effects(trade) = {TradeOf(trade)}
  <1>1. trade.program \notin {COMPUTE_BUDGET_PROGRAM_ID, GuardProgram}
    BY DEF COMPUTE_BUDGET_PROGRAM_ID, GuardProgram, JUPITER_PROGRAM_ID
  <1>2. trade.program # ASSOCIATED_TOKEN_PROGRAM_ID
    BY DEF ASSOCIATED_TOKEN_PROGRAM_ID, JUPITER_PROGRAM_ID
  <1>3. trade.data.platformFeeBps + trade.data.positiveSlippageBps = 0
    OBVIOUS
  <1>4. (IF trade.accounts[8].address = JUPITER_PROGRAM_ID
         THEN trade.accounts[3].address ELSE trade.accounts[8].address) = trade.accounts[3].address
    OBVIOUS
  <1> QED
    BY <1>1, <1>2, <1>3, <1>4 DEF Effects, TradeOf

LEMMA SilentEffects ==
    ASSUME NEW i, i.program \in {COMPUTE_BUDGET_PROGRAM_ID, GuardProgram}
    PROVE  Effects(i) = {}
  BY DEF Effects, COMPUTE_BUDGET_PROGRAM_ID, GuardProgram, JUPITER_PROGRAM_ID,
         ASSOCIATED_TOKEN_PROGRAM_ID

LEMMA SetupEffects ==
    ASSUME NEW setup, NEW route, setup.program = ASSOCIATED_TOKEN_PROGRAM_ID,
           CheckSetup(setup, route) = "Ok"
    PROVE  Effects(setup) = {[what |-> "create", account |-> route.destination]}
  <1>1. Len(setup.accounts) = 6 /\ setup.accounts[2].address = route.destination
    BY DEF CheckSetup
  <1> QED
    BY <1>1 DEF Effects, COMPUTE_BUDGET_PROGRAM_ID, GuardProgram, JUPITER_PROGRAM_ID,
                ASSOCIATED_TOKEN_PROGRAM_ID

\* What AcceptedIsOneOwnTrade says of one guard of a transaction.
OneOwnTrade(view, i) ==
    LET mint  == view[i].data.expectedMint
        sides == IF view[i].data.adapter = BuyKind THEN <<USDC_MINT, mint>>
                 ELSE <<mint, USDC_MINT>>
        all   == UNION {Effects(view[j]) : j \in DOMAIN view}
        rest  == {e \in all : e.what # "create"}
    IN  \E trade \in rest :
          /\ rest = {trade}
          /\ trade.what = "trade"
          /\ trade.signed /\ trade.fees = 0
          /\ <<trade.pays, trade.gets>> = sides
          /\ trade.from = Ata(trade.owner, trade.pays, TokenProgramOf(trade.pays))
          /\ trade.to = Ata(trade.owner, trade.gets, TokenProgramOf(trade.gets))
          /\ \A e \in all \ rest : e.account = trade.to

LEMMA AcceptedTradeIsOwn ==
    ASSUME NEW view, IsInstructionList(view), NEW i, i \in DOMAIN view,
           InvocationVerdict(view, i) = "Ok", view[i].data.adapter # TransferKind
    PROVE  OneOwnTrade(view, i)
  <1> DEFINE suffix  == Tail(view)
             mint    == view[i].data.expectedMint
             adapter == view[i].data.adapter
             n       == Len(view)
             trade   == view[n]
             effect  == TradeOf(trade)
             created == [what |-> "create", account |-> trade.accounts[3].address]
             all     == UNION {Effects(view[j]) : j \in DOMAIN view}
             rest    == {e \in all : e.what # "create"}
  <1>1. n \in Nat /\ DOMAIN view = 1 .. n /\ \A j \in 1 .. n : IsInstruction(view[j])
    BY ListElements
  <1>2. i = 1 /\ view[1].program = GuardProgram /\ Decode(mint) = "Ok"
        /\ CheckSuffix(suffix, adapter, mint) = "Ok"
    BY AcceptingGuard
  <1>3. /\ IsSequence(suffix) /\ Len(suffix) = n - 1
        /\ \A j \in 1 .. n - 1 : suffix[j] = view[j + 1]
    <2>1. IsSequence(view) /\ Len(view) # 0
      BY <1>1, <1>2 DEF IsInstructionList
    <2> QED
      BY <2>1, TailSequence
  <1>4. Len(suffix) \in {3, 4}
    BY <1>2, AcceptedSuffix
  <1>5. n \in {4, 5}
    BY <1>1, <1>3, <1>4
  <1>6. /\ suffix[Len(suffix)] = trade /\ suffix[1] = view[2] /\ suffix[2] = view[3]
        /\ n = 5 => suffix[3] = view[4]
    BY <1>3, <1>5
  <1> HIDE DEF suffix, mint, adapter, n, trade
  <1>7. /\ view[2].program = COMPUTE_BUDGET_PROGRAM_ID
        /\ view[3].program = COMPUTE_BUDGET_PROGRAM_ID
        /\ n = 5 => /\ view[4].program = ASSOCIATED_TOKEN_PROGRAM_ID
                    /\ CheckSetup(view[4], Route(trade)) = "Ok"
        /\ trade.program = JUPITER_PROGRAM_ID
        /\ CheckRoute(trade, adapter, mint) = "Ok"
        /\ trade.accounts[2].address =
             Ata(trade.accounts[1].address, trade.accounts[4].address, trade.accounts[6].address)
        /\ trade.accounts[3].address =
             Ata(trade.accounts[1].address, trade.accounts[5].address, trade.accounts[7].address)
    <2>1. /\ suffix[1].program = COMPUTE_BUDGET_PROGRAM_ID
          /\ suffix[2].program = COMPUTE_BUDGET_PROGRAM_ID
          /\ Len(suffix) = 4 => /\ suffix[3].program = ASSOCIATED_TOKEN_PROGRAM_ID
                                /\ CheckSetup(suffix[3], Route(trade)) = "Ok"
          /\ trade.program = JUPITER_PROGRAM_ID
          /\ CheckRoute(trade, adapter, mint) = "Ok"
          /\ trade.accounts[2].address =
               Ata(trade.accounts[1].address, trade.accounts[4].address, trade.accounts[6].address)
          /\ trade.accounts[3].address =
               Ata(trade.accounts[1].address, trade.accounts[5].address, trade.accounts[7].address)
      BY <1>2, <1>6, AcceptedSuffix
    <2>2. n = 5 => Len(suffix) = 4
      BY <1>3
    <2> QED
      BY <1>6, <2>1, <2>2
  <1>8. IsInstruction(trade)
    BY <1>1, <1>5 DEF trade
  <1>9. /\ trade.accounts[1].signer
        /\ Effects(trade) = {effect}
        /\ ProtectedSide(Route(trade), adapter)
             = <<mint, TOKEN_2022_PROGRAM_ID, USDC_MINT, LEGACY_TOKEN_PROGRAM_ID>>
    BY <1>7, <1>8, AcceptedRoute, TradeEffects
  <1>10. Effects(view[1]) = {} /\ Effects(view[2]) = {} /\ Effects(view[3]) = {}
    BY <1>2, <1>7, SilentEffects
  <1>11. n = 5 => Effects(view[4]) = {created}
    BY <1>7, SetupEffects DEF Route
  <1>12. DOMAIN view = 1 .. n /\ Effects(view[n]) = {effect}
    BY <1>1, <1>9 DEF trade
  <1>13. all = IF n = 5 THEN {created, effect} ELSE {effect}
    <2> HIDE DEF effect, created
    <2>1. CASE n = 4
      <3>1. DOMAIN view = {1, 2, 3, 4}
        BY <1>12, <2>1
      <3> QED
        BY <1>10, <1>12, <2>1, <3>1
    <2>2. CASE n = 5
      <3>1. DOMAIN view = {1, 2, 3, 4, 5}
        BY <1>12, <2>2
      <3> QED
        BY <1>10, <1>11, <1>12, <2>2, <3>1
    <2> QED
      BY <1>5, <2>1, <2>2
  <1>14. effect.what = "trade" /\ created.what = "create"
    BY DEF TradeOf
  <1>15. rest = {effect} /\ \A e \in all \ rest : e = created
    BY <1>13, <1>14
  <1>16. mint # USDC_MINT
    BY <1>2, TransactionConstants
  <1>17. /\ adapter = BuyKind =>
              /\ effect.pays = USDC_MINT /\ effect.gets = mint
              /\ trade.accounts[6].address = TokenProgramOf(effect.pays)
              /\ trade.accounts[7].address = TokenProgramOf(effect.gets)
         /\ adapter # BuyKind =>
              /\ effect.pays = mint /\ effect.gets = USDC_MINT
              /\ trade.accounts[6].address = TokenProgramOf(effect.pays)
              /\ trade.accounts[7].address = TokenProgramOf(effect.gets)
    <2>1. effect.pays = trade.accounts[4].address /\ effect.gets = trade.accounts[5].address
      BY DEF TradeOf
    <2>2. TokenProgramOf(USDC_MINT) = LEGACY_TOKEN_PROGRAM_ID
          /\ TokenProgramOf(mint) = TOKEN_2022_PROGRAM_ID
      BY <1>16 DEF TokenProgramOf
    <2> HIDE DEF effect
    <2> QED
      BY <1>9, <2>1, <2>2, RouteSides
  <1>18. /\ effect.signed /\ effect.fees = 0
         /\ effect.from = trade.accounts[2].address /\ effect.to = trade.accounts[3].address
         /\ effect.owner = trade.accounts[1].address
         /\ effect.pays = trade.accounts[4].address /\ effect.gets = trade.accounts[5].address
         /\ created.account = effect.to
    BY <1>9 DEF TradeOf
  <1>19. /\ effect.from = Ata(effect.owner, effect.pays, TokenProgramOf(effect.pays))
         /\ effect.to = Ata(effect.owner, effect.gets, TokenProgramOf(effect.gets))
    BY <1>7, <1>17, <1>18
  <1>20. <<effect.pays, effect.gets>> = IF adapter = BuyKind THEN <<USDC_MINT, mint>>
                                        ELSE <<mint, USDC_MINT>>
    BY <1>17
  <1>21. \A e \in all \ rest : e.account = effect.to
    BY <1>15, <1>18
  <1> HIDE DEF effect, created, all, rest
  <1>22. \E t \in rest : /\ rest = {t}
                         /\ t.what = "trade"
                         /\ t.signed /\ t.fees = 0
                         /\ <<t.pays, t.gets>> = IF adapter = BuyKind THEN <<USDC_MINT, mint>>
                                                 ELSE <<mint, USDC_MINT>>
                         /\ t.from = Ata(t.owner, t.pays, TokenProgramOf(t.pays))
                         /\ t.to = Ata(t.owner, t.gets, TokenProgramOf(t.gets))
                         /\ \A e \in all \ rest : e.account = t.to
    BY <1>14, <1>15, <1>18, <1>19, <1>20, <1>21
  <1> QED
    BY <1>22, Zenon DEF OneOwnTrade, all, rest, adapter, mint
-------------------------------------------------------------------------------
\* What the builders guarantee of what they return: the guard, what it commits to,
\* and no other guard.
CommitmentIn(b) ==
    IF b.kind = TransferKind THEN DownstreamCommitment(b.committed[1])
    ELSE JupiterSuffixCommitment(b.committed)

TransferBuild(b) ==
    LET list == b.tx.instructions
        n    == Len(list)
    IN  /\ b.kind = TransferKind
        /\ n >= 2
        /\ list[n - 1] = Guard(Equity, TransferKind, CommitmentIn(b))
        /\ SupportedTransferChecked(list[n])
        /\ b.committed = <<SysvarView(list, b.tx.feePayer)[n]>>
        /\ \A i \in 1 .. n - 2 : list[i].program # GuardProgram /\ list[i].data.tag # "guard"

JupiterBuild(b) ==
    LET list == b.tx.instructions
    IN  /\ b.kind \in {BuyKind, SellKind}
        /\ Len(list) >= 1
        /\ list[1] = Guard(Equity, b.kind, CommitmentIn(b))
        /\ b.committed = Tail(SysvarView(list, b.tx.feePayer))
        /\ CheckSuffix(b.committed, b.kind, Equity) = "Ok"
        /\ Demoted(list, b.tx.feePayer) = {}
        /\ b.binding = JupiterTradeBindingOf(b.committed, b.kind)
        /\ IsDownstreamBinding(b.binding)
        /\ b.kind = BuyKind => IsTradeOfQuote(b.binding, b.quote, Equity)

IsBuild(b) ==
    /\ IsInstructionList(b.tx.instructions)
    /\ TransferBuild(b) \/ JupiterBuild(b)

CarriesCommitment(list, commitment) ==
    \A i \in DOMAIN list : list[i].data.tag = "guard" => list[i].data.commitment = commitment

\* What AcceptedIsCommitted says of what the program was shown.
IsCommitted(view, b) ==
    IF b.kind = TransferKind
    THEN \E i \in 1 .. Len(view) - 1 :
           view[i].program = GuardProgram /\ view[i + 1] = b.committed[1]
    ELSE /\ Tail(view) = b.committed
         /\ \E trade \in Effects(view[Len(view)]) :
              /\ trade.owner = b.binding.authority
              /\ trade.from = b.binding.sourceTokenAccount
              /\ trade.to = b.binding.destinationTokenAccount
              /\ {trade.pays, trade.gets} = {b.binding.protectedMint, b.binding.counterMint}
         /\ view[Len(view)].data.inAmount = b.binding.inAmountRaw

\* The commitments of the two adapters are told apart by their domains, and of one
\* adapter by what they hash.
LEMMA CommitmentsAreInjective ==
    /\ \A i, j : DownstreamCommitment(i) = DownstreamCommitment(j) => i = j
    /\ \A s, t : JupiterSuffixCommitment(s) = JupiterSuffixCommitment(t) => s = t
    /\ \A i, s : DownstreamCommitment(i) # JupiterSuffixCommitment(s)
  BY DEF DownstreamCommitment, JupiterSuffixCommitment

LEMMA BindingFields ==
    ASSUME NEW committed, NEW adapter, NEW trade, trade = committed[Len(committed)],
           NEW binding, binding = JupiterTradeBindingOf(committed, adapter)
    PROVE  /\ binding.authority = trade.accounts[1].address
           /\ binding.sourceTokenAccount = trade.accounts[2].address
           /\ binding.destinationTokenAccount = trade.accounts[3].address
           /\ binding.sourceMint = trade.accounts[4].address
           /\ binding.destinationMint = trade.accounts[5].address
           /\ binding.protectedMint = ProtectedSide(Route(trade), adapter)[1]
           /\ binding.counterMint = ProtectedSide(Route(trade), adapter)[3]
           /\ binding.adapterKind = adapter
           /\ binding.inAmountRaw = trade.data.inAmount
           /\ binding.quotedOutRaw = trade.data.quotedOutAmount
           /\ binding.slippageBps = trade.data.slippageBps
           /\ binding.minOutRaw = MinimumOutFromQuote(trade.data.quotedOutAmount, trade.data.slippageBps)
           /\ binding.suffixInstructionCount = Len(committed)
  BY DEF JupiterTradeBindingOf, Route

LEMMA AcceptedWasCommitted ==
    ASSUME NEW view, IsInstructionList(view), NEW b, TransferBuild(b) \/ JupiterBuild(b),
           CarriesCommitment(view, CommitmentIn(b)), ProgramVerdict(view, "Ok") = "Ok"
    PROVE  IsCommitted(view, b)
  <1>1. PICK i \in Invocations(view) : InvocationVerdict(view, i) = "Ok"
    BY AllGuardsAccept
  <1>2. Len(view) \in Nat /\ DOMAIN view = 1 .. Len(view) /\ \A j \in 1 .. Len(view) : IsInstruction(view[j])
    BY ListElements
  <1>3. i \in 1 .. Len(view)
    BY <1>2 DEF Invocations
  <1>4. view[i].program = GuardProgram /\ view[i].data.tag = "guard"
    BY <1>1, AcceptingGuard
  <1>5. view[i].data.commitment = CommitmentIn(b)
    BY <1>2, <1>3, <1>4 DEF CarriesCommitment
  <1>6. CASE view[i].data.adapter = TransferKind
    <2>1. i # Len(view) /\ DownstreamCommitment(view[i + 1]) = view[i].data.commitment
      BY <1>1, <1>6, AcceptingGuard
    <2>2. b.kind = TransferKind
      BY <1>5, <2>1, CommitmentsAreInjective DEF CommitmentIn
    <2>3. DownstreamCommitment(view[i + 1]) = DownstreamCommitment(b.committed[1])
      BY <1>5, <2>1, <2>2 DEF CommitmentIn
    <2>4. view[i + 1] = b.committed[1]
      BY <2>3, CommitmentsAreInjective
    <2>5. i \in 1 .. Len(view) - 1
      <3>1. Len(view) \in Nat /\ i \in 1 .. Len(view) /\ i # Len(view)
        BY <1>2, <1>3, <2>1
      <3> QED
        BY <3>1
    <2> QED
      BY <1>4, <2>2, <2>4, <2>5 DEF IsCommitted
  <1>7. CASE view[i].data.adapter # TransferKind
    <2> DEFINE adapter == view[i].data.adapter
               mint    == view[i].data.expectedMint
               trade   == view[Len(view)]
    <2>1. /\ i = 1 /\ CheckSuffix(Tail(view), adapter, mint) = "Ok"
          /\ JupiterSuffixCommitment(Tail(view)) = view[i].data.commitment
      BY <1>1, <1>7, AcceptingGuard
    <2>2. b.kind # TransferKind
      BY <1>5, <2>1, CommitmentsAreInjective DEF CommitmentIn
    <2>3. JupiterSuffixCommitment(Tail(view)) = JupiterSuffixCommitment(b.committed)
      BY <1>5, <2>1, <2>2 DEF CommitmentIn
    <2>4. Tail(view) = b.committed
      BY <2>3, CommitmentsAreInjective
    <2>5. JupiterBuild(b)
      BY <2>2 DEF TransferBuild
    <2>6. b.binding = JupiterTradeBindingOf(b.committed, b.kind)
      BY <2>5 DEF JupiterBuild
    <2>7. Len(Tail(view)) \in {3, 4}
      BY <2>1, AcceptedSuffix
    <2>8. IsSequence(view) /\ Len(view) # 0
      BY <1>3 DEF IsInstructionList
    <2>9. Len(Tail(view)) = Len(view) - 1 /\ Tail(view)[Len(view) - 1] = trade
      BY <1>2, <2>7, <2>8, TailSequence
    <2>10. b.committed[Len(b.committed)] = trade
      BY <2>4, <2>9
    <2>11. IsInstruction(trade)
      BY <1>2, <2>8
    <2> HIDE DEF trade, adapter, mint
    <2>12. trade.program = JUPITER_PROGRAM_ID /\ CheckRoute(trade, adapter, mint) = "Ok"
      <3>1. CheckSuffix(b.committed, adapter, mint) = "Ok" /\ trade = b.committed[Len(b.committed)]
        BY <2>1, <2>4, <2>10
      <3> QED
        BY <3>1, AcceptedSuffix
    <2>13. Effects(trade) = {TradeOf(trade)}
      BY <2>11, <2>12, AcceptedRoute, TradeEffects
    <2>14. /\ b.binding.authority = trade.accounts[1].address
           /\ b.binding.sourceTokenAccount = trade.accounts[2].address
           /\ b.binding.destinationTokenAccount = trade.accounts[3].address
           /\ b.binding.protectedMint = ProtectedSide(Route(trade), b.kind)[1]
           /\ b.binding.counterMint = ProtectedSide(Route(trade), b.kind)[3]
           /\ b.binding.inAmountRaw = trade.data.inAmount
      BY <2>6, <2>10, BindingFields
    <2>15. {ProtectedSide(Route(trade), b.kind)[1], ProtectedSide(Route(trade), b.kind)[3]}
             = {trade.accounts[4].address, trade.accounts[5].address}
      BY DEF ProtectedSide, Route
    <2> DEFINE t == TradeOf(trade)
    <2>16. /\ t.owner = b.binding.authority
           /\ t.from = b.binding.sourceTokenAccount
           /\ t.to = b.binding.destinationTokenAccount
           /\ {t.pays, t.gets} = {b.binding.protectedMint, b.binding.counterMint}
      BY <2>14, <2>15 DEF TradeOf
    <2> HIDE DEF t
    <2>17. t \in Effects(view[Len(view)])
      BY <2>13 DEF t, trade
    <2>18. view[Len(view)].data.inAmount = b.binding.inAmountRaw
      BY <2>14 DEF trade
    <2> QED
      BY <2>2, <2>4, <2>16, <2>17, <2>18 DEF IsCommitted
  <1> QED
    BY <1>6, <1>7
-------------------------------------------------------------------------------
\* An edit makes an instruction of an instruction, and leaves the data as it is or
\* replaces it by what EditedData allows.
LEMMA InstructionFields ==
    ASSUME NEW i, IsInstruction(i)
    PROVE  /\ i = Instruction(i.program, i.accounts, i.data)
           /\ IsSequence(i.accounts)
           /\ \A j \in DOMAIN i.accounts :
                i.accounts[j] = Meta(i.accounts[j].address, i.accounts[j].signer, i.accounts[j].writable)
  BY DEF IsInstruction

LEMMA NewAccounts ==
    ASSUME NEW i, IsInstruction(i), NEW accounts, IsSequence(accounts),
           \A j \in DOMAIN accounts :
              accounts[j] = Meta(accounts[j].address, accounts[j].signer, accounts[j].writable),
           NEW new, new = [i EXCEPT !.accounts = accounts]
    PROVE  IsInstruction(new) /\ new.program = i.program /\ new.data = i.data
  <1>1. i = [program |-> i.program, accounts |-> i.accounts, data |-> i.data]
    BY InstructionFields DEF Instruction
  <1>2. new = Instruction(i.program, accounts, i.data)
    BY <1>1 DEF Instruction
  <1> QED
    BY <1>2, MakeInstruction

LEMMA NewAccount ==
    ASSUME NEW i, IsInstruction(i), NEW j \in DOMAIN i.accounts, NEW m,
           m = Meta(m.address, m.signer, m.writable),
           NEW new, new = [i EXCEPT !.accounts = [i.accounts EXCEPT ![j] = m]]
    PROVE  IsInstruction(new) /\ new.program = i.program /\ new.data = i.data
  <1> DEFINE accounts == [i.accounts EXCEPT ![j] = m]
  <1>1. IsSequence(i.accounts)
    BY InstructionFields
  <1>2. Len(i.accounts) \in Nat /\ DOMAIN i.accounts = 1 .. Len(i.accounts)
        /\ i.accounts = [k \in 1 .. Len(i.accounts) |-> i.accounts[k]]
    BY <1>1, SequenceFacts
  <1>3. accounts = [k \in 1 .. Len(i.accounts) |-> accounts[k]]
    BY <1>2
  <1>4. IsSequence(accounts) /\ DOMAIN accounts = DOMAIN i.accounts
    BY <1>2, <1>3, FunctionIsSequence
  <1>5. \A k \in DOMAIN accounts :
          accounts[k] = Meta(accounts[k].address, accounts[k].signer, accounts[k].writable)
    <2> TAKE k \in DOMAIN accounts
    <2>1. accounts[k] = IF k = j THEN m ELSE i.accounts[k]
      BY <1>2, <1>4
    <2>2. CASE k = j
      BY <2>1, <2>2
    <2>3. CASE k # j
      <3>1. accounts[k] = i.accounts[k] /\ k \in DOMAIN i.accounts
        BY <1>4, <2>1, <2>3
      <3>2. i.accounts[k] = Meta(i.accounts[k].address, i.accounts[k].signer, i.accounts[k].writable)
        BY <3>1, InstructionFields
      <3> HIDE DEF accounts
      <3> QED
        BY <3>1, <3>2
    <2> QED
      BY <2>2, <2>3
  <1> HIDE DEF accounts
  <1>6. new = [i EXCEPT !.accounts = accounts]
    BY DEF accounts
  <1> QED
    BY <1>4, <1>5, <1>6, NewAccounts

LEMMA MetaExcept ==
    ASSUME NEW m, m = Meta(m.address, m.signer, m.writable), NEW x
    PROVE  /\ [m EXCEPT !.address = x] = Meta(x, m.signer, m.writable)
           /\ [m EXCEPT !.signer = x] = Meta(m.address, x, m.writable)
           /\ [m EXCEPT !.writable = x] = Meta(m.address, m.signer, x)
  <1> DEFINE a == m.address
             s == m.signer
             w == m.writable
  <1>1. m = [address |-> a, signer |-> s, writable |-> w]
    BY DEF Meta
  <1> HIDE DEF a, s, w
  <1>2. /\ [m EXCEPT !.address = x] = [address |-> x, signer |-> s, writable |-> w]
        /\ [m EXCEPT !.signer = x] = [address |-> a, signer |-> x, writable |-> w]
        /\ [m EXCEPT !.writable = x] = [address |-> a, signer |-> s, writable |-> x]
    BY <1>1
  <1> QED
    BY <1>2 DEF Meta, a, s, w

LEMMA EditedIsInstruction ==
    ASSUME NEW i, IsInstruction(i), NEW new \in EditedInstruction(i)
    PROVE  IsInstruction(new) /\ (new.data = i.data \/ new.data \in EditedData(i.data))
  <1>1. /\ i = [program |-> i.program, accounts |-> i.accounts, data |-> i.data]
        /\ IsSequence(i.accounts)
    BY InstructionFields DEF Instruction
  <1>2. /\ Len(i.accounts) \in Nat /\ DOMAIN i.accounts = 1 .. Len(i.accounts)
        /\ i.accounts = [k \in 1 .. Len(i.accounts) |-> i.accounts[k]]
    BY <1>1, SequenceFacts
  <1>3. \A j \in DOMAIN i.accounts : \A x :
           /\ [i.accounts[j] EXCEPT !.address = x]
                = Meta(x, i.accounts[j].signer, i.accounts[j].writable)
           /\ [i.accounts[j] EXCEPT !.signer = x]
                = Meta(i.accounts[j].address, x, i.accounts[j].writable)
           /\ [i.accounts[j] EXCEPT !.writable = x]
                = Meta(i.accounts[j].address, i.accounts[j].signer, x)
    BY InstructionFields, MetaExcept
  <1>4. ASSUME NEW j \in DOMAIN i.accounts, NEW a, new = [i EXCEPT !.accounts[j].address = a]
        PROVE  IsInstruction(new) /\ new.data = i.data
    <2> DEFINE m == Meta(a, i.accounts[j].signer, i.accounts[j].writable)
    <2>1. m = Meta(m.address, m.signer, m.writable)
      BY MetaFields
    <2>2. new = [i EXCEPT !.accounts = [i.accounts EXCEPT ![j] = m]]
      BY <1>3, <1>4
    <2> HIDE DEF m
    <2> QED
      BY <2>1, <2>2, NewAccount
  <1>5. ASSUME NEW j \in DOMAIN i.accounts, NEW s, new = [i EXCEPT !.accounts[j].signer = s]
        PROVE  IsInstruction(new) /\ new.data = i.data
    <2> DEFINE m == Meta(i.accounts[j].address, s, i.accounts[j].writable)
    <2>1. m = Meta(m.address, m.signer, m.writable)
      BY MetaFields
    <2>2. new = [i EXCEPT !.accounts = [i.accounts EXCEPT ![j] = m]]
      BY <1>3, <1>5
    <2> HIDE DEF m
    <2> QED
      BY <2>1, <2>2, NewAccount
  <1>6. ASSUME NEW j \in DOMAIN i.accounts, NEW w, new = [i EXCEPT !.accounts[j].writable = w]
        PROVE  IsInstruction(new) /\ new.data = i.data
    <2> DEFINE m == Meta(i.accounts[j].address, i.accounts[j].signer, w)
    <2>1. m = Meta(m.address, m.signer, m.writable)
      BY MetaFields
    <2>2. new = [i EXCEPT !.accounts = [i.accounts EXCEPT ![j] = m]]
      BY <1>3, <1>6
    <2> HIDE DEF m
    <2> QED
      BY <2>1, <2>2, NewAccount
  <1>7. ASSUME NEW d, new = [i EXCEPT !.data = d]
        PROVE  IsInstruction(new) /\ new.data = d
    <2>1. new = Instruction(i.program, i.accounts, d)
      BY <1>1, <1>7 DEF Instruction
    <2> QED
      BY <2>1, InstructionFields, MakeInstruction
  <1>8. ASSUME NEW p, new = [i EXCEPT !.program = p]
        PROVE  IsInstruction(new) /\ new.data = i.data
    <2>1. new = Instruction(p, i.accounts, i.data)
      BY <1>1, <1>8 DEF Instruction
    <2> QED
      BY <2>1, InstructionFields, MakeInstruction
  <1>9. ASSUME 1 \in DOMAIN i.accounts,
               new = [i EXCEPT !.accounts = SubSeq(i.accounts, 1, Len(i.accounts) - 1)]
        PROVE  IsInstruction(new) /\ new.data = i.data
    <2> DEFINE n == Len(i.accounts) - 1
               accounts == Slice(i.accounts, 1, n)
    <2>1. n \in Nat /\ 1 \in Nat /\ n <= Len(i.accounts)
      BY <1>2, <1>9
    <2>2. /\ IsSequence(accounts)
          /\ Len(accounts) = IF 1 <= n THEN n - 1 + 1 ELSE 0
          /\ \A k \in 1 .. n - 1 + 1 : accounts[k] = i.accounts[1 + k - 1]
      <3> HIDE DEF n
      <3> QED
        BY <1>1, <2>1, SubSequence
    <2>3. DOMAIN accounts = 1 .. n
      BY <2>1, <2>2, SequenceFacts
    <2>4. \A k \in DOMAIN accounts : accounts[k] = i.accounts[k] /\ k \in DOMAIN i.accounts
      <3>1. n \in Int /\ n - 1 + 1 = n /\ \A k \in Int : 1 + k - 1 = k
        BY <2>1
      <3>2. \A k \in 1 .. n : accounts[k] = i.accounts[k]
        BY <2>2, <3>1
      <3>3. DOMAIN i.accounts = 1 .. Len(i.accounts)
        BY <1>2
      <3> QED
        BY <2>1, <2>3, <3>2, <3>3
    <2>5. new = [i EXCEPT !.accounts = accounts]
      BY <1>9 DEF Slice
    <2> HIDE DEF accounts
    <2>6. \A k \in DOMAIN accounts :
            accounts[k] = Meta(accounts[k].address, accounts[k].signer, accounts[k].writable)
      BY <2>4, InstructionFields
    <2> QED
      BY <2>2, <2>5, <2>6, NewAccounts
  <1> DEFINE Addresses == {[i EXCEPT !.accounts[j].address = a] : j \in DOMAIN i.accounts, a \in EditAddresses}
             Signs     == {[i EXCEPT !.accounts[j].signer = ~@] : j \in DOMAIN i.accounts}
             Writes    == {[i EXCEPT !.accounts[j].writable = ~@] : j \in DOMAIN i.accounts}
             Datas     == {[i EXCEPT !.data = d] : d \in EditedData(i.data)}
             Programs  == {[i EXCEPT !.program = p] : p \in EditPrograms}
             Shorter   == {[i EXCEPT !.accounts = SubSeq(@, 1, Len(@) - 1)] : n \in {1} \cap DOMAIN i.accounts}
  <1>10. EditedInstruction(i) = Addresses \cup Signs \cup Writes \cup Datas \cup Programs \cup Shorter
    BY DEF EditedInstruction
  <1>11. CASE new \in Addresses
    BY <1>4, <1>11
  <1>12. CASE new \in Signs
    BY <1>5, <1>12
  <1>13. CASE new \in Writes
    BY <1>6, <1>13
  <1>14. CASE new \in Datas
    BY <1>7, <1>14
  <1>15. CASE new \in Programs
    BY <1>8, <1>15
  <1>16. CASE new \in Shorter
    BY <1>9, <1>16
  <1> HIDE DEF Addresses, Signs, Writes, Datas, Programs, Shorter
  <1> QED
    BY <1>10, <1>11, <1>12, <1>13, <1>14, <1>15, <1>16

\* One edit of the list: every instruction is one of the list, an edited one of
\* the list or an added one.
LEMMA EditedListElements ==
    ASSUME NEW list, IsInstructionList(list), NEW new \in EditedList(list)
    PROVE  /\ IsInstructionList(new)
           /\ \A k \in DOMAIN new : \/ \E i \in DOMAIN list : new[k] = list[i]
                                    \/ \E i \in DOMAIN list : new[k] \in EditedInstruction(list[i])
                                    \/ new[k] \in ExtraInstructions
  <1> DEFINE n == Len(list)
             From(k) == \/ \E i \in DOMAIN list : new[k] = list[i]
                        \/ \E i \in DOMAIN list : new[k] \in EditedInstruction(list[i])
                        \/ new[k] \in ExtraInstructions
  <1>1. n \in Nat /\ DOMAIN list = 1 .. n /\ list = [i \in 1 .. n |-> list[i]]
    BY ListElements
  <1> HIDE DEF n
  <1>2. ASSUME NEW i \in DOMAIN list, NEW e \in EditedInstruction(list[i]), new = [list EXCEPT ![i] = e]
        PROVE  IsInstructionList(new) /\ \A k \in DOMAIN new : From(k)
    <2>1. new = [k \in 1 .. n |-> new[k]]
      BY <1>1, <1>2
    <2>2. IsSequence(new) /\ DOMAIN new = 1 .. n
      BY <1>1, <2>1, FunctionIsSequence
    <2>3. \A k \in DOMAIN new : new[k] = IF k = i THEN e ELSE list[k]
      BY <1>1, <1>2, <2>2
    <2>4. IsInstruction(e)
      BY EditedIsInstruction DEF IsInstructionList
    <2>5. \A k \in DOMAIN new : IsInstruction(new[k])
      BY <1>1, <2>2, <2>3, <2>4 DEF IsInstructionList
    <2> QED
      BY <1>1, <2>2, <2>3, <2>5 DEF IsInstructionList
  <1>3. ASSUME NEW i \in DOMAIN list, new = Without(list, i)
        PROVE  IsInstructionList(new) /\ \A k \in DOMAIN new : From(k)
    <2> DEFINE p == i - 1
               q == i + 1
               s == Slice(list, 1, p)
               t == Slice(list, q, Len(list))
    <2>1. /\ p \in Nat /\ p <= Len(list) /\ 1 <= 1 /\ 1 \in Nat
          /\ q \in Nat /\ 1 <= q /\ Len(list) \in Nat /\ Len(list) <= Len(list)
      BY <1>1 DEF n
    <2>2. new = Cat(s, t)
      BY <1>3 DEF Without, Cat, Slice
    <2> HIDE DEF p, q
    <2>3. IsInstructionList(s) /\ \A k \in DOMAIN s : \E j \in DOMAIN list : s[k] = list[j]
      <3>1. s = Slice(list, 1, p)
        OBVIOUS
      <3> HIDE DEF s
      <3> QED
        BY <2>1, <3>1, SubList
    <2>4. IsInstructionList(t) /\ \A k \in DOMAIN t : \E j \in DOMAIN list : t[k] = list[j]
      <3>1. t = Slice(list, q, Len(list))
        OBVIOUS
      <3> HIDE DEF t
      <3> QED
        BY <2>1, <3>1, SubList
    <2> HIDE DEF s, t
    <2>5. /\ IsInstructionList(new)
          /\ \A k \in DOMAIN new : (\E j \in DOMAIN s : new[k] = s[j]) \/ (\E j \in DOMAIN t : new[k] = t[j])
      BY <2>2, <2>3, <2>4, ConcatLists
    <2> QED
      BY <2>3, <2>4, <2>5
  <1>4. ASSUME NEW i \in 1 .. Len(list) + 1, NEW e \in ExtraInstructions, new = With(list, i, e)
        PROVE  IsInstructionList(new) /\ \A k \in DOMAIN new : From(k)
    <2> DEFINE p == i - 1
               s == Slice(list, 1, p)
               t == Slice(list, i, Len(list))
               u == Cat(s, <<e>>)
    <2>1. /\ p \in Nat /\ p <= Len(list) /\ 1 <= 1 /\ 1 \in Nat
          /\ i \in Nat /\ 1 <= i /\ Len(list) \in Nat /\ Len(list) <= Len(list)
      BY <1>1 DEF n
    <2>2. new = Cat(u, t)
      BY <1>4 DEF With, Cat, Slice
    <2> HIDE DEF p
    <2>3. IsInstructionList(s) /\ \A k \in DOMAIN s : \E j \in DOMAIN list : s[k] = list[j]
      <3>1. s = Slice(list, 1, p)
        OBVIOUS
      <3> HIDE DEF s
      <3> QED
        BY <2>1, <3>1, SubList
    <2>4. IsInstructionList(t) /\ \A k \in DOMAIN t : \E j \in DOMAIN list : t[k] = list[j]
      <3>1. t = Slice(list, i, Len(list))
        OBVIOUS
      <3> HIDE DEF t
      <3> QED
        BY <2>1, <3>1, SubList
    <2>5. IsInstructionList(<<e>>) /\ DOMAIN <<e>> = {1} /\ <<e>>[1] = e
      BY OneInstruction, TransactionConstants
    <2> HIDE DEF s, t
    <2>6. /\ IsInstructionList(u)
          /\ \A k \in DOMAIN u : (\E j \in DOMAIN s : u[k] = s[j]) \/ (\E j \in DOMAIN <<e>> : u[k] = <<e>>[j])
      <3>1. u = Cat(s, <<e>>)
        OBVIOUS
      <3> HIDE DEF u
      <3> QED
        BY <2>3, <2>5, <3>1, ConcatLists
    <2> HIDE DEF u
    <2>7. /\ IsInstructionList(new)
          /\ \A k \in DOMAIN new : (\E j \in DOMAIN u : new[k] = u[j]) \/ (\E j \in DOMAIN t : new[k] = t[j])
      BY <2>2, <2>4, <2>6, ConcatLists
    <2>8. \A k \in DOMAIN u : u[k] = e \/ \E j \in DOMAIN list : u[k] = list[j]
      BY <2>3, <2>5, <2>6
    <2> QED
      BY <2>4, <2>7, <2>8
  <1>5. \/ \E i \in DOMAIN list : \E e \in EditedInstruction(list[i]) : new = [list EXCEPT ![i] = e]
        \/ \E i \in DOMAIN list : new = Without(list, i)
        \/ \E i \in 1 .. Len(list) + 1 : \E e \in ExtraInstructions : new = With(list, i, e)
    <2> DEFINE Changed == UNION {{[list EXCEPT ![i] = e] : e \in EditedInstruction(list[i])} : i \in DOMAIN list}
               Removed == {Without(list, i) : i \in DOMAIN list}
               Added   == {With(list, i, e) : i \in 1 .. Len(list) + 1, e \in ExtraInstructions}
    <2>1. EditedList(list) = Changed \cup Removed \cup Added
      BY DEF EditedList
    <2>2. new \in Changed =>
            \E i \in DOMAIN list : \E e \in EditedInstruction(list[i]) : new = [list EXCEPT ![i] = e]
      OBVIOUS
    <2>3. new \in Removed => \E i \in DOMAIN list : new = Without(list, i)
      OBVIOUS
    <2>4. new \in Added =>
            \E i \in 1 .. Len(list) + 1 : \E e \in ExtraInstructions : new = With(list, i, e)
      OBVIOUS
    <2> HIDE DEF Changed, Removed, Added
    <2> QED
      BY <2>1, <2>2, <2>3, <2>4
  <1> HIDE DEF From
  <1>6. IsInstructionList(new) /\ \A k \in DOMAIN new : From(k)
    BY <1>2, <1>3, <1>4, <1>5
  <1> QED
    BY <1>6 DEF From

LEMMA EditKeepsCommitment ==
    ASSUME NEW list, IsInstructionList(list), NEW commitment, CarriesCommitment(list, commitment),
           NEW new \in EditedList(list)
    PROVE  CarriesCommitment(new, commitment)
  <1> SUFFICES ASSUME NEW k \in DOMAIN new, new[k].data.tag = "guard"
               PROVE  new[k].data.commitment = commitment
    BY DEF CarriesCommitment
  <1>1. CASE \E i \in DOMAIN list : new[k] = list[i]
    BY <1>1 DEF CarriesCommitment
  <1>2. ASSUME NEW i \in DOMAIN list, new[k] \in EditedInstruction(list[i])
        PROVE  new[k].data.commitment = commitment
    <2>1. new[k].data = list[i].data \/ new[k].data \in EditedData(list[i].data)
      BY <1>2, EditedIsInstruction DEF IsInstructionList
    <2>2. CASE new[k].data = list[i].data
      BY <2>2 DEF CarriesCommitment
    <2>3. CASE new[k].data \in EditedData(list[i].data)
      BY <2>3 DEF EditedData, KeepsCommitment, CarriesCommitment
    <2> QED
      BY <2>1, <2>2, <2>3
  <1>3. CASE new[k] \in ExtraInstructions
    BY <1>3, TransactionConstants
  <1> QED
    BY <1>1, <1>2, <1>3, EditedListElements
-------------------------------------------------------------------------------
\* What the runtime shows the program.
LEMMA LoadedList ==
    ASSUME NEW list, IsInstructionList(list)
    PROVE  /\ IsInstructionList(Loaded(list))
           /\ Len(Loaded(list)) = Len(list) /\ DOMAIN Loaded(list) = DOMAIN list
           /\ \A i \in DOMAIN list :
                Loaded(list)[i].program = list[i].program /\ Loaded(list)[i].data = list[i].data
           /\ table = LookedUp => Loaded(list) = list
  <1> DEFINE account(i, j) == IF list[i].accounts[j].address = LookedUp
                              THEN [list[i].accounts[j] EXCEPT !.address = table]
                              ELSE list[i].accounts[j]
             accounts(i) == [j \in DOMAIN list[i].accounts |-> account(i, j)]
             loaded == Loaded(list)
  <1>1. /\ Len(list) \in Nat /\ DOMAIN list = 1 .. Len(list)
        /\ list = [i \in 1 .. Len(list) |-> list[i]]
    BY ListElements
  <1>2. loaded = [i \in DOMAIN list |-> [list[i] EXCEPT !.accounts = accounts(i)]]
    BY DEF Loaded
  <1>3. ASSUME NEW i \in DOMAIN list, NEW j \in DOMAIN list[i].accounts
        PROVE  /\ account(i, j) = Meta(account(i, j).address, account(i, j).signer, account(i, j).writable)
               /\ table = LookedUp => account(i, j) = list[i].accounts[j]
    <2> DEFINE m == list[i].accounts[j]
    <2>1. m = Meta(m.address, m.signer, m.writable)
      BY InstructionFields DEF IsInstructionList
    <2>2. [m EXCEPT !.address = table] = Meta(table, m.signer, m.writable)
      BY <2>1, MetaExcept
    <2>3. account(i, j) = IF m.address = LookedUp THEN Meta(table, m.signer, m.writable) ELSE m
      BY <2>2
    <2> HIDE DEF m, account
    <2> QED
      BY <2>1, <2>3, MetaFields DEF m
  <1>4. ASSUME NEW i \in DOMAIN list
        PROVE  /\ IsSequence(accounts(i)) /\ DOMAIN accounts(i) = DOMAIN list[i].accounts
               /\ \A j \in DOMAIN accounts(i) : accounts(i)[j] = account(i, j)
               /\ table = LookedUp => accounts(i) = list[i].accounts
    <2>1. IsSequence(list[i].accounts)
      BY InstructionFields DEF IsInstructionList
    <2>2. /\ Len(list[i].accounts) \in Nat /\ DOMAIN list[i].accounts = 1 .. Len(list[i].accounts)
          /\ list[i].accounts = [j \in 1 .. Len(list[i].accounts) |-> list[i].accounts[j]]
      BY <2>1, SequenceFacts
    <2> HIDE DEF account
    <2>3. accounts(i) = [j \in 1 .. Len(list[i].accounts) |-> accounts(i)[j]]
      BY <2>2
    <2>4. IsSequence(accounts(i)) /\ DOMAIN accounts(i) = DOMAIN list[i].accounts
      BY <2>2, <2>3, FunctionIsSequence
    <2>5. table = LookedUp => accounts(i) = list[i].accounts
      BY <1>3, <2>2
    <2> QED
      BY <2>4, <2>5
  <1> HIDE DEF account, accounts
  <1>5. ASSUME NEW i \in DOMAIN list
        PROVE  /\ IsInstruction(loaded[i]) /\ loaded[i].program = list[i].program
               /\ loaded[i].data = list[i].data
               /\ table = LookedUp => loaded[i] = list[i]
    <2>1. IsInstruction(list[i])
      BY DEF IsInstructionList
    <2>2. loaded[i] = [list[i] EXCEPT !.accounts = accounts(i)]
      BY <1>2
    <2>3. \A j \in DOMAIN accounts(i) :
             accounts(i)[j] = Meta(accounts(i)[j].address, accounts(i)[j].signer, accounts(i)[j].writable)
      BY <1>3, <1>4
    <2>4. IsInstruction(loaded[i]) /\ loaded[i].program = list[i].program /\ loaded[i].data = list[i].data
      BY <1>4, <2>1, <2>2, <2>3, NewAccounts
    <2>5. list[i] = [program |-> list[i].program, accounts |-> list[i].accounts, data |-> list[i].data]
      BY <2>1, InstructionFields DEF Instruction
    <2>6. table = LookedUp => loaded[i] = list[i]
      BY <1>4, <2>2, <2>5
    <2> QED
      BY <2>4, <2>6
  <1>6. loaded = [i \in 1 .. Len(list) |-> loaded[i]]
    BY <1>1, <1>2
  <1>7. IsSequence(loaded) /\ Len(loaded) = Len(list) /\ DOMAIN loaded = DOMAIN list
    BY <1>1, <1>6, FunctionIsSequence
  <1> HIDE DEF loaded
  <1>8. table = LookedUp => loaded = list
    BY <1>1, <1>5, <1>6
  <1>9. IsInstructionList(loaded)
    BY <1>5, <1>7 DEF IsInstructionList
  <1> QED
    BY <1>5, <1>7, <1>8, <1>9 DEF loaded

LEMMA RuntimeViewList ==
    ASSUME NEW list, IsInstructionList(list), NEW feePayer,
           NEW view, view = RuntimeView(Loaded(list), feePayer)
    PROVE  /\ IsInstructionList(view) /\ Len(view) = Len(list) /\ DOMAIN view = DOMAIN list
           /\ \A i \in DOMAIN list :
                view[i].program = list[i].program /\ view[i].data = list[i].data
  <1> DEFINE loaded == Loaded(list)
  <1>1. /\ IsInstructionList(loaded)
        /\ Len(loaded) = Len(list) /\ DOMAIN loaded = DOMAIN list
        /\ \A i \in DOMAIN list : loaded[i].program = list[i].program /\ loaded[i].data = list[i].data
    BY LoadedList
  <1>2. view = WithFlags(loaded, Signers(loaded, feePayer),
                         Writables(loaded, feePayer) \ Demoted(loaded, feePayer))
    BY DEF RuntimeView
  <1> HIDE DEF loaded
  <1> QED
    BY <1>1, <1>2, FlaggedList
-------------------------------------------------------------------------------
\* The flags depend on the accounts alone, so the placeholder of the guard gives
\* the flags of the guard.
SameAccounts(s, t) ==
    /\ DOMAIN s = DOMAIN t
    /\ \A i \in DOMAIN s : s[i].program = t[i].program /\ s[i].accounts = t[i].accounts

LEMMA FlagsOfAccounts ==
    ASSUME NEW s, NEW t, SameAccounts(s, t), NEW feePayer
    PROVE  /\ Signers(s, feePayer) = Signers(t, feePayer)
           /\ Writables(s, feePayer) = Writables(t, feePayer)
           /\ Demoted(s, feePayer) = Demoted(t, feePayer)
  <1>1. Metas(s) = Metas(t)
    BY DEF Metas, SameAccounts
  <1>2. /\ Signers(s, feePayer) = Signers(t, feePayer)
        /\ Writables(s, feePayer) = Writables(t, feePayer)
    BY <1>1 DEF Signers, Writables
  <1>3. \A a : (\E i \in DOMAIN s : s[i].program = a) <=> (\E i \in DOMAIN t : t[i].program = a)
    BY DEF SameAccounts
  <1> QED
    BY <1>2, <1>3 DEF Demoted

FlaggedAccounts(accounts, signers, writables) ==
    [j \in DOMAIN accounts |->
       Meta(accounts[j].address, accounts[j].address \in signers, accounts[j].address \in writables)]

LEMMA FlaggedInstruction ==
    ASSUME NEW s, NEW i \in DOMAIN s, NEW signers, NEW writables
    PROVE  WithFlags(s, signers, writables)[i] =
             Instruction(s[i].program, FlaggedAccounts(s[i].accounts, signers, writables), s[i].data)
  BY DEF WithFlags, FlaggedAccounts

LEMMA SameView ==
    ASSUME NEW s, NEW t, SameAccounts(s, t), NEW feePayer, NEW i \in DOMAIN s, s[i].data = t[i].data
    PROVE  SysvarView(s, feePayer)[i] = SysvarView(t, feePayer)[i]
  <1> DEFINE S == Signers(s, feePayer)
             W == Writables(s, feePayer)
  <1>1. SysvarView(s, feePayer) = WithFlags(s, S, W) /\ SysvarView(t, feePayer) = WithFlags(t, S, W)
    BY FlagsOfAccounts DEF SysvarView
  <1>2. /\ i \in DOMAIN t /\ s[i].program = t[i].program /\ s[i].accounts = t[i].accounts
    BY DEF SameAccounts
  <1> HIDE DEF S, W
  <1> QED
    BY <1>1, <1>2, FlaggedInstruction

LEMMA SysvarViewList ==
    ASSUME NEW list, IsInstructionList(list), NEW feePayer
    PROVE  /\ IsInstructionList(SysvarView(list, feePayer))
           /\ Len(SysvarView(list, feePayer)) = Len(list)
           /\ DOMAIN SysvarView(list, feePayer) = DOMAIN list
           /\ \A i \in DOMAIN list :
                /\ SysvarView(list, feePayer)[i].program = list[i].program
                /\ SysvarView(list, feePayer)[i].data = list[i].data
                /\ Len(SysvarView(list, feePayer)[i].accounts) = Len(list[i].accounts)
                /\ DOMAIN SysvarView(list, feePayer)[i].accounts = DOMAIN list[i].accounts
                /\ \A j \in DOMAIN list[i].accounts :
                     SysvarView(list, feePayer)[i].accounts[j].address = list[i].accounts[j].address
  <1> DEFINE S == Signers(list, feePayer)
             W == Writables(list, feePayer)
  <1>1. SysvarView(list, feePayer) = WithFlags(list, S, W)
    BY DEF SysvarView
  <1> HIDE DEF S, W
  <1> QED
    BY <1>1, FlaggedList

\* The guard a builder writes.
GuardAccounts(mint) == <<Meta(mint, FALSE, FALSE), Meta(INSTRUCTIONS_SYSVAR, FALSE, FALSE)>>

LEMMA GuardInstruction ==
    ASSUME NEW mint, NEW adapter, NEW commitment
    PROVE  /\ IsInstruction(Guard(mint, adapter, commitment))
           /\ Guard(mint, adapter, commitment).program = GuardProgram
           /\ Guard(mint, adapter, commitment).accounts = GuardAccounts(mint)
           /\ Len(Guard(mint, adapter, commitment).accounts) = 2
           /\ DOMAIN Guard(mint, adapter, commitment).accounts = 1 .. 2
           /\ Guard(mint, adapter, commitment).accounts[1].address = mint
           /\ Guard(mint, adapter, commitment).accounts[2].address = INSTRUCTIONS_SYSVAR
           /\ Guard(mint, adapter, commitment).data.tag = "guard"
           /\ Guard(mint, adapter, commitment).data.version = 2
           /\ Guard(mint, adapter, commitment).data.expectedMint = mint
           /\ Guard(mint, adapter, commitment).data.adapter = adapter
           /\ Guard(mint, adapter, commitment).data.commitment = commitment
  <1> DEFINE g == Guard(mint, adapter, commitment)
             a == Meta(mint, FALSE, FALSE)
             b == Meta(INSTRUCTIONS_SYSVAR, FALSE, FALSE)
             accounts == <<a, b>>
             data == AssertSafeExecutionV2(mint, adapter, commitment)
  <1>1. /\ a = Meta(a.address, a.signer, a.writable) /\ a.address = mint
        /\ b = Meta(b.address, b.signer, b.writable) /\ b.address = INSTRUCTIONS_SYSVAR
    BY DEF Meta
  <1>2. g = Instruction(GuardProgram, accounts, data)
    BY DEF Guard
  <1>3. /\ data.tag = "guard" /\ data.version = 2 /\ data.expectedMint = mint
        /\ data.adapter = adapter /\ data.commitment = commitment
    BY DEF AssertSafeExecutionV2
  <1> HIDE DEF a, b, data
  <1>4. accounts = [k \in 1 .. 2 |-> accounts[k]] /\ accounts[1] = a /\ accounts[2] = b
    OBVIOUS
  <1>5. IsSequence(accounts) /\ Len(accounts) = 2 /\ DOMAIN accounts = 1 .. 2
    BY <1>4, FunctionIsSequence
  <1>6. \A j \in DOMAIN accounts :
          accounts[j] = Meta(accounts[j].address, accounts[j].signer, accounts[j].writable)
    <2> TAKE j \in DOMAIN accounts
    <2>1. j = 1 \/ j = 2
      BY <1>5
    <2> QED
      BY <1>1, <1>4, <2>1
  <1>7. accounts = GuardAccounts(mint)
    BY DEF a, b, GuardAccounts
  <1> HIDE DEF accounts
  <1>8. /\ IsInstruction(g) /\ g.program = GuardProgram /\ g.accounts = accounts /\ g.data = data
    BY <1>2, <1>5, <1>6, MakeInstruction
  <1> HIDE DEF g
  <1> QED
    BY <1>1, <1>3, <1>4, <1>5, <1>7, <1>8 DEF g

LEMMA TransactionFields ==
    ASSUME NEW list, NEW feePayer
    PROVE  /\ Transaction(list, feePayer).instructions = list
           /\ Transaction(list, feePayer).feePayer = feePayer
  BY DEF Transaction

LEMMA PairAfter ==
    ASSUME NEW s, IsInstructionList(s), NEW i, IsInstruction(i), NEW j, IsInstruction(j)
    PROVE  /\ IsInstructionList(Cat(s, <<i, j>>))
           /\ Len(Cat(s, <<i, j>>)) = Len(s) + 2
           /\ DOMAIN Cat(s, <<i, j>>) = 1 .. Len(s) + 2
           /\ \A k \in 1 .. Len(s) : Cat(s, <<i, j>>)[k] = s[k]
           /\ Cat(s, <<i, j>>)[Len(s) + 1] = i
           /\ Cat(s, <<i, j>>)[Len(s) + 2] = j
  <1> DEFINE t == <<i, j>>
  <1>1. IsInstructionList(t) /\ Len(t) = 2 /\ t[1] = i /\ t[2] = j
    BY TwoInstructions
  <1>2. IsSequence(s) /\ IsSequence(t)
    BY <1>1 DEF IsInstructionList
  <1> HIDE DEF t
  <1>3. /\ Len(Cat(s, t)) = Len(s) + Len(t)
        /\ DOMAIN Cat(s, t) = 1 .. Len(s) + Len(t)
        /\ \A k \in 1 .. Len(s) : Cat(s, t)[k] = s[k]
        /\ \A k \in 1 .. Len(t) : Cat(s, t)[Len(s) + k] = t[k]
    BY <1>2, ConcatSequences
  <1>4. IsInstructionList(Cat(s, t))
    BY <1>1, ConcatLists
  <1>5. 1 \in 1 .. Len(t) /\ 2 \in 1 .. Len(t)
    BY <1>1
  <1> QED
    BY <1>1, <1>3, <1>4, <1>5 DEF t

\* buildGuardedTransferChecked, and the page's builder with nothing in front.
LEMMA BuiltTransfer ==
    ASSUME NEW transfer, IsInstruction(transfer), SupportedTransferChecked(transfer),
           NEW before, IsInstructionList(before),
           \A i \in DOMAIN before : before[i].program # GuardProgram /\ before[i].data.tag # "guard",
           NEW feePayer, NEW committed, NEW b,
           committed = SysvarView(Cat(before, <<Guard(Equity, TransferKind, ZeroCommitment), transfer>>),
                                  feePayer)[Len(before) + 2],
           b.kind = TransferKind, b.committed = <<committed>>,
           b.tx = Transaction(Cat(before, <<Guard(Equity, TransferKind, DownstreamCommitment(committed)),
                                            transfer>>), feePayer)
    PROVE  IsBuild(b)
  <1> DEFINE n  == Len(before) + 2
             g  == Guard(Equity, TransferKind, DownstreamCommitment(committed))
             g0 == Guard(Equity, TransferKind, ZeroCommitment)
             s  == Cat(before, <<g, transfer>>)
             s0 == Cat(before, <<g0, transfer>>)
  <1>1. IsInstruction(g) /\ IsInstruction(g0) /\ g.program = g0.program /\ g.accounts = g0.accounts
    BY GuardInstruction
  <1> HIDE DEF g, g0
  <1>2. Len(before) \in Nat /\ DOMAIN before = 1 .. Len(before)
    BY ListElements
  <1>3. /\ IsInstructionList(s) /\ Len(s) = Len(before) + 2 /\ DOMAIN s = 1 .. Len(before) + 2
        /\ \A k \in 1 .. Len(before) : s[k] = before[k]
        /\ s[Len(before) + 1] = g /\ s[Len(before) + 2] = transfer
    BY <1>1, PairAfter
  <1>4. /\ IsInstructionList(s0) /\ Len(s0) = Len(before) + 2 /\ DOMAIN s0 = 1 .. Len(before) + 2
        /\ \A k \in 1 .. Len(before) : s0[k] = before[k]
        /\ s0[Len(before) + 1] = g0 /\ s0[Len(before) + 2] = transfer
    BY <1>1, PairAfter
  <1> HIDE DEF s, s0
  <1>5. n \in Nat /\ n >= 2 /\ n - 1 = Len(before) + 1 /\ n - 2 = Len(before)
    BY <1>2
  <1>6. /\ s[n - 1] = g /\ s0[n - 1] = g0 /\ s[n] = transfer /\ s0[n] = transfer
        /\ DOMAIN s = 1 .. n /\ DOMAIN s0 = 1 .. n /\ Len(s) = n /\ Len(s0) = n
    BY <1>3, <1>4, <1>5
  <1> HIDE DEF n
  <1>7. \A i \in 1 .. n - 2 : s[i] = before[i] /\ s0[i] = before[i] /\ i \in DOMAIN before
    BY <1>2, <1>3, <1>4, <1>5
  <1>8. \A i \in 1 .. n : i \in 1 .. n - 2 \/ i = n - 1 \/ i = n
    BY <1>5
  <1>9. n \in DOMAIN s /\ s[n].data = s0[n].data
    BY <1>5, <1>6
  <1>10. SameAccounts(s, s0)
    <2>1. s[n - 1].program = s0[n - 1].program /\ s[n - 1].accounts = s0[n - 1].accounts
      BY <1>1, <1>6
    <2>2. \A i \in DOMAIN s : i # n - 1 => s[i] = s0[i]
      BY <1>6, <1>7, <1>8
    <2> QED
      BY <1>6, <2>1, <2>2 DEF SameAccounts
  <1>11. SysvarView(s, feePayer)[n] = SysvarView(s0, feePayer)[n]
    BY <1>9, <1>10, SameView
  <1>12. committed = SysvarView(s, feePayer)[n]
    BY <1>11 DEF s0, g0, n
  <1>13. b.tx.instructions = s /\ b.tx.feePayer = feePayer
    BY TransactionFields DEF s, g
  <1>14. b.committed[1] = committed
    OBVIOUS
  <1>15. CommitmentIn(b) = DownstreamCommitment(committed)
    BY <1>14 DEF CommitmentIn
  <1>16. s[n - 1] = Guard(Equity, TransferKind, CommitmentIn(b))
    BY <1>6, <1>15 DEF g
  <1>17. \A i \in 1 .. n - 2 : s[i].program # GuardProgram /\ s[i].data.tag # "guard"
    BY <1>7
  <1>18. b.committed = <<SysvarView(s, feePayer)[n]>>
    BY <1>12
  <1>19. TransferBuild(b)
    BY <1>5, <1>6, <1>13, <1>16, <1>17, <1>18 DEF TransferBuild
  <1> QED
    BY <1>3, <1>13, <1>19 DEF IsBuild

LEMMA GuardedTransferCheckedIsBuild ==
    ASSUME NEW transfer \in Transfers, SupportedTransferChecked(transfer), NEW before \in Befores,
           NEW feePayer
    PROVE  IsBuild(GuardedTransferChecked(transfer, before, feePayer))
  <1> DEFINE b    == GuardedTransferChecked(transfer, before, feePayer)
             pair == <<Guard(Equity, TransferKind, ZeroCommitment), transfer>>
             list == Cat(before, pair)
             committed == SysvarView(list, feePayer)[Len(list)]
  <1>1. /\ IsInstruction(transfer) /\ IsInstructionList(before)
        /\ \A i \in DOMAIN before : before[i].program # GuardProgram /\ before[i].data.tag # "guard"
    BY TransactionConstants
  <1>2. IsInstructionList(pair) /\ Len(pair) = 2
    BY <1>1, GuardInstruction, TwoInstructions
  <1>3. Len(list) = Len(before) + 2
    <2>1. IsSequence(before) /\ IsSequence(pair)
      BY <1>1, <1>2 DEF IsInstructionList
    <2> HIDE DEF pair
    <2>2. Len(list) = Len(before) + Len(pair)
      BY <2>1, ConcatSequences
    <2> QED
      BY <1>2, <2>2
  <1>4. /\ b.kind = TransferKind
        /\ b.committed = <<committed>>
        /\ b.tx = Transaction(Cat(before, <<Guard(Equity, TransferKind, DownstreamCommitment(committed)),
                                            transfer>>), feePayer)
    BY DEF GuardedTransferChecked, ClientDownstreamCommitment, DownstreamCommitment, Cat
  <1>5. committed = SysvarView(list, feePayer)[Len(before) + 2]
    BY <1>3
  <1> HIDE DEF b, committed
  <1> QED
    BY <1>1, <1>4, <1>5, BuiltTransfer DEF b

LEMMA PublicGuardedTransferIsBuild ==
    ASSUME NEW transfer \in Transfers, SupportedTransferChecked(transfer), NEW feePayer
    PROVE  IsBuild(BuildPublicGuardedTransfer(transfer, feePayer))
  <1> DEFINE b    == BuildPublicGuardedTransfer(transfer, feePayer)
             g0   == Guard(Equity, TransferKind, ZeroCommitment)
             pair == <<g0, transfer>>
             S    == Signers(pair, feePayer)
             W    == Writables(pair, feePayer)
             committed == SysvarView(pair, feePayer)[2]
  <1>1. IsInstruction(transfer)
    BY TransactionConstants
  <1>2. \A c : PublicGuard(c) = Guard(Equity, TransferKind, c)
    BY DEF PublicGuard, Guard, EncodeAssertSafeExecutionV2
  <1>3. PublicGuard(ZeroCommitment) = g0
    BY <1>2
  <1>4. WithFlags(<<transfer>>, S, W)[1] = committed
    <2> HIDE DEF S, W, g0
    <2>1. SysvarView(pair, feePayer) = WithFlags(pair, S, W)
      BY DEF SysvarView, S, W
    <2>2. 2 \in DOMAIN pair /\ pair[2] = transfer /\ 1 \in DOMAIN <<transfer>> /\ <<transfer>>[1] = transfer
      OBVIOUS
    <2> HIDE DEF pair
    <2> QED
      BY <2>1, <2>2, FlaggedInstruction
  <1>5. CommitmentOf(transfer, pair, feePayer) = DownstreamCommitment(committed)
    BY <1>4 DEF CommitmentOf
  <1>6. /\ b.kind = TransferKind
        /\ b.committed = <<committed>>
        /\ b.tx = Transaction(<<PublicGuard(CommitmentOf(transfer, pair, feePayer)), transfer>>, feePayer)
    BY <1>3 DEF BuildPublicGuardedTransfer
  <1>7. b.tx = Transaction(<<Guard(Equity, TransferKind, DownstreamCommitment(committed)), transfer>>, feePayer)
    BY <1>2, <1>5, <1>6
  <1> DEFINE none == <<>>
  <1>8. none = [i \in 1 .. 0 |-> none[i]] /\ DOMAIN none = {}
    OBVIOUS
  <1>9. IsInstructionList(none) /\ Len(none) = 0
    BY <1>8, FunctionIsSequence DEF IsInstructionList
  <1>10. \A i, j : Cat(none, <<i, j>>) = <<i, j>>
    BY DEF Cat
  <1> HIDE DEF b, committed, none, g0
  <1>11. committed = SysvarView(Cat(none, <<g0, transfer>>), feePayer)[Len(none) + 2]
    BY <1>9, <1>10 DEF committed
  <1>12. b.tx = Transaction(Cat(none, <<Guard(Equity, TransferKind, DownstreamCommitment(committed)), transfer>>),
                            feePayer)
    BY <1>7, <1>10
  <1> QED
    BY <1>1, <1>6, <1>8, <1>9, <1>11, <1>12, BuiltTransfer DEF b, g0

LEMMA OneAfter ==
    ASSUME NEW s, IsInstructionList(s), NEW i, IsInstruction(i)
    PROVE  /\ IsInstructionList(Cat(s, <<i>>))
           /\ Len(Cat(s, <<i>>)) = Len(s) + 1
           /\ Cat(s, <<i>>)[Len(s) + 1] = i
  <1> DEFINE t == <<i>>
  <1>1. IsInstructionList(t) /\ Len(t) = 1 /\ t[1] = i
    BY OneInstruction
  <1>2. IsSequence(s) /\ IsSequence(t)
    BY <1>1 DEF IsInstructionList
  <1> HIDE DEF t
  <1>3. /\ Len(Cat(s, t)) = Len(s) + Len(t)
        /\ \A k \in 1 .. Len(t) : Cat(s, t)[Len(s) + k] = t[k]
    BY <1>2, ConcatSequences
  <1>4. IsInstructionList(Cat(s, t))
    BY <1>1, ConcatLists
  <1>5. 1 \in 1 .. Len(t)
    BY <1>1
  <1> QED
    BY <1>1, <1>3, <1>4, <1>5 DEF t

StartsWith(list, i, s) ==
    /\ IsInstructionList(list)
    /\ Len(list) = Len(s) + 1
    /\ DOMAIN list = 1 .. Len(s) + 1
    /\ list[1] = i
    /\ \A k \in 1 .. Len(s) : list[1 + k] = s[k]

LEMMA OneBefore ==
    ASSUME NEW i, IsInstruction(i), NEW s, IsInstructionList(s)
    PROVE  StartsWith(Cat(<<i>>, s), i, s)
  <1> DEFINE t == <<i>>
  <1>1. IsInstructionList(t) /\ Len(t) = 1 /\ t[1] = i
    BY OneInstruction
  <1>2. IsSequence(s) /\ IsSequence(t) /\ Len(s) \in Nat
    BY <1>1, ListElements DEF IsInstructionList
  <1> HIDE DEF t
  <1>3. /\ IsSequence(Cat(t, s))
        /\ Len(Cat(t, s)) = Len(t) + Len(s)
        /\ DOMAIN Cat(t, s) = 1 .. Len(t) + Len(s)
        /\ \A k \in 1 .. Len(t) : Cat(t, s)[k] = t[k]
        /\ \A k \in 1 .. Len(s) : Cat(t, s)[Len(t) + k] = s[k]
    <2>1. IsSequence(t) /\ IsSequence(s)
      BY <1>2
    <2> QED
      BY <2>1, ConcatSequences
  <1>4. IsInstructionList(Cat(t, s))
    BY <1>1, ConcatLists
  <1>5. 1 \in 1 .. Len(t) /\ 1 + Len(s) = Len(s) + 1
    BY <1>1, <1>2
  <1> QED
    BY <1>1, <1>3, <1>4, <1>5 DEF t, StartsWith

\* normalizedJupiterSuffix: of a supported build, a list that ends with the swap.
LEMMA NormalizedSuffixList ==
    ASSUME NEW build \in Builds, NEW adapter, SupportedJupiterBuild(build, adapter)
    PROVE  /\ IsInstructionList(NormalizedJupiterSuffix(build))
           /\ NormalizedJupiterSuffix(build)[Len(NormalizedJupiterSuffix(build))] = build.swap
  <1> DEFINE prices == {i \in DOMAIN build.budget : IsShape(build.budget[i], "SetComputeUnitPrice")}
             first  == CHOOSE i \in prices : \A j \in prices : i <= j
             price  == build.budget[first]
             data   == [tag |-> "SetComputeUnitLimit", value |-> ComputeUnitLimit]
             limit  == Instruction(COMPUTE_BUDGET_PROGRAM_ID, <<>>, data)
             head   == Cat(<<price, limit>>, build.setups)
  <1>1. /\ IsInstructionList(build.budget) /\ IsInstructionList(build.setups) /\ IsInstruction(build.swap)
    BY TransactionConstants
  <1>2. Cardinality(prices) = 1
    BY DEF SupportedJupiterBuild
  <1>3. prices # {}
    BY <1>2, FS_EmptySet
  <1>4. prices \subseteq Nat /\ prices \subseteq DOMAIN build.budget
    BY <1>1, ListElements
  <1> HIDE DEF prices
  <1>5. \E i \in prices : \A j \in prices : i <= j
    BY <1>3, <1>4, FirstPosition
  <1>6. first \in DOMAIN build.budget
    BY <1>4, <1>5
  <1>7. IsInstruction(price)
    BY <1>1, <1>6 DEF IsInstructionList
  <1>8. IsInstruction(limit)
    <2> DEFINE none == <<>>
    <2>1. none = [i \in 1 .. 0 |-> none[i]] /\ DOMAIN none = {}
      OBVIOUS
    <2>2. IsSequence(none)
      BY <2>1, FunctionIsSequence
    <2> HIDE DEF data, none
    <2>3. IsInstruction(Instruction(COMPUTE_BUDGET_PROGRAM_ID, none, data))
      BY <2>1, <2>2, MakeInstruction
    <2> QED
      BY <2>3 DEF none
  <1>9. NormalizedJupiterSuffix(build) = Cat(head, <<build.swap>>)
    BY DEF NormalizedJupiterSuffix, Cat, prices
  <1> HIDE DEF price, limit
  <1>10. IsInstructionList(<<price, limit>>)
    BY <1>7, <1>8, TwoInstructions
  <1>11. IsInstructionList(head)
    BY <1>1, <1>10, ConcatLists
  <1> HIDE DEF head
  <1> QED
    BY <1>1, <1>9, <1>11, OneAfter

\* buildGuardedJupiterTrade.
LEMMA JupiterTradeIsBuild ==
    ASSUME NEW build \in Builds, NEW adapter \in {BuyKind, SellKind}, NEW feePayer,
           ComposableJupiterTrade(build, adapter, feePayer)
    PROVE  IsBuild(GuardedJupiterTrade(build, adapter, feePayer))
  <1> DEFINE suffix    == NormalizedJupiterSuffix(build)
             g0        == Guard(Equity, adapter, ZeroCommitment)
             s0        == Cat(<<g0>>, suffix)
             committed == Tail(SysvarView(s0, feePayer))
             g         == Guard(Equity, adapter, JupiterSuffixCommitment(committed))
             s         == Cat(<<g>>, suffix)
             view      == SysvarView(s, feePayer)
             binding   == JupiterTradeBindingOf(committed, adapter)
             b         == GuardedJupiterTrade(build, adapter, feePayer)
             m         == Len(suffix)
             trade     == committed[Len(committed)]
  <1>1. SupportedJupiterBuild(build, adapter)
    BY DEF ComposableJupiterTrade
  <1>2. IsInstructionList(suffix) /\ suffix[m] = build.swap /\ m \in Nat
    BY <1>1, NormalizedSuffixList, ListElements
  <1>3. /\ b.kind = adapter /\ b.committed = committed /\ b.binding = binding
        /\ b.quote = BuildQuoteIdentity(build) /\ b.tx = Transaction(s, feePayer)
    BY ClientCommitmentIsPrograms DEF GuardedJupiterTrade, Cat
  <1>4. /\ Demoted(s0, feePayer) = {}
        /\ CheckSuffix(committed, adapter, Equity) = "Ok"
    BY ClientGrammarIsPrograms DEF ComposableJupiterTrade, Cat
  <1>5. b.tx.instructions = s /\ b.tx.feePayer = feePayer
    BY <1>3, TransactionFields
  <1>6. JupiterSuffixCommitment(Tail(view)) = JupiterSuffixCommitment(committed)
    <2>1. CheckGuardedJupiterTransaction(SysvarView(b.tx.instructions, feePayer), adapter,
                                         ClientSuffixCommitment(b.committed)) = "Ok"
      BY DEF ComposableJupiterTrade
    <2>2. CheckGuardedJupiterTransaction(view, adapter, JupiterSuffixCommitment(committed)) = "Ok"
      BY <1>3, <1>5, <2>1, ClientCommitmentIsPrograms
    <2> HIDE DEF view, committed
    <2> QED
      BY <2>2, ClientCommitmentIsPrograms DEF CheckGuardedJupiterTransaction
  <1>7. Tail(view) = committed
    BY <1>6, CommitmentsAreInjective
  <1>8. IsInstruction(g) /\ IsInstruction(g0) /\ g.program = g0.program /\ g.accounts = g0.accounts
    BY GuardInstruction
  <1> HIDE DEF suffix, g0, g, committed, b
  <1>9. /\ IsInstructionList(s) /\ Len(s) = m + 1 /\ DOMAIN s = 1 .. m + 1 /\ s[1] = g
        /\ \A k \in 1 .. m : s[1 + k] = suffix[k]
    <2>1. StartsWith(s, g, suffix)
      BY <1>2, <1>8, OneBefore
    <2> HIDE DEF s
    <2> QED
      BY <2>1 DEF StartsWith
  <1>10. /\ IsInstructionList(s0) /\ Len(s0) = m + 1 /\ DOMAIN s0 = 1 .. m + 1 /\ s0[1] = g0
         /\ \A k \in 1 .. m : s0[1 + k] = suffix[k]
    <2>1. StartsWith(s0, g0, suffix)
      BY <1>2, <1>8, OneBefore
    <2> HIDE DEF s0
    <2> QED
      BY <2>1 DEF StartsWith
  <1> HIDE DEF s, s0, m
  <1>11. SameAccounts(s, s0)
    <2>1. ASSUME NEW i \in DOMAIN s, i # 1
          PROVE  s[i] = s0[i]
      <3> DEFINE k == i - 1
      <3>1. k \in 1 .. m /\ 1 + k = i
        BY <1>2, <1>9, <2>1
      <3> QED
        BY <1>9, <1>10, <3>1
    <2> QED
      BY <1>8, <1>9, <1>10, <2>1 DEF SameAccounts
  <1>12. Demoted(s, feePayer) = {}
    BY <1>4, <1>11, FlagsOfAccounts
  <1>13. Len(committed) \in {3, 4}
    BY <1>4, AcceptedSuffix
  <1>14. IsInstructionList(SysvarView(s0, feePayer)) /\ Len(SysvarView(s0, feePayer)) = m + 1
         /\ \A i \in DOMAIN s0 : SysvarView(s0, feePayer)[i].data = s0[i].data
    BY <1>10, SysvarViewList
  <1>15. /\ IsInstructionList(committed) /\ Len(committed) = m
         /\ \A i \in 1 .. m : committed[i] = SysvarView(s0, feePayer)[i + 1]
    <2> DEFINE v == SysvarView(s0, feePayer)
    <2>1. IsInstructionList(v) /\ IsSequence(v) /\ Len(v) = m + 1 /\ Len(v) # 0 /\ m \in Nat
      BY <1>2, <1>14 DEF IsInstructionList
    <2>2. committed = Tail(v)
      BY DEF committed
    <2> HIDE DEF v
    <2>3. /\ Len(Tail(v)) = Len(v) - 1
          /\ \A i \in 1 .. Len(v) - 1 : Tail(v)[i] = v[i + 1]
      BY <2>1, TailSequence
    <2>4. IsInstructionList(Tail(v))
      BY <2>1, TailList
    <2>5. Len(v) - 1 = m
      BY <2>1
    <2> QED
      BY <2>2, <2>3, <2>4, <2>5 DEF v
  <1>16. m \in {3, 4} /\ m \in 1 .. m /\ m + 1 \in DOMAIN s0 /\ 1 + m = m + 1
    BY <1>10, <1>13, <1>15
  <1>17. trade.data = build.swap.data /\ IsInstruction(trade)
    <2>1. trade = SysvarView(s0, feePayer)[m + 1]
      BY <1>15, <1>16
    <2>2. SysvarView(s0, feePayer)[m + 1].data = s0[m + 1].data
      BY <1>14, <1>16
    <2>3. s0[m + 1] = build.swap
      BY <1>2, <1>10, <1>16 DEF m
    <2>4. IsInstruction(trade)
      BY <1>15, <1>16, ListElements
    <2> QED
      BY <2>1, <2>2, <2>3, <2>4
  <1> HIDE DEF trade, binding
  <1>18. CheckRoute(trade, adapter, Equity) = "Ok"
    BY <1>4, AcceptedSuffix DEF trade
  <1>19. /\ trade.data.tag = "route_v2"
         /\ trade.data.inAmount > 0 /\ trade.data.quotedOutAmount > 0
         /\ trade.data.slippageBps <= MAX_SLIPPAGE_BPS
         /\ ProtectedSide(Route(trade), adapter)
              = <<Equity, TOKEN_2022_PROGRAM_ID, USDC_MINT, LEGACY_TOKEN_PROGRAM_ID>>
    BY <1>17, <1>18, AcceptedRoute
  <1>20. trade.data.slippageBps \in 0 .. MAX_SLIPPAGE_BPS
    <2>1. trade.data.slippageBps \in Nat
      BY <1>17, <1>19, TransactionConstants
    <2>2. trade.data.slippageBps <= MAX_SLIPPAGE_BPS
      BY <1>19
    <2>3. MAX_SLIPPAGE_BPS \in Nat
      BY DEF MAX_SLIPPAGE_BPS
    <2> QED
      BY <2>1, <2>2, <2>3
  <1>21. /\ binding.sourceMint = trade.accounts[4].address
         /\ binding.destinationMint = trade.accounts[5].address
         /\ binding.protectedMint = Equity
         /\ binding.counterMint = USDC_MINT
         /\ binding.adapterKind = adapter
         /\ binding.inAmountRaw = trade.data.inAmount
         /\ binding.quotedOutRaw = trade.data.quotedOutAmount
         /\ binding.slippageBps = trade.data.slippageBps
         /\ binding.minOutRaw = MinimumOutFromQuote(trade.data.quotedOutAmount, trade.data.slippageBps)
         /\ binding.suffixInstructionCount = Len(committed)
    BY <1>19, BindingFields DEF trade, binding
  <1>22. /\ adapter = BuyKind => binding.sourceMint = USDC_MINT /\ binding.destinationMint = Equity
         /\ adapter # BuyKind => binding.sourceMint = Equity /\ binding.destinationMint = USDC_MINT
    BY <1>19, <1>21, RouteSides
  <1>23. IsDownstreamBinding(binding)
    <2>1. binding.inAmountRaw > 0 /\ binding.quotedOutRaw > 0
      BY <1>19, <1>21
    <2>2. /\ binding.slippageBps \in 0 .. MAX_SLIPPAGE_BPS
          /\ binding.minOutRaw = MinimumOutFromQuote(binding.quotedOutRaw, binding.slippageBps)
      BY <1>20, <1>21, Zenon
    <2>3. binding.suffixInstructionCount \in {3, 4}
      BY <1>13, <1>21
    <2>4. binding.adapterKind \in {BuyKind, SellKind} /\ binding.counterMint = USDC_MINT
      BY <1>21
    <2>5. (IF binding.adapterKind = BuyKind THEN <<binding.destinationMint, binding.sourceMint>>
           ELSE <<binding.sourceMint, binding.destinationMint>>)
            = <<binding.protectedMint, binding.counterMint>>
      BY <1>21, <1>22
    <2> QED
      BY <2>1, <2>2, <2>3, <2>4, <2>5, Zenon DEF IsDownstreamBinding
  <1>24. adapter = BuyKind => IsTradeOfQuote(binding, BuildQuoteIdentity(build), Equity)
    <2> SUFFICES ASSUME adapter = BuyKind
                 PROVE  IsTradeOfQuote(binding, BuildQuoteIdentity(build), Equity)
      OBVIOUS
    <2>1. /\ build.inputMint = USDC_MINT /\ build.outputMint = Equity
          /\ build.swap.data.inAmount = build.inAmount
          /\ build.swap.data.quotedOutAmount = build.outAmount
          /\ MinimumOutFromQuote(build.swap.data.quotedOutAmount, build.swap.data.slippageBps)
               = build.otherAmountThreshold
      BY <1>1 DEF SupportedJupiterBuild
    <2>2. /\ BuildQuoteIdentity(build).mint = build.outputMint
          /\ BuildQuoteIdentity(build).inputMint = build.inputMint
          /\ BuildQuoteIdentity(build).inputRaw = build.inAmount
          /\ BuildQuoteIdentity(build).outputRaw = build.outAmount
          /\ BuildQuoteIdentity(build).minOutputRaw = build.otherAmountThreshold
      BY DEF BuildQuoteIdentity
    <2> QED
      BY <1>17, <1>21, <1>22, <2>1, <2>2 DEF IsTradeOfQuote
  <1>25. CommitmentIn(b) = JupiterSuffixCommitment(committed)
    BY <1>3 DEF CommitmentIn, TransferKind, BuyKind, SellKind
  <1>26. JupiterBuild(b)
    <2>1. Len(b.tx.instructions) >= 1
      BY <1>5, <1>9, <1>16
    <2>2. b.tx.instructions[1] = Guard(Equity, b.kind, CommitmentIn(b))
      BY <1>3, <1>5, <1>9, <1>25 DEF g
    <2>3. b.committed = Tail(SysvarView(b.tx.instructions, b.tx.feePayer))
      BY <1>3, <1>5, <1>7
    <2>4. Demoted(b.tx.instructions, b.tx.feePayer) = {}
      BY <1>5, <1>12
    <2>5. b.binding = JupiterTradeBindingOf(b.committed, b.kind)
      BY <1>3 DEF binding
    <2> QED
      BY <1>3, <1>4, <1>23, <1>24, <2>1, <2>2, <2>3, <2>4, <2>5 DEF JupiterBuild
  <1>27. IsInstructionList(b.tx.instructions)
    BY <1>5, <1>9
  <1>28. IsBuild(b)
    BY <1>26, <1>27 DEF IsBuild
  <1> QED
    BY <1>28 DEF b
-------------------------------------------------------------------------------
\* What the program is shown of a transaction, and what the client answers on it.
Shown(t) == RuntimeView(Loaded(t.instructions), t.feePayer)

ClientAnswer(b, t) ==
    IF b.kind # TransferKind THEN VerifyProtectedSwap(b, t) ELSE VerifySignedTransaction(b, t)

\* The transaction on its way: as built until it is edited, and with the commitment
\* it was built with until that is rewritten.
OnItsWay ==
    /\ IsBuild(built)
    /\ IsInstructionList(tx.instructions)
    /\ tx = Transaction(tx.instructions, tx.feePayer)
    /\ edits = 0 => tx = built.tx
    /\ ~recommitted => CarriesCommitment(tx.instructions, CommitmentIn(built))

TransactionInv ==
    /\ edits \in Nat
    /\ edits = 0 => ~recommitted
    /\ tx # None => OnItsWay
    /\ client # None => tx # None /\ client = ClientAnswer(built, tx)
    /\ outcome # None => /\ tx # None
                         /\ outcome.verdict = ProgramVerdict(Shown(tx), "Ok")
                         /\ outcome.view = Shown(tx)
-------------------------------------------------------------------------------
\* No instruction of an accepted suffix is a guard or passes for one.
LEMMA SuffixHasNoGuard ==
    ASSUME NEW suffix, NEW adapter, NEW mint, CheckSuffix(suffix, adapter, mint) = "Ok"
    PROVE  \A i \in 1 .. Len(suffix) :
              /\ suffix[i].program \notin {GuardProgram, "Wrapper"}
              /\ suffix[i].data.tag # "guard"
  <1> DEFINE trade == suffix[Len(suffix)]
  <1>1. /\ Len(suffix) \in {3, 4}
        /\ suffix[1].program = COMPUTE_BUDGET_PROGRAM_ID
        /\ suffix[2].program = COMPUTE_BUDGET_PROGRAM_ID
        /\ Len(suffix) = 4 => /\ suffix[3].program = ASSOCIATED_TOKEN_PROGRAM_ID
                              /\ CheckSetup(suffix[3], Route(trade)) = "Ok"
        /\ trade.program = JUPITER_PROGRAM_ID
        /\ CheckRoute(trade, adapter, mint) = "Ok"
    BY AcceptedSuffix
  <1>2. /\ suffix[1].data.tag = "SetComputeUnitPrice"
        /\ suffix[2].data.tag = "SetComputeUnitLimit"
    BY DEF CheckSuffix, CheckComputeBudget
  <1>3. trade.data.tag = "route_v2"
    BY <1>1 DEF CheckRoute
  <1>4. Len(suffix) = 4 => suffix[3].data.tag = "CreateIdempotent"
    BY <1>1 DEF CheckSetup
  <1>5. ASSUME NEW i \in 1 .. Len(suffix)
        PROVE  i = 1 \/ i = 2 \/ i = Len(suffix) \/ (i = 3 /\ Len(suffix) = 4)
    BY <1>1
  <1> HIDE DEF trade
  <1>6. trade = suffix[Len(suffix)]
    BY DEF trade
  <1>7. /\ COMPUTE_BUDGET_PROGRAM_ID \notin {GuardProgram, "Wrapper"}
        /\ ASSOCIATED_TOKEN_PROGRAM_ID \notin {GuardProgram, "Wrapper"}
        /\ JUPITER_PROGRAM_ID \notin {GuardProgram, "Wrapper"}
    BY DEF COMPUTE_BUDGET_PROGRAM_ID, ASSOCIATED_TOKEN_PROGRAM_ID, JUPITER_PROGRAM_ID, GuardProgram
  <1> TAKE i \in 1 .. Len(suffix)
  <1>8. CASE i = 1
    BY <1>1, <1>2, <1>7, <1>8
  <1>9. CASE i = 2
    BY <1>1, <1>2, <1>7, <1>9
  <1>10. CASE i = Len(suffix)
    BY <1>1, <1>3, <1>6, <1>7, <1>10
  <1>11. CASE i = 3 /\ Len(suffix) = 4
    BY <1>1, <1>4, <1>7, <1>11
  <1> QED
    BY <1>5, <1>8, <1>9, <1>10, <1>11

\* What a list behind its first instruction is, in the view of it.
LEMMA ViewTail ==
    ASSUME NEW view, IsInstructionList(view), Len(view) # 0
    PROVE  /\ Len(Tail(view)) = Len(view) - 1
           /\ \A i \in 2 .. Len(view) : i - 1 \in 1 .. Len(Tail(view)) /\ view[i] = Tail(view)[i - 1]
  <1>1. IsSequence(view) /\ Len(view) \in Nat
    BY ListElements DEF IsInstructionList
  <1>2. /\ Len(Tail(view)) = Len(view) - 1
        /\ \A i \in 1 .. Len(view) - 1 : Tail(view)[i] = view[i + 1]
    BY <1>1, TailSequence
  <1>3. ASSUME NEW i \in 2 .. Len(view)
        PROVE  i - 1 \in 1 .. Len(Tail(view)) /\ view[i] = Tail(view)[i - 1]
    <2>1. i - 1 \in 1 .. Len(view) - 1 /\ (i - 1) + 1 = i
      BY <1>1
    <2> QED
      BY <1>2, <2>1
  <1> QED
    BY <1>2, <1>3

\* The one guard of a list whose first instruction it is and whose rest passes
\* check_suffix.
LEMMA OnlyFirstIsGuard ==
    ASSUME NEW view, IsInstructionList(view), Len(view) # 0, NEW adapter, NEW mint,
           CheckSuffix(Tail(view), adapter, mint) = "Ok"
    PROVE  /\ view[1].program = GuardProgram => Invocations(view) = {1}
           /\ \A i \in DOMAIN view : i # 1 => view[i].data.tag # "guard"
  <1>1. Len(view) \in Nat /\ DOMAIN view = 1 .. Len(view)
    BY ListElements
  <1>2. ASSUME NEW i \in DOMAIN view, i # 1
        PROVE  /\ view[i].program \notin {GuardProgram, "Wrapper"}
               /\ view[i].data.tag # "guard"
    <2>1. i \in 2 .. Len(view)
      BY <1>1, <1>2
    <2>2. i - 1 \in 1 .. Len(Tail(view)) /\ view[i] = Tail(view)[i - 1]
      BY <2>1, ViewTail
    <2> QED
      BY <2>2, SuffixHasNoGuard
  <1>3. 1 \in DOMAIN view
    BY <1>1
  <1> QED
    BY <1>2, <1>3 DEF Invocations

\* The builders write one commitment, into the guard.
LEMMA BuildCarries ==
    ASSUME NEW b, IsBuild(b)
    PROVE  CarriesCommitment(b.tx.instructions, CommitmentIn(b))
  <1> DEFINE list == b.tx.instructions
             n    == Len(list)
  <1>1. IsInstructionList(list)
    BY DEF IsBuild
  <1>2. n \in Nat /\ DOMAIN list = 1 .. n
    BY <1>1, ListElements
  <1> SUFFICES ASSUME NEW i \in DOMAIN list, list[i].data.tag = "guard"
               PROVE  list[i].data.commitment = CommitmentIn(b)
    BY DEF CarriesCommitment
  <1>3. CASE TransferBuild(b)
    <2>1. /\ n >= 2
          /\ list[n - 1] = Guard(Equity, TransferKind, CommitmentIn(b))
          /\ SupportedTransferChecked(list[n])
          /\ \A k \in 1 .. n - 2 : list[k].data.tag # "guard"
      BY <1>3 DEF TransferBuild
    <2>2. list[n].data.tag = "TransferChecked"
      BY <2>1 DEF SupportedTransferChecked
    <2>3. Guard(Equity, TransferKind, CommitmentIn(b)).data.commitment = CommitmentIn(b)
      BY GuardInstruction
    <2>4. i \in 1 .. n - 2 \/ i = n - 1 \/ i = n
      BY <1>2, <2>1
    <2> HIDE DEF list, n
    <2>5. CASE i = n
      BY <2>2, <2>5
    <2>6. CASE i = n - 1
      BY <2>1, <2>3, <2>6
    <2> QED
      BY <2>1, <2>4, <2>5, <2>6
  <1>4. CASE JupiterBuild(b)
    <2> DEFINE view == SysvarView(list, b.tx.feePayer)
    <2>1. /\ Len(list) >= 1
          /\ list[1] = Guard(Equity, b.kind, CommitmentIn(b))
          /\ b.committed = Tail(view)
          /\ CheckSuffix(b.committed, b.kind, Equity) = "Ok"
      BY <1>4 DEF JupiterBuild
    <2>2. /\ IsInstructionList(view) /\ Len(view) = Len(list) /\ DOMAIN view = DOMAIN list
          /\ view[i].data = list[i].data
      BY <1>1, SysvarViewList
    <2>3. Guard(Equity, b.kind, CommitmentIn(b)).data.commitment = CommitmentIn(b)
      BY GuardInstruction
    <2>4. CheckSuffix(Tail(view), b.kind, Equity) = "Ok" /\ Len(view) # 0
      BY <1>2, <2>1, <2>2
    <2> HIDE DEF view, list
    <2>5. i # 1 => view[i].data.tag # "guard"
      BY <2>2, <2>4, OnlyFirstIsGuard
    <2>6. i = 1
      BY <2>2, <2>5
    <2> QED
      BY <2>1, <2>3, <2>6
  <1> QED
    BY <1>3, <1>4 DEF IsBuild
-------------------------------------------------------------------------------
\* The steps of a transaction's life.
LEMMA BuiltTransactions ==
    /\ \A transfer, before, feePayer :
         LET t == GuardedTransferChecked(transfer, before, feePayer).tx
         IN  t = Transaction(t.instructions, t.feePayer)
    /\ \A transfer, feePayer :
         LET t == BuildPublicGuardedTransfer(transfer, feePayer).tx
         IN  t = Transaction(t.instructions, t.feePayer)
    /\ \A build, adapter, feePayer :
         LET t == GuardedJupiterTrade(build, adapter, feePayer).tx
         IN  t = Transaction(t.instructions, t.feePayer)
  <1>1. \A list, feePayer : LET t == Transaction(list, feePayer)
                            IN  t = Transaction(t.instructions, t.feePayer)
    BY TransactionFields
  <1>2. \A transfer, before, feePayer :
           \E list : GuardedTransferChecked(transfer, before, feePayer).tx = Transaction(list, feePayer)
    BY DEF GuardedTransferChecked
  <1>3. \A transfer, feePayer :
           \E list : BuildPublicGuardedTransfer(transfer, feePayer).tx = Transaction(list, feePayer)
    BY DEF BuildPublicGuardedTransfer
  <1>4. \A build, adapter, feePayer :
           \E list : GuardedJupiterTrade(build, adapter, feePayer).tx = Transaction(list, feePayer)
    BY DEF GuardedJupiterTrade
  <1> QED
    BY <1>1, <1>2, <1>3, <1>4

LEMMA NewData ==
    ASSUME NEW i, IsInstruction(i), NEW data
    PROVE  IsInstruction([i EXCEPT !.data = data])
  <1>1. /\ i = Instruction(i.program, i.accounts, i.data)
        /\ IsSequence(i.accounts)
        /\ \A j \in DOMAIN i.accounts :
             i.accounts[j] = Meta(i.accounts[j].address, i.accounts[j].signer, i.accounts[j].writable)
    BY InstructionFields
  <1> DEFINE p == i.program
             a == i.accounts
             d == i.data
  <1>2. i = [program |-> p, accounts |-> a, data |-> d]
    BY <1>1 DEF Instruction
  <1> HIDE DEF p, a, d
  <1>3. [i EXCEPT !.data = data] = Instruction(p, a, data)
    BY <1>2 DEF Instruction
  <1> QED
    BY <1>1, <1>3, MakeInstruction DEF p, a

LEMMA ReplacedInstruction ==
    ASSUME NEW list, IsInstructionList(list), NEW i \in DOMAIN list, NEW new, IsInstruction(new)
    PROVE  IsInstructionList([list EXCEPT ![i] = new])
  <1> DEFINE r == [list EXCEPT ![i] = new]
  <1>1. /\ Len(list) \in Nat /\ DOMAIN list = 1 .. Len(list)
        /\ list = [k \in 1 .. Len(list) |-> list[k]]
        /\ \A k \in 1 .. Len(list) : IsInstruction(list[k])
    BY ListElements
  <1>2. r = [k \in 1 .. Len(list) |-> r[k]] /\ DOMAIN r = DOMAIN list
    BY <1>1
  <1>3. IsSequence(r)
    BY <1>1, <1>2, FunctionIsSequence
  <1>4. \A k \in DOMAIN list : r[k] = IF k = i THEN new ELSE list[k]
    BY <1>1
  <1> HIDE DEF r
  <1>5. \A k \in DOMAIN r : IsInstruction(r[k])
    BY <1>1, <1>2, <1>4
  <1>6. IsInstructionList(r)
    BY <1>3, <1>5 DEF IsInstructionList
  <1> QED
    BY <1>6 DEF r

LEMMA NewInstructions ==
    ASSUME NEW t, t = Transaction(t.instructions, t.feePayer), NEW list, NEW feePayer
    PROVE  /\ [t EXCEPT !.instructions = list] = Transaction(list, t.feePayer)
           /\ [t EXCEPT !.feePayer = feePayer] = Transaction(t.instructions, feePayer)
  <1> DEFINE l == t.instructions
             f == t.feePayer
  <1>1. t = [instructions |-> l, feePayer |-> f]
    BY DEF Transaction
  <1> HIDE DEF l, f
  <1>2. /\ [t EXCEPT !.instructions = list] = Transaction(list, f)
        /\ [t EXCEPT !.feePayer = feePayer] = Transaction(l, feePayer)
    BY <1>1 DEF Transaction
  <1> QED
    BY <1>2 DEF l, f

\* A new build meets the invariant in any state before it.
LEMMA BuildStep ==
    ASSUME TransactionInv, NothingBuilt, IsBuild(built'), tx' = built'.tx,
           tx' = Transaction(tx'.instructions, tx'.feePayer),
           UNCHANGED <<edits, recommitted, table, client, outcome>>
    PROVE  TransactionInv'
  <1>1. client = None /\ outcome = None /\ edits \in Nat /\ (edits = 0 => ~recommitted)
    BY DEF TransactionInv, NothingBuilt
  <1>2. CarriesCommitment(built'.tx.instructions, CommitmentIn(built'))
    BY BuildCarries
  <1>3. IsInstructionList(tx'.instructions)
    BY DEF IsBuild
  <1>4. OnItsWay'
    BY <1>2, <1>3 DEF OnItsWay
  <1> QED
    BY <1>1, <1>4 DEF TransactionInv

LEMMA RefusalStep ==
    ASSUME TransactionInv, NothingBuilt, built' = "refused",
           UNCHANGED <<tx, edits, recommitted, table, client, outcome>>
    PROVE  TransactionInv'
  <1>1. tx = None /\ client = None /\ outcome = None /\ edits \in Nat /\ (edits = 0 => ~recommitted)
    BY DEF TransactionInv, NothingBuilt
  <1> QED
    BY <1>1 DEF TransactionInv

LEMMA TransactionInvInit == TransactionInit => TransactionInv
  BY DEF TransactionInit, TransactionInv

LEMMA BuildTransferStep == TransactionInv /\ BuildTransfer => TransactionInv'
  <1> SUFFICES ASSUME TransactionInv, BuildTransfer
               PROVE  TransactionInv'
    OBVIOUS
  <1>1. PICK transfer \in Transfers, before \in Befores, feePayer \in Payers :
           IF SupportedTransferChecked(transfer)
           THEN /\ built' = GuardedTransferChecked(transfer, before, feePayer)
                /\ tx' = built'.tx
           ELSE built' = "refused" /\ UNCHANGED tx
    BY DEF BuildTransfer
  <1>2. NothingBuilt /\ UNCHANGED <<edits, recommitted, table, client, outcome>>
    BY DEF BuildTransfer
  <1>3. CASE SupportedTransferChecked(transfer)
    <2>1. built' = GuardedTransferChecked(transfer, before, feePayer) /\ tx' = built'.tx
      BY <1>1, <1>3
    <2>2. IsBuild(built')
      BY <1>3, <2>1, GuardedTransferCheckedIsBuild
    <2>3. tx' = Transaction(tx'.instructions, tx'.feePayer)
      BY <2>1, BuiltTransactions
    <2> QED
      BY <1>2, <2>1, <2>2, <2>3, BuildStep
  <1>4. CASE ~SupportedTransferChecked(transfer)
    BY <1>1, <1>2, <1>4, RefusalStep
  <1> QED
    BY <1>3, <1>4

LEMMA BuildPublicTransferStep == TransactionInv /\ BuildPublicTransfer => TransactionInv'
  <1> SUFFICES ASSUME TransactionInv, BuildPublicTransfer
               PROVE  TransactionInv'
    OBVIOUS
  <1>1. PICK transfer \in {t \in Transfers : SupportedTransferChecked(t)} :
           /\ built' = BuildPublicGuardedTransfer(transfer, Taker)
           /\ tx' = built'.tx
    BY DEF BuildPublicTransfer
  <1>2. NothingBuilt /\ UNCHANGED <<edits, recommitted, table, client, outcome>>
    BY DEF BuildPublicTransfer
  <1>3. transfer \in Transfers /\ SupportedTransferChecked(transfer)
    OBVIOUS
  <1>4. IsBuild(built')
    BY <1>1, <1>3, PublicGuardedTransferIsBuild
  <1>5. tx' = Transaction(tx'.instructions, tx'.feePayer)
    BY <1>1, BuiltTransactions
  <1> QED
    BY <1>1, <1>2, <1>4, <1>5, BuildStep

LEMMA BuildJupiterStep == TransactionInv /\ BuildJupiter => TransactionInv'
  <1> SUFFICES ASSUME TransactionInv, BuildJupiter
               PROVE  TransactionInv'
    OBVIOUS
  <1>1. PICK build \in Builds, adapter \in {BuyKind, SellKind}, feePayer \in Payers :
           IF ComposableJupiterTrade(build, adapter, feePayer)
           THEN /\ built' = GuardedJupiterTrade(build, adapter, feePayer)
                /\ tx' = built'.tx
           ELSE built' = "refused" /\ UNCHANGED tx
    BY DEF BuildJupiter
  <1>2. NothingBuilt /\ UNCHANGED <<edits, recommitted, table, client, outcome>>
    BY DEF BuildJupiter
  <1>3. CASE ComposableJupiterTrade(build, adapter, feePayer)
    <2>1. built' = GuardedJupiterTrade(build, adapter, feePayer) /\ tx' = built'.tx
      BY <1>1, <1>3
    <2>2. IsBuild(built')
      BY <1>3, <2>1, JupiterTradeIsBuild
    <2>3. tx' = Transaction(tx'.instructions, tx'.feePayer)
      BY <2>1, BuiltTransactions
    <2> QED
      BY <1>2, <2>1, <2>2, <2>3, BuildStep
  <1>4. CASE ~ComposableJupiterTrade(build, adapter, feePayer)
    BY <1>1, <1>2, <1>4, RefusalStep
  <1> QED
    BY <1>3, <1>4

LEMMA EditStep == TransactionInv /\ Edit => TransactionInv'
  <1> SUFFICES ASSUME TransactionInv, Edit
               PROVE  TransactionInv'
    OBVIOUS
  <1>1. /\ tx # None /\ outcome = None /\ client' = None /\ edits' = edits + 1
        /\ UNCHANGED <<built, recommitted, table, outcome>>
    BY DEF Edit
  <1>2. /\ IsBuild(built) /\ IsInstructionList(tx.instructions) /\ edits \in Nat
        /\ tx = Transaction(tx.instructions, tx.feePayer)
        /\ ~recommitted => CarriesCommitment(tx.instructions, CommitmentIn(built))
    BY <1>1 DEF TransactionInv, OnItsWay
  <1>3. edits' \in Nat /\ edits' # 0
    BY <1>1, <1>2
  <1>4. /\ IsInstructionList(tx'.instructions)
        /\ tx' = Transaction(tx'.instructions, tx'.feePayer)
        /\ ~recommitted => CarriesCommitment(tx'.instructions, CommitmentIn(built))
    <2>1. CASE \E list \in EditedList(tx.instructions) : tx' = [tx EXCEPT !.instructions = list]
      <3>1. PICK list \in EditedList(tx.instructions) : tx' = [tx EXCEPT !.instructions = list]
        BY <2>1
      <3>2. tx' = Transaction(list, tx.feePayer)
        BY <1>2, <3>1, NewInstructions
      <3>3. tx'.instructions = list /\ tx'.feePayer = tx.feePayer
        BY <3>2, TransactionFields
      <3>4. IsInstructionList(list)
        BY <1>2, EditedListElements
      <3>5. ~recommitted => CarriesCommitment(list, CommitmentIn(built))
        BY <1>2, EditKeepsCommitment
      <3> QED
        BY <3>2, <3>3, <3>4, <3>5
    <2>2. CASE \E feePayer \in Payers \ {tx.feePayer} : tx' = [tx EXCEPT !.feePayer = feePayer]
      <3>1. PICK feePayer \in Payers : tx' = [tx EXCEPT !.feePayer = feePayer]
        BY <2>2
      <3>2. tx' = Transaction(tx.instructions, feePayer)
        BY <1>2, <3>1, NewInstructions
      <3>3. tx'.instructions = tx.instructions /\ tx'.feePayer = feePayer
        BY <3>2, TransactionFields
      <3> QED
        BY <1>2, <3>2, <3>3
    <2> QED
      BY <2>1, <2>2 DEF Edit
  <1>5. OnItsWay'
    BY <1>1, <1>2, <1>3, <1>4 DEF OnItsWay
  <1> QED
    BY <1>1, <1>3, <1>5 DEF TransactionInv

LEMMA RecommitStep == TransactionInv /\ Recommit => TransactionInv'
  <1> SUFFICES ASSUME TransactionInv, Recommit
               PROVE  TransactionInv'
    OBVIOUS
  <1>1. /\ tx # None /\ outcome = None /\ client' = None /\ recommitted' = TRUE /\ edits > 0
        /\ UNCHANGED <<built, edits, table, outcome>>
    BY DEF Recommit
  <1>2. /\ IsBuild(built) /\ IsInstructionList(tx.instructions) /\ edits \in Nat
        /\ tx = Transaction(tx.instructions, tx.feePayer)
    BY <1>1 DEF TransactionInv, OnItsWay
  <1>3. edits # 0
    BY <1>1, <1>2
  <1>4. \E i \in DOMAIN tx.instructions : \E commitment :
           tx' = [tx EXCEPT !.instructions[i].data.commitment = commitment]
    BY DEF Recommit
  <1>5. PICK i, commitment : /\ i \in DOMAIN tx.instructions
                             /\ tx' = [tx EXCEPT !.instructions[i].data.commitment = commitment]
    BY <1>4
  <1> DEFINE old == tx.instructions[i]
             new == [old EXCEPT !.data = [old.data EXCEPT !.commitment = commitment]]
             list == [tx.instructions EXCEPT ![i] = new]
  <1>6. IsInstruction(old)
    BY <1>2, <1>5 DEF IsInstructionList
  <1>7. tx' = [tx EXCEPT !.instructions = list]
    BY <1>5
  <1> HIDE DEF old
  <1>8. IsInstruction(new)
    BY <1>6, NewData
  <1> HIDE DEF new
  <1>9. IsInstructionList(list)
    BY <1>2, <1>5, <1>8, ReplacedInstruction
  <1> HIDE DEF list
  <1>10. tx' = Transaction(list, tx.feePayer)
    BY <1>2, <1>7, NewInstructions
  <1>11. tx'.instructions = list /\ tx'.feePayer = tx.feePayer
    BY <1>10, TransactionFields
  <1>12. OnItsWay'
    BY <1>1, <1>2, <1>3, <1>9, <1>10, <1>11 DEF OnItsWay
  <1> QED
    BY <1>1, <1>2, <1>3, <1>12 DEF TransactionInv

LEMMA VerifyStep == TransactionInv /\ (Verify \/ VerifySigned) => TransactionInv'
  <1> SUFFICES ASSUME TransactionInv, Verify \/ VerifySigned
               PROVE  TransactionInv'
    OBVIOUS
  <1>1. tx # None /\ outcome = None /\ UNCHANGED <<built, tx, edits, recommitted, table, outcome>>
    BY DEF Verify, VerifySigned
  <1>2. client' = ClientAnswer(built, tx)
    <2>1. VerifyWalletSignedTransaction(built, tx).verdict = VerifySignedTransaction(built, tx)
      BY DEF VerifyWalletSignedTransaction
    <2> QED
      BY <2>1 DEF ClientAnswer, Verify, VerifySigned
  <1>3. ClientAnswer(built, tx)' = ClientAnswer(built, tx)
    BY <1>1
  <1>4. OnItsWay'
    BY <1>1 DEF TransactionInv, OnItsWay
  <1> QED
    BY <1>1, <1>2, <1>3, <1>4 DEF TransactionInv

LEMMA ExecuteStep == TransactionInv /\ Execute => TransactionInv'
  <1> SUFFICES ASSUME TransactionInv, Execute
               PROVE  TransactionInv'
    OBVIOUS
  <1>1. tx # None /\ UNCHANGED <<built, tx, edits, recommitted, table, client>>
    BY DEF Execute
  <1>2. outcome' = [verdict |-> ProgramVerdict(Shown(tx), "Ok"), view |-> Shown(tx)]
    BY DEF Execute, Shown
  <1>3. Shown(tx)' = Shown(tx)
    BY <1>1 DEF Shown, Loaded
  <1>4. outcome'.verdict = ProgramVerdict(Shown(tx)', "Ok") /\ outcome'.view = Shown(tx)'
    BY <1>2, <1>3
  <1>5. ClientAnswer(built, tx)' = ClientAnswer(built, tx)
    BY <1>1
  <1>6. OnItsWay'
    BY <1>1 DEF TransactionInv, OnItsWay
  <1> QED
    BY <1>1, <1>4, <1>5, <1>6 DEF TransactionInv

LEMMA TransactionStutter == TransactionInv /\ UNCHANGED transactionVars => TransactionInv'
  <1> SUFFICES ASSUME TransactionInv, UNCHANGED transactionVars
               PROVE  TransactionInv'
    OBVIOUS
  <1>1. UNCHANGED <<built, tx, edits, recommitted, table, client, outcome>>
    BY DEF transactionVars
  <1>2. Shown(tx)' = Shown(tx)
    BY <1>1 DEF Shown, Loaded
  <1>3. OnItsWay' <=> OnItsWay
    BY <1>1 DEF OnItsWay
  <1> QED
    BY <1>1, <1>2, <1>3 DEF TransactionInv

\* The inductive invariant, for any number of edits.
THEOREM TransactionCorrect == TransactionSpec => []TransactionInv
  <1>1. TransactionInit => TransactionInv
    BY TransactionInvInit
  <1>2. TransactionInv /\ [TransactionNext]_transactionVars => TransactionInv'
    BY BuildTransferStep, BuildPublicTransferStep, BuildJupiterStep, EditStep, RecommitStep,
       VerifyStep, ExecuteStep, TransactionStutter DEF TransactionNext
  <1> QED
    BY <1>1, <1>2, PTL DEF TransactionSpec
-------------------------------------------------------------------------------
\* A guard for the protected mint, as the sysvar shows it.
IsGuard(instruction, adapter, commitment) ==
    /\ instruction.program = GuardProgram
    /\ instruction.data = AssertSafeExecutionV2(Equity, adapter, commitment)
    /\ Len(instruction.accounts) = 2
    /\ instruction.accounts[1].address = Equity
    /\ instruction.accounts[2].address = INSTRUCTIONS_SYSVAR

LEMMA ShownGuard ==
    ASSUME NEW list, IsInstructionList(list), NEW i \in DOMAIN list, NEW feePayer,
           NEW adapter, NEW commitment, list[i] = Guard(Equity, adapter, commitment)
    PROVE  IsGuard(SysvarView(list, feePayer)[i], adapter, commitment)
  <1> DEFINE g    == Guard(Equity, adapter, commitment)
             seen == SysvarView(list, feePayer)[i]
  <1>1. /\ g.program = GuardProgram
        /\ Len(g.accounts) = 2 /\ DOMAIN g.accounts = 1 .. 2
        /\ g.accounts[1].address = Equity /\ g.accounts[2].address = INSTRUCTIONS_SYSVAR
    BY GuardInstruction
  <1>2. g.data = AssertSafeExecutionV2(Equity, adapter, commitment)
    BY DEF Guard, Instruction
  <1> HIDE DEF g, seen
  <1>3. /\ seen.program = g.program /\ seen.data = g.data
        /\ Len(seen.accounts) = Len(g.accounts)
        /\ \A j \in DOMAIN g.accounts : seen.accounts[j].address = g.accounts[j].address
    BY SysvarViewList DEF g, seen
  <1>4. 1 \in DOMAIN g.accounts /\ 2 \in DOMAIN g.accounts
    BY <1>1
  <1>5. IsGuard(seen, adapter, commitment)
    BY <1>1, <1>2, <1>3, <1>4 DEF IsGuard
  <1> QED
    BY <1>5 DEF seen

\* What assert_safe_execution answers when it is the guard of a builder.
GuardAnswers(view, i, guard, adapter, commitment) ==
    /\ guard.data.expectedMint = Equity
    /\ guard.data.adapter = adapter
    /\ guard.data.commitment = commitment
    /\ InvocationVerdict(view, i) = IF adapter = TransferKind
                                    THEN VerifyTransferChecked(view, i, guard.data)
                                    ELSE VerifyJupiterSuffix(view, i, guard.data)

LEMMA GuardVerdict ==
    ASSUME NEW view, NEW i, NEW adapter, adapter \in {TransferKind, BuyKind, SellKind},
           NEW commitment, NEW guard, guard = view[i], IsGuard(guard, adapter, commitment)
    PROVE  GuardAnswers(view, i, guard, adapter, commitment)
  <1> DEFINE accounts == guard.accounts
             data     == guard.data
  <1>1. /\ data.tag = "guard" /\ data.version = 2 /\ data.expectedMint = Equity
        /\ data.adapter = adapter /\ data.commitment = commitment
    BY DEF IsGuard, AssertSafeExecutionV2
  <1>2. /\ view[i].program = GuardProgram /\ view[i].data = data
        /\ Len(accounts) = 2
        /\ accounts[1].address = Equity /\ accounts[2].address = INSTRUCTIONS_SYSVAR
    BY DEF IsGuard
  <1>3. Unpack(data) = "Ok"
    BY <1>1 DEF Unpack
  <1>4. Decode(Equity) = "Ok"
    BY TransactionConstants
  <1> HIDE DEF accounts, data
  <1>5. VerifyDownstream(view, i, data) = IF adapter = TransferKind
                                          THEN VerifyTransferChecked(view, i, data)
                                          ELSE VerifyJupiterSuffix(view, i, data)
    BY <1>1, <1>2 DEF VerifyDownstream
  <1>6. AssertSafeTransaction(view, i, accounts, data, Decode, "Ok") = VerifyDownstream(view, i, data)
    BY <1>1, <1>2, <1>3, <1>4 DEF AssertSafeTransaction
  <1>7. InvocationVerdict(view, i) = VerifyDownstream(view, i, data)
    BY <1>6 DEF InvocationVerdict, accounts, data
  <1> QED
    BY <1>1, <1>5, <1>7 DEF data, GuardAnswers

\* checkGuardedJupiterTransaction is what the program answers to its guard.
LEMMA TradeGuardVerdict ==
    ASSUME NEW view, NEW adapter \in {BuyKind, SellKind}, NEW commitment,
           NEW guard, guard = view[1], IsGuard(guard, adapter, commitment)
    PROVE  InvocationVerdict(view, 1) = CheckGuardedJupiterTransaction(view, adapter, commitment)
  <1>1. adapter \in {TransferKind, BuyKind, SellKind} /\ adapter # TransferKind
    BY DEF TransferKind, BuyKind, SellKind
  <1>2. GuardAnswers(view, 1, guard, adapter, commitment)
    BY <1>1, GuardVerdict
  <1>3. VerifyJupiterSuffix(view, 1, guard.data)
          = CheckGuardedJupiterTransaction(view, adapter, commitment)
    BY <1>2, ClientGrammarIsPrograms, ClientCommitmentIsPrograms
       DEF VerifyJupiterSuffix, CheckGuardedJupiterTransaction, GuardAnswers
  <1> QED
    BY <1>1, <1>2, <1>3 DEF GuardAnswers

LEMMA TransferGuardAccepts ==
    ASSUME NEW view, NEW i, i # Len(view), NEW commitment,
           NEW guard, guard = view[i], IsGuard(guard, TransferKind, commitment),
           NEW next, next = view[i + 1], next.program = TOKEN_2022_PROGRAM_ID,
           next.data.tag = "TransferChecked", Len(next.accounts) \in Nat, Len(next.accounts) >= 4,
           next.accounts[2].address = Equity, DownstreamCommitment(next) = commitment
    PROVE  InvocationVerdict(view, i) = "Ok"
  <1>1. GuardAnswers(view, i, guard, TransferKind, commitment)
    BY GuardVerdict
  <1>2. ~(Len(next.accounts) < 4)
    OBVIOUS
  <1>3. VerifyTransferChecked(view, i, guard.data) = "Ok"
    BY <1>1, <1>2 DEF VerifyTransferChecked, GuardAnswers
  <1> QED
    BY <1>1, <1>3 DEF GuardAnswers

\* Where nothing is demoted the program is shown what the client computes.
LEMMA NothingDemoted ==
    ASSUME NEW list, NEW feePayer, Demoted(list, feePayer) = {}
    PROVE  RuntimeView(list, feePayer) = SysvarView(list, feePayer)
  <1>1. Writables(list, feePayer) \ Demoted(list, feePayer) = Writables(list, feePayer)
    OBVIOUS
  <1> QED
    BY <1>1 DEF RuntimeView, SysvarView

LEMMA ShownTransaction ==
    ASSUME NEW t, IsInstructionList(t.instructions), table = LookedUp
    PROVE  Shown(t) = RuntimeView(t.instructions, t.feePayer)
  BY LoadedList DEF Shown

\* What a builder of kind 1 shows: the guard and its transfer at the end, and
\* nothing before them that invokes a guard.
InvokesGuard(instruction) ==
    \/ instruction.program = GuardProgram
    \/ instruction.program = "Wrapper" /\ instruction.data.tag = "guard"

IsCommittedTransfer(instruction, commitment) ==
    /\ instruction.program = TOKEN_2022_PROGRAM_ID
    /\ instruction.data.tag = "TransferChecked"
    /\ Len(instruction.accounts) \in Nat /\ Len(instruction.accounts) >= 4
    /\ instruction.accounts[2].address = Equity
    /\ DownstreamCommitment(instruction) = commitment

ShowsTransfer(view, n, commitment) ==
    /\ Len(view) = n /\ n \in Nat /\ n >= 2
    /\ IsGuard(view[n - 1], TransferKind, commitment)
    /\ IsCommittedTransfer(view[n], commitment)
    /\ \A i \in 1 .. n - 2 : ~InvokesGuard(view[i])

LEMMA InvocationsAre ==
    ASSUME NEW view
    PROVE  Invocations(view) = {i \in DOMAIN view : InvokesGuard(view[i])}
  BY DEF Invocations, InvokesGuard

LEMMA OneGuardInTransfer ==
    ASSUME NEW view, IsInstructionList(view), NEW n, NEW commitment, ShowsTransfer(view, n, commitment)
    PROVE  Invocations(view) = {n - 1}
  <1>1. /\ Len(view) = n /\ n \in Nat /\ n >= 2
        /\ IsGuard(view[n - 1], TransferKind, commitment)
        /\ IsCommittedTransfer(view[n], commitment)
        /\ \A i \in 1 .. n - 2 : ~InvokesGuard(view[i])
    BY DEF ShowsTransfer
  <1>2. DOMAIN view = 1 .. n
    BY <1>1, ListElements
  <1>3. InvokesGuard(view[n - 1])
    BY <1>1 DEF IsGuard, InvokesGuard
  <1>4. ~InvokesGuard(view[n])
    BY <1>1 DEF IsCommittedTransfer, InvokesGuard, GuardProgram, TOKEN_2022_PROGRAM_ID
  <1>5. \A i \in 1 .. n : i \in 1 .. n - 2 \/ i = n - 1 \/ i = n
    BY <1>1
  <1>6. n - 1 \in DOMAIN view
    BY <1>1, <1>2
  <1>7. \A i \in DOMAIN view : InvokesGuard(view[i]) <=> i = n - 1
    BY <1>1, <1>2, <1>3, <1>4, <1>5
  <1> QED
    BY <1>6, <1>7, InvocationsAre

LEMMA TransferIsAccepted ==
    ASSUME NEW view, IsInstructionList(view), NEW n, NEW commitment, ShowsTransfer(view, n, commitment)
    PROVE  ProgramVerdict(view, "Ok") = "Ok"
  <1> DEFINE i     == n - 1
             guard == view[i]
             next  == view[i + 1]
  <1>1. /\ Len(view) = n /\ n \in Nat
        /\ IsGuard(guard, TransferKind, commitment)
        /\ IsCommittedTransfer(view[n], commitment)
    BY DEF ShowsTransfer
  <1>2. i + 1 = n /\ i # Len(view)
    BY <1>1
  <1>3. IsCommittedTransfer(next, commitment)
    BY <1>1, <1>2
  <1>4. Invocations(view) = {i}
    BY OneGuardInTransfer
  <1>5. guard = view[i] /\ next = view[i + 1]
    OBVIOUS
  <1> HIDE DEF guard, next, i
  <1>6. /\ next.program = TOKEN_2022_PROGRAM_ID
        /\ next.data.tag = "TransferChecked" /\ Len(next.accounts) \in Nat
        /\ Len(next.accounts) >= 4
        /\ next.accounts[2].address = Equity /\ DownstreamCommitment(next) = commitment
    BY <1>3 DEF IsCommittedTransfer
  <1>7. InvocationVerdict(view, i) = "Ok"
    BY <1>1, <1>2, <1>5, <1>6, TransferGuardAccepts
  <1> QED
    BY <1>4, <1>7, NoGuardFails

LEMMA BuiltTransferShown ==
    ASSUME NEW b, IsBuild(b), TransferBuild(b), NEW list, list = b.tx.instructions
    PROVE  ShowsTransfer(SysvarView(list, b.tx.feePayer), Len(list), CommitmentIn(b))
  <1> DEFINE n    == Len(list)
             view == SysvarView(list, b.tx.feePayer)
             c    == CommitmentIn(b)
  <1>1. IsInstructionList(list)
    BY DEF IsBuild
  <1>2. n \in Nat /\ DOMAIN list = 1 .. n /\ \A i \in 1 .. n : IsInstruction(list[i])
    BY <1>1, ListElements
  <1>3. /\ b.kind = TransferKind
        /\ n >= 2
        /\ list[n - 1] = Guard(Equity, TransferKind, c)
        /\ SupportedTransferChecked(list[n])
        /\ b.committed = <<view[n]>>
        /\ \A i \in 1 .. n - 2 : list[i].program # GuardProgram /\ list[i].data.tag # "guard"
    BY DEF TransferBuild
  <1>4. c = DownstreamCommitment(view[n])
    BY <1>3 DEF CommitmentIn
  <1>5. /\ Len(view) = n
        /\ \A i \in DOMAIN list :
             /\ view[i].program = list[i].program
             /\ view[i].data = list[i].data
             /\ Len(view[i].accounts) = Len(list[i].accounts)
             /\ DOMAIN view[i].accounts = DOMAIN list[i].accounts
             /\ \A j \in DOMAIN list[i].accounts :
                  view[i].accounts[j].address = list[i].accounts[j].address
    BY <1>1, SysvarViewList
  <1>6. n \in DOMAIN list /\ n - 1 \in DOMAIN list
    BY <1>2, <1>3
  <1> HIDE DEF c
  <1>7. IsGuard(view[n - 1], TransferKind, c)
    BY <1>1, <1>3, <1>6, ShownGuard
  <1> HIDE DEF n, view
  <1>8. IsCommittedTransfer(view[n], c)
    <2> DEFINE transfer == list[n]
    <2>1. IsInstruction(transfer)
      BY <1>2, <1>6
    <2>2. /\ transfer.program = TOKEN_2022_PROGRAM_ID
          /\ transfer.data.tag = "TransferChecked"
          /\ Len(transfer.accounts) >= 4
          /\ transfer.accounts[2].address = Equity
      BY <1>3 DEF SupportedTransferChecked
    <2>3. Len(transfer.accounts) \in Nat /\ DOMAIN transfer.accounts = 1 .. Len(transfer.accounts)
      BY <2>1, InstructionFields, SequenceFacts
    <2>4. 2 \in DOMAIN transfer.accounts
      BY <2>2, <2>3
    <2>5. /\ view[n].program = transfer.program
          /\ view[n].data = transfer.data
          /\ Len(view[n].accounts) = Len(transfer.accounts)
          /\ \A j \in DOMAIN transfer.accounts :
               view[n].accounts[j].address = transfer.accounts[j].address
      BY <1>5, <1>6
    <2> HIDE DEF transfer
    <2>6. view[n].accounts[2].address = Equity
      BY <2>2, <2>4, <2>5
    <2> QED
      BY <1>4, <2>2, <2>3, <2>5, <2>6 DEF IsCommittedTransfer
  <1>9. ASSUME NEW i \in 1 .. n - 2
        PROVE  ~InvokesGuard(view[i])
    <2>1. i \in DOMAIN list
      BY <1>2
    <2>2. view[i].program = list[i].program /\ view[i].data = list[i].data
      BY <1>5, <2>1
    <2> QED
      BY <1>3, <2>2 DEF InvokesGuard
  <1>10. ShowsTransfer(view, n, c)
    BY <1>2, <1>3, <1>5, <1>7, <1>8, <1>9 DEF ShowsTransfer
  <1> QED
    BY <1>10 DEF view, n, c

\* What a builder of kinds 2 and 3 shows.
LEMMA BuiltTradeShown ==
    ASSUME NEW b, IsBuild(b), b.kind # TransferKind, NEW list, list = b.tx.instructions,
           NEW view, view = SysvarView(list, b.tx.feePayer)
    PROVE  /\ b.kind \in {BuyKind, SellKind}
           /\ IsInstructionList(view) /\ Len(view) # 0
           /\ IsGuard(view[1], b.kind, CommitmentIn(b))
           /\ CommitmentIn(b) = JupiterSuffixCommitment(b.committed)
           /\ Tail(view) = b.committed
           /\ CheckSuffix(b.committed, b.kind, Equity) = "Ok"
           /\ Demoted(list, b.tx.feePayer) = {}
           /\ IsDownstreamBinding(b.binding)
           /\ b.kind = BuyKind => IsTradeOfQuote(b.binding, b.quote, Equity)
  <1>1. IsInstructionList(list) /\ JupiterBuild(b)
    BY DEF IsBuild, TransferBuild
  <1>2. Len(list) \in Nat /\ DOMAIN list = 1 .. Len(list)
    BY <1>1, ListElements
  <1>3. /\ b.kind \in {BuyKind, SellKind}
        /\ Len(list) >= 1
        /\ list[1] = Guard(Equity, b.kind, CommitmentIn(b))
        /\ b.committed = Tail(view)
        /\ CheckSuffix(b.committed, b.kind, Equity) = "Ok"
        /\ Demoted(list, b.tx.feePayer) = {}
        /\ IsDownstreamBinding(b.binding)
        /\ b.kind = BuyKind => IsTradeOfQuote(b.binding, b.quote, Equity)
    BY <1>1 DEF JupiterBuild
  <1>4. 1 \in DOMAIN list /\ Len(list) # 0
    BY <1>2, <1>3
  <1>5. IsGuard(view[1], b.kind, CommitmentIn(b))
    BY <1>1, <1>3, <1>4, ShownGuard
  <1>6. IsInstructionList(view) /\ Len(view) = Len(list)
    BY <1>1, SysvarViewList
  <1>7. CommitmentIn(b) = JupiterSuffixCommitment(b.committed)
    BY DEF CommitmentIn
  <1> QED
    BY <1>3, <1>4, <1>5, <1>6, <1>7

\* A view with such a guard in front and an accepted suffix is accepted.
LEMMA TradeIsAccepted ==
    ASSUME NEW view, IsInstructionList(view), Len(view) # 0, NEW adapter \in {BuyKind, SellKind},
           NEW commitment, NEW guard, guard = view[1], IsGuard(guard, adapter, commitment),
           CheckGuardedJupiterTransaction(view, adapter, commitment) = "Ok"
    PROVE  ProgramVerdict(view, "Ok") = "Ok"
  <1>1. InvocationVerdict(view, 1) = "Ok"
    BY TradeGuardVerdict
  <1>2. CheckSuffix(Tail(view), adapter, Equity) = "Ok"
    BY ClientGrammarIsPrograms DEF CheckGuardedJupiterTransaction
  <1>3. view[1].program = GuardProgram
    BY DEF IsGuard
  <1>4. Invocations(view) = {1}
    BY <1>2, <1>3, OnlyFirstIsGuard
  <1> QED
    BY <1>1, <1>4, NoGuardFails
-------------------------------------------------------------------------------
\* jupiter.rs: what is accepted under kinds 2 and 3 is one trade of the owner, whoever
\* wrote the commitment, and however often the transaction was edited.
THEOREM TradesAreOwn == TransactionSpec => []AcceptedIsOneOwnTrade
  <1>1. TransactionInv => AcceptedIsOneOwnTrade
    <2> SUFFICES ASSUME TransactionInv, Accepted
                 PROVE  \A i \in Invocations(outcome.view) :
                          outcome.view[i].data.adapter # TransferKind => OneOwnTrade(outcome.view, i)
      BY Zenon DEF AcceptedIsOneOwnTrade, OneOwnTrade
    <2> DEFINE view == outcome.view
    <2>1. /\ tx # None
          /\ outcome.verdict = ProgramVerdict(Shown(tx), "Ok") /\ view = Shown(tx)
      BY DEF TransactionInv, Accepted
    <2>2. ProgramVerdict(view, "Ok") = "Ok"
      BY <2>1 DEF Accepted
    <2>3. IsInstructionList(tx.instructions)
      BY <2>1 DEF TransactionInv, OnItsWay
    <2> HIDE DEF view
    <2>4. IsInstructionList(view)
      BY <2>1, <2>3, RuntimeViewList DEF Shown
    <2>5. \A i \in Invocations(view) : i \in DOMAIN view /\ InvocationVerdict(view, i) = "Ok"
      BY <2>2, <2>4, AllGuardsAccept DEF Invocations
    <2>6. \A i \in Invocations(view) :
             view[i].data.adapter # TransferKind => OneOwnTrade(view, i)
      BY <2>4, <2>5, AcceptedTradeIsOwn
    <2> QED
      BY <2>6 DEF view
  <1> QED
    BY <1>1, TransactionCorrect, PTL

\* downstream.rs, jupiter.rs: what is accepted is what the client committed to, whatever
\* was edited since and whatever the chain's lookup table holds.
THEOREM CommitmentsHold == TransactionSpec => []AcceptedIsCommitted
  <1>1. TransactionInv => AcceptedIsCommitted
    <2> SUFFICES ASSUME TransactionInv, Accepted, ~recommitted
                 PROVE  IsCommitted(outcome.view, built)
      BY Zenon DEF AcceptedIsCommitted, IsCommitted
    <2> DEFINE view == outcome.view
    <2>1. /\ tx # None
          /\ outcome.verdict = ProgramVerdict(Shown(tx), "Ok") /\ view = Shown(tx)
      BY DEF TransactionInv, Accepted
    <2>2. ProgramVerdict(view, "Ok") = "Ok"
      BY <2>1 DEF Accepted
    <2>3. /\ IsBuild(built) /\ IsInstructionList(tx.instructions)
          /\ CarriesCommitment(tx.instructions, CommitmentIn(built))
      BY <2>1 DEF TransactionInv, OnItsWay
    <2> HIDE DEF view
    <2>4. /\ IsInstructionList(view) /\ DOMAIN view = DOMAIN tx.instructions
          /\ \A i \in DOMAIN tx.instructions : view[i].data = tx.instructions[i].data
      BY <2>1, <2>3, RuntimeViewList DEF Shown
    <2>5. CarriesCommitment(view, CommitmentIn(built))
      BY <2>3, <2>4 DEF CarriesCommitment
    <2>6. TransferBuild(built) \/ JupiterBuild(built)
      BY <2>3 DEF IsBuild
    <2>7. IsCommitted(view, built)
      BY <2>2, <2>4, <2>5, <2>6, AcceptedWasCommitted
    <2> QED
      BY <2>7 DEF view
  <1> QED
    BY <1>1, TransactionCorrect, PTL

\* compose.ts: what the client builds the program accepts, and createExecutionPlan too.
THEOREM BuildsAreAccepted == TransactionSpec => []BuiltIsAccepted
  <1>1. TransactionInv => BuiltIsAccepted
    <2> SUFFICES ASSUME TransactionInv, outcome # None, edits = 0, table = LookedUp
                 PROVE  /\ \/ outcome.verdict = "Ok"
                           \/ built.kind = TransferKind /\ Demoted(tx.instructions, tx.feePayer) # {}
                        /\ built.kind # TransferKind => IsDownstreamBinding(built.binding)
                        /\ built.kind = BuyKind => IsTradeOfQuote(built.binding, built.quote, Equity)
      BY DEF BuiltIsAccepted
    <2> DEFINE list == tx.instructions
               view == SysvarView(list, tx.feePayer)
    <2>1. tx # None /\ outcome.verdict = ProgramVerdict(Shown(tx), "Ok")
      BY DEF TransactionInv
    <2>2. IsBuild(built) /\ IsInstructionList(list) /\ tx = built.tx
      BY <2>1 DEF TransactionInv, OnItsWay
    <2>3. Shown(tx) = RuntimeView(list, tx.feePayer)
      BY <2>2, ShownTransaction
    <2>4. Demoted(list, tx.feePayer) = {} => outcome.verdict = ProgramVerdict(view, "Ok")
      BY <2>1, <2>3, NothingDemoted
    <2>5. IsInstructionList(view)
      BY <2>2, SysvarViewList
    <2>6. list = built.tx.instructions /\ view = SysvarView(list, built.tx.feePayer)
          /\ tx.feePayer = built.tx.feePayer
      BY <2>2
    <2> HIDE DEF view, list
    <2>7. CASE built.kind = TransferKind
      <3>1. TransferBuild(built)
        <4>1. TransferKind \notin {BuyKind, SellKind}
          BY DEF TransferKind, BuyKind, SellKind
        <4> QED
          BY <2>2, <2>7, <4>1 DEF IsBuild, JupiterBuild
      <3>2. ShowsTransfer(view, Len(list), CommitmentIn(built))
        BY <2>2, <2>6, <3>1, BuiltTransferShown
      <3>3. ProgramVerdict(view, "Ok") = "Ok"
        BY <2>5, <3>2, TransferIsAccepted
      <3>4. built.kind # BuyKind
        BY <2>7 DEF TransferKind, BuyKind
      <3> QED
        BY <2>4, <2>7, <3>3, <3>4 DEF list
    <2>8. CASE built.kind # TransferKind
      <3>1. /\ built.kind \in {BuyKind, SellKind}
            /\ Len(view) # 0
            /\ IsGuard(view[1], built.kind, CommitmentIn(built))
            /\ CommitmentIn(built) = JupiterSuffixCommitment(built.committed)
            /\ Tail(view) = built.committed
            /\ CheckSuffix(built.committed, built.kind, Equity) = "Ok"
            /\ Demoted(list, tx.feePayer) = {}
            /\ IsDownstreamBinding(built.binding)
            /\ built.kind = BuyKind => IsTradeOfQuote(built.binding, built.quote, Equity)
        BY <2>2, <2>6, <2>8, BuiltTradeShown
      <3>2. CheckGuardedJupiterTransaction(view, built.kind, CommitmentIn(built)) = "Ok"
        BY <3>1, ClientGrammarIsPrograms, ClientCommitmentIsPrograms
           DEF CheckGuardedJupiterTransaction
      <3>3. ProgramVerdict(view, "Ok") = "Ok"
        BY <2>5, <3>1, <3>2, TradeIsAccepted
      <3> QED
        BY <2>4, <3>1, <3>3
    <2> QED
      BY <2>7, <2>8
  <1> QED
    BY <1>1, TransactionCorrect, PTL

\* What the client passes shows the accounts of the build with the flags of the build:
\* of what occurs in it the runtime demotes nothing.
LEMMA SameViewSameRuntime ==
    ASSUME NEW s, IsInstructionList(s), NEW p, NEW t, IsInstructionList(t), NEW q,
           SysvarView(s, p) = SysvarView(t, q), Demoted(t, q) = {}
    PROVE  RuntimeView(s, p) = SysvarView(s, p)
  <1> DEFINE Ws   == Writables(s, p)
             Wt   == Writables(t, q)
             Left == Ws \ Demoted(s, p)
             view == SysvarView(s, p)
  <1>1. /\ view = WithFlags(s, Signers(s, p), Ws)
        /\ view = WithFlags(t, Signers(t, q), Wt)
        /\ RuntimeView(s, p) = WithFlags(s, Signers(s, p), Left)
    BY DEF SysvarView, RuntimeView
  <1> DEFINE shown == RuntimeView(s, p)
             Ss    == Signers(s, p)
             St    == Signers(t, q)
  <1>2. shown = WithFlags(s, Ss, Left) /\ view = WithFlags(s, Ss, Ws) /\ view = WithFlags(t, St, Wt)
    BY <1>1
  <1>3. Left \subseteq Ws /\ \A a \in Ws : a \notin Left => a \in Demoted(s, p)
    OBVIOUS
  <1> HIDE DEF view, shown, Ws, Wt, Left, Ss, St
  <1>4. /\ IsInstructionList(view) /\ DOMAIN view = DOMAIN s
        /\ \A i \in DOMAIN s :
             /\ view[i].program = s[i].program
             /\ DOMAIN view[i].accounts = DOMAIN s[i].accounts
             /\ \A j \in DOMAIN s[i].accounts :
                  /\ view[i].accounts[j].address = s[i].accounts[j].address
                  /\ view[i].accounts[j] = Meta(s[i].accounts[j].address,
                                                s[i].accounts[j].address \in Ss,
                                                s[i].accounts[j].address \in Ws)
    <2>1. view = WithFlags(s, Ss, Ws)
      BY <1>2
    <2> QED
      BY <2>1, FlaggedList
  <1>5. /\ DOMAIN view = DOMAIN t
        /\ \A i \in DOMAIN t :
             /\ view[i].program = t[i].program
             /\ DOMAIN view[i].accounts = DOMAIN t[i].accounts
             /\ \A j \in DOMAIN t[i].accounts :
                  /\ view[i].accounts[j].address = t[i].accounts[j].address
                  /\ view[i].accounts[j] = Meta(t[i].accounts[j].address,
                                                t[i].accounts[j].address \in St,
                                                t[i].accounts[j].address \in Wt)
    BY <1>2, FlaggedList
  <1>6. ASSUME NEW i \in DOMAIN s, NEW j \in DOMAIN s[i].accounts
        PROVE  s[i].accounts[j].address \in Left <=> s[i].accounts[j].address \in Ws
    <2> DEFINE a == s[i].accounts[j].address
    <2>1. i \in DOMAIN t /\ j \in DOMAIN t[i].accounts
      BY <1>4, <1>5
    <2>2. t[i].accounts[j].address = a
      BY <1>4, <1>5, <2>1
    <2>3. view[i].accounts[j] = Meta(a, a \in Ss, a \in Ws)
      BY <1>4
    <2>4. view[i].accounts[j] = Meta(a, a \in St, a \in Wt)
      BY <1>5, <2>1, <2>2
    <2>5. a \in Ws <=> a \in Wt
      BY <2>3, <2>4 DEF Meta
    <2> HIDE DEF a
    <2>6. a \notin Demoted(s, p) \/ a \notin Ws
      <3> SUFFICES ASSUME a \in Demoted(s, p), a \in Ws
                   PROVE  FALSE
        OBVIOUS
      <3>1. a \in Wt
        BY <2>5
      <3>2. \/ \E k \in DOMAIN s : s[k].program = a
            \/ a \in {SYSTEM_PROGRAM_ID, COMPUTE_BUDGET_PROGRAM_ID, INSTRUCTIONS_SYSVAR}
        BY DEF Demoted
      <3>3. \/ \E k \in DOMAIN t : t[k].program = a
            \/ a \in {SYSTEM_PROGRAM_ID, COMPUTE_BUDGET_PROGRAM_ID, INSTRUCTIONS_SYSVAR}
        BY <1>4, <1>5, <3>2
      <3>4. a \in Demoted(t, q)
        BY <3>1, <3>3 DEF Demoted, Wt
      <3> QED
        BY <3>4
    <2>7. a \in Left <=> a \in Ws
      BY <1>3, <2>6
    <2> QED
      BY <2>7 DEF a
  <1>7. ASSUME NEW i \in DOMAIN s
        PROVE  FlaggedAccounts(s[i].accounts, Ss, Left) = FlaggedAccounts(s[i].accounts, Ss, Ws)
    <2> DEFINE accounts == s[i].accounts
               lf(j) == accounts[j].address \in Left
               wf(j) == accounts[j].address \in Ws
    <2>1. \A j \in DOMAIN accounts : lf(j) = wf(j)
      BY <1>6
    <2> QED
      BY <2>1 DEF FlaggedAccounts
  <1>8. ASSUME NEW i \in DOMAIN s
        PROVE  shown[i] = view[i]
    <2>1. WithFlags(s, Ss, Left)[i]
            = Instruction(s[i].program, FlaggedAccounts(s[i].accounts, Ss, Left), s[i].data)
      BY FlaggedInstruction
    <2>2. WithFlags(s, Ss, Ws)[i]
            = Instruction(s[i].program, FlaggedAccounts(s[i].accounts, Ss, Ws), s[i].data)
      BY FlaggedInstruction
    <2>3. FlaggedAccounts(s[i].accounts, Ss, Left) = FlaggedAccounts(s[i].accounts, Ss, Ws)
      BY <1>7
    <2> QED
      BY <1>2, <2>1, <2>2, <2>3
  <1>9. shown = [i \in DOMAIN s |-> shown[i]] /\ view = [i \in DOMAIN s |-> view[i]]
    BY <1>2 DEF WithFlags
  <1>10. shown = view
    BY <1>8, <1>9
  <1> QED
    BY <1>10 DEF shown, view

\* verifyProtectedSwap.
LEMMA SwapAnswerIsProgramAnswer ==
    ASSUME NEW b, IsBuild(b), b.kind # TransferKind, NEW t, IsInstructionList(t.instructions),
           NEW answer, answer = VerifyProtectedSwap(b, t), answer # "GUARD_INSTRUCTION_CHANGED",
           NEW verdict, verdict = ProgramVerdict(RuntimeView(t.instructions, t.feePayer), "Ok")
    PROVE  /\ answer = "Ok" => verdict = "Ok"
           /\ answer # "Ok" /\ Demoted(t.instructions, t.feePayer) = {} => verdict = answer
  <1> DEFINE list     == b.tx.instructions
             unsigned == SysvarView(list, b.tx.feePayer)
             view     == SysvarView(t.instructions, t.feePayer)
             shown    == RuntimeView(t.instructions, t.feePayer)
             guard    == view[1]
             none     == <<>>
  <1>1. /\ b.kind \in {BuyKind, SellKind}
        /\ IsInstructionList(unsigned) /\ Len(unsigned) # 0
        /\ IsGuard(unsigned[1], b.kind, CommitmentIn(b))
        /\ CommitmentIn(b) = JupiterSuffixCommitment(b.committed)
        /\ Tail(unsigned) = b.committed
        /\ Demoted(list, b.tx.feePayer) = {}
    BY BuiltTradeShown
  <1>2. /\ view # none /\ view[1] = unsigned[1]
        /\ answer = CheckGuardedJupiterTransaction(view, b.kind, CommitmentIn(b))
    BY <1>1, ClientCommitmentIsPrograms DEF VerifyProtectedSwap
  <1>3. IsInstructionList(view) /\ IsSequence(view)
    BY SysvarViewList DEF IsInstructionList
  <1>4. Len(view) # 0
    <2> SUFFICES ASSUME Len(view) = 0
                 PROVE  FALSE
      OBVIOUS
    <2>1. view \in Seq({view[i] : i \in DOMAIN view})
      BY <1>3 DEF IsSequence
    <2> HIDE DEF view
    <2>2. view = <<>>
      BY <2>1, EmptySeq
    <2> QED
      BY <1>2, <2>2
  <1>5. IsGuard(guard, b.kind, CommitmentIn(b)) /\ guard = view[1] /\ list = b.tx.instructions
    BY <1>1, <1>2
  <1>6. IsInstructionList(list)
    BY DEF IsBuild
  <1> HIDE DEF view, unsigned, shown, guard, none, list
  <1>7. ASSUME answer = "Ok"
        PROVE  verdict = "Ok"
    <2>1. JupiterSuffixCommitment(Tail(view)) = JupiterSuffixCommitment(b.committed)
      BY <1>1, <1>2, <1>7, ClientCommitmentIsPrograms DEF CheckGuardedJupiterTransaction
    <2>2. Tail(view) = Tail(unsigned)
      BY <1>1, <2>1, CommitmentsAreInjective
    <2>3. view = unsigned
      <3>1. /\ Len(view) \in Nat /\ Len(unsigned) \in Nat
            /\ Len(Tail(view)) = Len(view) - 1 /\ Len(Tail(unsigned)) = Len(unsigned) - 1
        <4>1. Len(view) \in Nat /\ Len(unsigned) \in Nat
          BY <1>1, <1>3, ListElements
        <4>2. Len(Tail(view)) = Len(view) - 1
          BY <1>3, <1>4, ViewTail
        <4>3. Len(Tail(unsigned)) = Len(unsigned) - 1
          BY <1>1, ViewTail
        <4> QED
          BY <4>1, <4>2, <4>3
      <3>2. Len(view) = Len(unsigned)
        <4> DEFINE x == Len(view)
                   y == Len(unsigned)
        <4>1. x \in Nat /\ y \in Nat
          BY <3>1
        <4>2. x - 1 = y - 1
          BY <2>2, <3>1
        <4> HIDE DEF x, y
        <4>3. x = y
          BY <4>1, <4>2
        <4> QED
          BY <4>3 DEF x, y
      <3>3. IsSequence(view) /\ IsSequence(unsigned)
        BY <1>1, <1>3 DEF IsInstructionList
      <3>4. ASSUME NEW i \in 1 .. Len(view)
            PROVE  view[i] = unsigned[i]
        <4>1. CASE i = 1
          BY <1>2, <4>1
        <4>2. CASE i # 1
          <5>1. i \in 2 .. Len(view) /\ i \in 2 .. Len(unsigned)
            BY <3>1, <3>2, <4>2
          <5>2. view[i] = Tail(view)[i - 1]
            BY <1>3, <1>4, <5>1, ViewTail
          <5>3. unsigned[i] = Tail(unsigned)[i - 1]
            BY <1>1, <5>1, ViewTail
          <5> QED
            BY <2>2, <5>2, <5>3
        <4> QED
          BY <4>1, <4>2
      <3> QED
        BY <3>2, <3>3, <3>4, SequencesEqual
    <2>4. shown = view
      <3>1. SysvarView(t.instructions, t.feePayer) = SysvarView(list, b.tx.feePayer)
        BY <2>3 DEF view, unsigned
      <3> QED
        BY <1>1, <1>6, <3>1, SameViewSameRuntime DEF shown, view
    <2>5. ProgramVerdict(view, "Ok") = "Ok"
      BY <1>1, <1>2, <1>3, <1>4, <1>5, <1>7, TradeIsAccepted
    <2> QED
      BY <2>4, <2>5 DEF shown
  <1>8. ASSUME answer # "Ok", Demoted(t.instructions, t.feePayer) = {}
        PROVE  verdict = answer
    <2>1. shown = view
      BY <1>8, NothingDemoted DEF shown, view
    <2>2. InvocationVerdict(view, 1) = answer
      BY <1>1, <1>2, <1>5, TradeGuardVerdict
    <2>3. 1 \in Invocations(view)
      <3>1. 1 \in DOMAIN view
        BY <1>3, <1>4, ListElements
      <3>2. view[1].program = GuardProgram
        BY <1>5 DEF IsGuard
      <3> QED
        BY <3>1, <3>2 DEF Invocations
    <2>4. ProgramVerdict(view, "Ok") = answer
      BY <1>3, <1>8, <2>2, <2>3, FirstGuardFails
    <2> QED
      BY <2>1, <2>4 DEF shown
  <1> QED
    BY <1>7, <1>8

\* verifySignedTransaction: what a wallet may put in front invokes no guard.
LEMMA SignedTransferShown ==
    ASSUME NEW b, IsBuild(b), TransferBuild(b), NEW t, IsInstructionList(t.instructions),
           VerifySignedTransaction(b, t) = "Ok"
    PROVE  ShowsTransfer(SysvarView(t.instructions, t.feePayer), Len(t.instructions), CommitmentIn(b))
  <1> DEFINE list     == b.tx.instructions
             unsigned == SysvarView(list, b.tx.feePayer)
             signed   == SysvarView(t.instructions, t.feePayer)
             n        == Len(signed) - Len(unsigned)
             N        == Len(list)
             c        == CommitmentIn(b)
  <1>1. IsInstructionList(list) /\ list = b.tx.instructions
    BY DEF IsBuild
  <1>2. /\ IsInstructionList(unsigned) /\ Len(unsigned) = N
        /\ IsInstructionList(signed) /\ Len(signed) = Len(t.instructions)
    BY <1>1, SysvarViewList
  <1>3. /\ n \in 0 .. 2
        /\ \A i \in 1 .. n : IsAllowedComputeBudgetPrefix(signed[i])
        /\ \A i \in DOMAIN unsigned : SameInstruction(unsigned[i], signed[n + i])
    BY DEF VerifySignedTransaction
  <1>4. ShowsTransfer(unsigned, N, c)
    BY <1>1, BuiltTransferShown
  <1> HIDE DEF list, unsigned, signed, N, c
  <1>5. /\ N \in Nat /\ N >= 2
        /\ IsGuard(unsigned[N - 1], TransferKind, c)
        /\ IsCommittedTransfer(unsigned[N], c)
        /\ \A i \in 1 .. N - 2 : ~InvokesGuard(unsigned[i])
    BY <1>4 DEF ShowsTransfer
  <1>6. /\ DOMAIN unsigned = 1 .. N /\ Len(signed) \in Nat /\ DOMAIN signed = 1 .. Len(signed)
        /\ \A i \in 1 .. N : IsInstruction(unsigned[i])
        /\ \A i \in 1 .. Len(signed) : IsInstruction(signed[i])
    BY <1>2, ListElements
  <1>7. Len(signed) = n + N /\ n \in Nat
    BY <1>2, <1>3, <1>5, <1>6
  <1> HIDE DEF n
  <1>8. ASSUME NEW i \in 1 .. N
        PROVE  signed[n + i] = unsigned[i]
    <2> DEFINE u == unsigned[i]
               s == signed[n + i]
    <2>1. SameInstruction(u, s)
      BY <1>3, <1>6
    <2>2. n + i \in 1 .. Len(signed)
      BY <1>5, <1>7
    <2>3. IsInstruction(u) /\ IsInstruction(s)
      BY <1>6, <2>2
    <2> HIDE DEF u, s
    <2>4. u = Instruction(u.program, u.accounts, u.data) /\ s = Instruction(s.program, s.accounts, s.data)
      BY <2>3, InstructionFields
    <2>5. u = s
      BY <2>1, <2>4 DEF SameInstruction
    <2> QED
      BY <2>5 DEF u, s
  <1> DEFINE L == Len(signed)
  <1>9. L \in Nat /\ L >= 2 /\ n + (N - 1) = L - 1 /\ n + N = L
    BY <1>5, <1>6, <1>7
  <1>10. signed[L - 1] = unsigned[N - 1] /\ signed[L] = unsigned[N]
    <2>1. N - 1 \in 1 .. N /\ N \in 1 .. N
      BY <1>5
    <2>2. signed[n + (N - 1)] = unsigned[N - 1] /\ signed[n + N] = unsigned[N]
      BY <1>8, <2>1
    <2> QED
      BY <1>9, <2>2
  <1>11. ASSUME NEW i \in 1 .. L - 2
         PROVE  ~InvokesGuard(signed[i])
    <2>1. CASE i \in 1 .. n
      <3>1. signed[i].program = COMPUTE_BUDGET_PROGRAM_ID
        BY <1>3, <2>1 DEF IsAllowedComputeBudgetPrefix, IsShape
      <3> QED
        BY <3>1 DEF InvokesGuard, GuardProgram, COMPUTE_BUDGET_PROGRAM_ID
    <2>2. CASE i \notin 1 .. n
      <3> DEFINE k == i - n
      <3>1. k \in 1 .. N - 2 /\ k \in 1 .. N /\ n + k = i
        BY <1>5, <1>7, <1>9, <2>2
      <3> HIDE DEF k
      <3>2. signed[n + k] = unsigned[k]
        BY <1>8, <3>1
      <3> QED
        BY <1>5, <3>1, <3>2
    <2> QED
      BY <2>1, <2>2
  <1>12. ShowsTransfer(signed, L, c)
    BY <1>5, <1>9, <1>10, <1>11 DEF ShowsTransfer
  <1> QED
    BY <1>2, <1>12 DEF signed, c

\* guard-client/src/jupiter.ts and the pages: the client's answer is the program's.
THEOREM ClientAnswersAsProgram == TransactionSpec => []ClientMirrorsProgram
  <1>1. TransactionInv => ClientMirrorsProgram
    <2> DEFINE list  == tx.instructions
               index == VerifyWalletSignedTransaction(built, tx).guardInstructionIndex
    <2> SUFFICES ASSUME TransactionInv, outcome # None, client # None, table = LookedUp
                 PROVE  /\ built.kind # TransferKind =>
                             /\ client = "Ok" => outcome.verdict = "Ok"
                             /\ /\ client \notin {"Ok", "GUARD_INSTRUCTION_CHANGED"}
                                /\ ~(Demoted(list, tx.feePayer) # {})
                                => outcome.verdict = client
                        /\ built.kind = TransferKind =>
                             (client = "Ok" =>
                                /\ outcome.verdict = "Ok" \/ Demoted(list, tx.feePayer) # {}
                                /\ built.tx.instructions[1].program = GuardProgram =>
                                     Invocations(outcome.view) = {index + 1})
      BY DEF ClientMirrorsProgram
    <2>1. /\ tx # None /\ client = ClientAnswer(built, tx)
          /\ outcome.verdict = ProgramVerdict(Shown(tx), "Ok") /\ outcome.view = Shown(tx)
      BY DEF TransactionInv
    <2>2. IsBuild(built) /\ IsInstructionList(list)
      BY <2>1 DEF TransactionInv, OnItsWay
    <2>3. Shown(tx) = RuntimeView(list, tx.feePayer)
      BY <2>2, ShownTransaction
    <2>4. CASE built.kind # TransferKind
      <3>1. client = VerifyProtectedSwap(built, tx)
        BY <2>1, <2>4 DEF ClientAnswer
      <3>2. outcome.verdict = ProgramVerdict(RuntimeView(tx.instructions, tx.feePayer), "Ok")
        BY <2>1, <2>3
      <3>3. client # "GUARD_INSTRUCTION_CHANGED" =>
              /\ client = "Ok" => outcome.verdict = "Ok"
              /\ client # "Ok" /\ Demoted(tx.instructions, tx.feePayer) = {}
                   => outcome.verdict = client
        BY <2>2, <2>4, <3>1, <3>2, SwapAnswerIsProgramAnswer
      <3> QED
        BY <2>4, <3>3
    <2>5. CASE built.kind = TransferKind /\ client = "Ok"
      <3> DEFINE view == SysvarView(list, tx.feePayer)
                 L    == Len(list)
                 c    == CommitmentIn(built)
                 old  == built.tx.instructions
      <3>1. VerifySignedTransaction(built, tx) = "Ok"
        BY <2>1, <2>5 DEF ClientAnswer
      <3>2. TransferBuild(built)
        <4>1. TransferKind \notin {BuyKind, SellKind}
          BY DEF TransferKind, BuyKind, SellKind
        <4> QED
          BY <2>2, <2>5, <4>1 DEF IsBuild, JupiterBuild
      <3>3. ShowsTransfer(view, L, c)
        BY <2>2, <3>1, <3>2, SignedTransferShown
      <3>4. IsInstructionList(view) /\ DOMAIN view = DOMAIN list
            /\ \A i \in DOMAIN list : view[i].program = list[i].program /\ view[i].data = list[i].data
        BY <2>2, SysvarViewList
      <3>5. /\ DOMAIN outcome.view = DOMAIN list
            /\ \A i \in DOMAIN list : /\ outcome.view[i].program = list[i].program
                                      /\ outcome.view[i].data = list[i].data
        BY <2>1, <2>2, RuntimeViewList DEF Shown
      <3> HIDE DEF view
      <3>6. outcome.verdict = "Ok" \/ Demoted(list, tx.feePayer) # {}
        <4> SUFFICES ASSUME Demoted(list, tx.feePayer) = {}
                     PROVE  outcome.verdict = "Ok"
          OBVIOUS
        <4>1. Shown(tx) = view
          BY <2>3, NothingDemoted DEF view
        <4>2. ProgramVerdict(view, "Ok") = "Ok"
          BY <3>3, <3>4, TransferIsAccepted
        <4> QED
          BY <2>1, <4>1, <4>2
      <3>7. Invocations(outcome.view) = {L - 1}
        <4>1. Invocations(view) = {L - 1}
          BY <3>3, <3>4, OneGuardInTransfer
        <4>2. Invocations(outcome.view) = Invocations(view)
          BY <3>4, <3>5 DEF Invocations
        <4> QED
          BY <4>1, <4>2
      <3>8. ASSUME old[1].program = GuardProgram
            PROVE  L - 1 = index + 1
        <4> DEFINE N == Len(old)
        <4>1. /\ N \in Nat /\ N >= 2
              /\ SupportedTransferChecked(old[N])
              /\ \A i \in 1 .. N - 2 : old[i].program # GuardProgram
          <5>1. IsInstructionList(old)
            BY <2>2 DEF IsBuild
          <5>2. N \in Nat
            BY <5>1, ListElements
          <5> QED
            BY <3>2, <5>2 DEF TransferBuild
        <4>2. 1 \notin 1 .. N - 2
          BY <3>8, <4>1
        <4>3. N = 2
          <5>1. N \in Nat /\ N >= 2
            BY <4>1
          <5> HIDE DEF N
          <5> QED
            BY <4>2, <5>1
        <4>4. index = L - N
          BY DEF VerifyWalletSignedTransaction
        <4>5. L \in Nat
          BY <2>2, ListElements
        <4> HIDE DEF N, L, index
        <4> QED
          BY <4>3, <4>4, <4>5
      <3> QED
        BY <2>5, <3>6, <3>7, <3>8
    <2> QED
      BY <2>4, <2>5
  <1> QED
    BY <1>1, TransactionCorrect, PTL
===============================================================================
