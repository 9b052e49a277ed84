------------------------------- MODULE MCChecks -------------------------------
(* The three decisions everything else rests on, for TLC: the guard's check of    *)
(* the protected state (EquityGuard), its check of the transaction around it      *)
(* (GuardedTransaction) and the reroute decision (RerouteCheck).  They share no   *)
(* state: a behaviour is a behaviour of one of them and leaves the others where   *)
(* they began.                                                                    *)
EXTENDS MCEquityGuard, MCGuardedTransaction, MCRerouteCheck

VARIABLE part   \* the component that runs

ChecksInit ==
    /\ part \in {"state", "transaction", "reroute"}
    /\ Init /\ TransactionInit /\ CheckInit
    /\ part # "state" => clock = 0 /\ mint.state = CHOOSE state \in ProtectedState : TRUE
    /\ part # "transaction" => table = LookedUp

ChecksNext ==
    \/ part = "state" /\ Next /\ UNCHANGED <<part, transactionVars, checkVars>>
    \/ part = "transaction" /\ TransactionNext /\ UNCHANGED <<part, vars, checkVars>>
    \/ part = "reroute" /\ CheckNext /\ UNCHANGED <<part, vars, transactionVars>>

ChecksSpec == ChecksInit /\ [][ChecksNext]_<<part, vars, transactionVars, checkVars>>
===============================================================================
