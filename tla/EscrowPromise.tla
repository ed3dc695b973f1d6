--------------------------- MODULE EscrowPromise ---------------------------
(***************************************************************************)
(* What an escrow promises about the money of a job, without deadlines,    *)
(* decisions, appeals or governance (README.md, contracts/README.md and    *)
(* contracts/service-fees-README.md, "Economic policy"):                   *)
(*   - a job is paid in once and paid out once, in full, and then closed;  *)
(*   - until a worker is engaged the money can only go back to the payer,  *)
(*     in full; the worker, once engaged, cannot be replaced;              *)
(*   - afterwards it goes to the payer or to the worker, less at most one  *)
(*     service fee, which goes to neither of them;                         *)
(*   - the vault never pays for anything else.                             *)
(***************************************************************************)
EXTENDS Integers, ServiceFee

CONSTANTS Principals, Vault, Jobs, NONE

VARIABLES
    stx,        \* what everyone holds
    deposit,    \* per job: NONE or its payer, amount and engaged worker
    closed      \* the jobs that are over

promiseVars == <<stx, deposit, closed>>

Pay(balances, amount, from, to) ==
    [balances EXCEPT ![from] = @ - amount, ![to] = @ + amount]

Init ==
    /\ stx \in [Principals -> Nat]
    /\ deposit = [j \in Jobs |-> NONE]
    /\ closed = {}

Deposit(j, payer) ==
    /\ deposit[j] = NONE /\ j \notin closed
    /\ \E amount \in 1..stx[payer] :
        /\ stx' = Pay(stx, amount, payer, Vault)
        /\ deposit' = [deposit EXCEPT
               ![j] = [payer |-> payer, amount |-> amount, worker |-> NONE]]
    /\ UNCHANGED closed

Engage(j, worker) ==
    /\ deposit[j] # NONE
    /\ deposit[j].worker = NONE
    /\ worker # deposit[j].payer
    /\ deposit' = [deposit EXCEPT ![j].worker = worker]
    /\ UNCHANGED <<stx, closed>>

Release(j, to, collector) ==
    /\ deposit[j] # NONE
    /\ to \in {deposit[j].payer, deposit[j].worker}
    /\ collector \notin {deposit[j].payer, deposit[j].worker}
    /\ \E fee \in {0, Fee(deposit[j].amount)} :
        /\ fee > 0 => deposit[j].worker # NONE
        /\ stx' = Pay(Pay(stx, deposit[j].amount - fee, Vault, to),
                      fee, Vault, collector)
    /\ deposit' = [deposit EXCEPT ![j] = NONE]
    /\ closed' = closed \cup {j}

\* A job given up before it was paid in.
Abandon(j) ==
    /\ deposit[j] = NONE /\ j \notin closed
    /\ closed' = closed \cup {j}
    /\ UNCHANGED <<stx, deposit>>

\* Money that has nothing to do with the vault's deposits: gifts to it, fee
\* refunds out of the collector's pocket, ordinary transfers.
Elsewhere(from, to) ==
    /\ \E amount \in 1..stx[from] : stx' = Pay(stx, amount, from, to)
    /\ UNCHANGED <<deposit, closed>>

Others == Principals \ {Vault}

MoneyMoves ==
    /\ stx' # stx
    /\ \/ \E j \in Jobs, payer \in Others : Deposit(j, payer)
       \/ \E j \in Jobs, to, collector \in Others : Release(j, to, collector)
       \/ \E from \in Others, to \in Principals : Elsewhere(from, to)

Next ==
    \/ MoneyMoves
    \/ \E j \in Jobs, worker \in Others : Engage(j, worker)
    \/ \E j \in Jobs : Abandon(j)

Spec == Init /\ [][Next]_promiseVars
=============================================================================
