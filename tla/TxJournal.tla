----------------------------- MODULE TxJournal -----------------------------
(***************************************************************************)
(* The mainnet deployment of scripts/deploy-service-fee-mainnet.mjs with   *)
(* the transaction journal of service-fee-mainnet-core.mjs: every          *)
(* operation of a fixed catalog is signed, recorded, broadcast and waited  *)
(* for, one after the other, by a process that may die at any point and is *)
(* started again until the campaign has passed.                            *)
(*                                                                         *)
(* Around it: a node (mempool and chain), which may refuse or drop a       *)
(* transaction, whose answer may be lost and whose last blocks may be      *)
(* replaced by a fork, and an index of the chain that follows behind.      *)
(*                                                                         *)
(* A transaction is an operation signed with a nonce; signing is           *)
(* deterministic, so the two stand for its bytes and its txid.  The fees   *)
(* of the whole catalog are exactly the cap, which can then not refuse a   *)
(* plan: campaignFeeTotal is left out.                                     *)
(***************************************************************************)
EXTENDS Nothing, Integers, Sequences

CONSTANTS
    Operations,     \* the number of operations; they are numbered in the
                    \* order of operationCatalog
    MaxBroadcasts,  \* of the same bytes (3 in the code)
    FinalityDepth,  \* FINALITY_STACKS_DEPTH
    MaxHeight,      \* bound: blocks mined
    MaxForks        \* bound: forks

ASSUME BoundsAssumption ==
    Operations \in Nat /\ MaxBroadcasts \in Nat /\ FinalityDepth \in Nat

Ops == 1..Operations
Txs == [op : Ops, nonce : Nat]
Blocks == [tx : Txs, ok : BOOLEAN]  \* a block without one of ours is NOTHING
EntryStates == {"signed", "attempted", "uncertain", "rejected", "accepted",
                "confirmed"}
Entries == [nonce : Nat, state : EntryStates, attempts : 0..MaxBroadcasts,
            height : Nat]
Stages == {"reconciling", "executing", "rechecking"}
Labels == {"idle", "picking", "signing", "looking", "broadcasting",
           "answering", "confirming", "waiting", "revalidating"}
Answers == {"none", "accepted", "rejected", "lost"}

ASSUME NothingAssumption == NOTHING \notin Blocks \cup Entries

VARIABLES
    \* the node and the index
    chain,      \* the canonical chain
    stable,     \* the height up to which no fork reaches any more
    forks,
    mempool,
    index,      \* the chain as the index shows it
    broadcasts, \* how often the network was sent the bytes of an operation
    \* files
    journal,    \* journal.data.transactions
    passed,     \* journal.data.result is "passed"
    locked,     \* the two lock files of the journal are there
    \* the process
    pc, stage, op, todo, entry, answer

network == <<chain, stable, forks, mempool, index>>
process == <<pc, stage, op, todo, entry, answer>>
journalVars == <<network, broadcasts, journal, passed, locked, process>>

-----------------------------------------------------------------------------
(* Transactions and chains *)

Tx(o, e) == [op |-> o, nonce |-> e.nonce]
Recorded == {o \in Ops : journal[o] # NOTHING}

Mined(c) == {h \in DOMAIN c : c[h] # NOTHING}
At(c, tx) == {h \in Mined(c) : c[h].tx = tx}
Succeeded(c, tx) == \E h \in At(c, tx) : c[h].ok
Done(c) == {o \in Ops : \E h \in Mined(c) : c[h].ok /\ c[h].tx.op = o}

\* The nonce an account continues with.
Used(c) == {c[h].tx.nonce : h \in Mined(c)}
IsNextNonce(c, n) == n \notin Used(c) /\ \A m \in 0..(n - 1) : m \in Used(c)

-----------------------------------------------------------------------------
(* The journal and the run *)

Goto(label) == pc' = label

\* journal.save(): the new file replaces the old one by a rename.
Save_InMemory(e) == entry' = e /\ UNCHANGED journal                 \* mutant
Save(e) ==
    /\ entry' = e
    /\ journal' = [journal EXCEPT ![op] = e]

Forget ==
    /\ pc' = "idle" /\ stage' = "reconciling" /\ op' = 1 /\ todo' = {}
    /\ entry' = NOTHING /\ answer' = "none"

\* new Journal, then reconcileJournal over all that is recorded.
Begin_Unreconciled ==                                               \* mutant
    /\ pc = "idle" /\ ~locked
    /\ locked' = TRUE
    /\ Goto("picking") /\ todo' = {}
    /\ UNCHANGED <<network, broadcasts, journal, passed, stage, op, entry,
                   answer>>
Begin ==
    /\ pc = "idle" /\ ~locked
    /\ locked' = TRUE
    /\ Goto("picking") /\ todo' = Recorded
    /\ UNCHANGED <<network, broadcasts, journal, passed, stage, op, entry,
                   answer>>

\* An exception: the journal is closed, which removes its locks.
Close == Forget /\ locked' = FALSE

Stop ==
    /\ pc \in {"picking", "signing", "looking", "confirming", "waiting",
               "revalidating"}
    /\ Close
    /\ UNCHANGED <<network, broadcasts, journal, passed>>

Crash ==
    /\ pc # "idle"
    /\ Forget
    /\ UNCHANGED <<network, broadcasts, journal, passed, locked>>

\* The operator removes the locks of a process that is gone.
Recover ==
    /\ pc = "idle" /\ locked
    /\ locked' = FALSE
    /\ UNCHANGED <<network, broadcasts, journal, passed, process>>

-----------------------------------------------------------------------------
(* Stages of main() *)

Staged(from, to, work) ==
    /\ pc = "picking" /\ todo = {} /\ stage = from
    /\ stage' = to /\ todo' = work
    /\ UNCHANGED <<network, broadcasts, journal, passed, locked, pc, op,
                   entry, answer>>

\* deploymentPlan asks the node what is still to be done.  (Nobody else uses the
\* account: a contract that is deployed and not recorded does not occur.)
Plan == Staged("reconciling", "executing", Ops \ Done(chain))

Reconcile == Staged("executing", "rechecking", Recorded)

\* Nothing is left to be done.
Postflight ==
    /\ pc = "picking" /\ todo = {} /\ stage = "rechecking"
    /\ Ops \subseteq Done(chain)
    /\ Goto("waiting")
    /\ UNCHANGED <<network, broadcasts, journal, passed, locked, stage, op,
                   todo, entry, answer>>

IsDeepEnough_Mined(height, tip) == height <= tip                    \* mutant
IsDeepEnough(height, tip) == height + FinalityDepth <= tip

\* waitForFinality: the tip first, above the recorded heights, then every
\* transaction once more.
TipReached ==
    /\ pc = "waiting"
    /\ \A o \in Recorded : IsDeepEnough(journal[o].height, Len(chain))
    /\ Goto("revalidating") /\ todo' = Recorded
    /\ UNCHANGED <<network, broadcasts, journal, passed, locked, stage, op,
                   entry, answer>>

Revalidate ==
    /\ pc = "revalidating"
    /\ \E o \in todo :
        /\ \A p \in todo : o <= p
        /\ Succeeded(index, Tx(o, journal[o]))
        /\ todo' = todo \ {o}
    /\ UNCHANGED <<network, broadcasts, journal, passed, locked, pc, stage, op,
                   entry, answer>>

Pass ==
    /\ pc = "revalidating" /\ todo = {}
    /\ passed' = TRUE
    /\ Close
    /\ UNCHANGED <<network, broadcasts, journal>>

-----------------------------------------------------------------------------
(* send and settleRecordedEntry *)

\* The plan is worked off in the order of the catalog, which is then also the
\* order in which the entries were added to the journal.
Pick ==
    /\ pc = "picking"
    /\ \E o \in todo :
        /\ \A p \in todo : o <= p
        /\ op' = o /\ todo' = todo \ {o} /\ entry' = journal[o]
        /\ Goto(IF journal[o] = NOTHING THEN "signing" ELSE "looking")
    /\ UNCHANGED <<network, broadcasts, journal, passed, locked, stage, answer>>

\* The bytes are signed with the nonce the index shows, and recorded.  nonce()
\* also wants the account idle, as the same index shows it: a transaction may
\* be in the mempool and not be shown.
Sign ==
    /\ pc = "signing"
    /\ \E n \in 0..Len(index) :
        /\ IsNextNonce(index, n)
        /\ Save([nonce |-> n, state |-> "signed", attempts |-> 0, height |-> 0])
    /\ Goto("looking")
    /\ UNCHANGED <<network, broadcasts, passed, locked, stage, op, todo, answer>>

MayBeSettled_Retried(e) == TRUE                                     \* mutant
MayBeSettled(e) == e.state # "rejected"

MaySend_OnceMore(e) == e.attempts <= MaxBroadcasts                  \* mutant
MaySend(e) == e.attempts < MaxBroadcasts

\* The index does not show the transaction: send the same bytes (again).
Attempted(e) == [e EXCEPT !.state = "attempted", !.attempts = @ + 1]

RecordAttempt ==
    /\ pc = "looking" /\ MayBeSettled(entry)
    /\ At(index, Tx(op, entry)) = {}
    /\ MaySend(entry)
    /\ Save(Attempted(entry))
    /\ Goto("broadcasting")
    /\ UNCHANGED <<network, broadcasts, passed, locked, stage, op, todo, answer>>

\* The node may take the transaction or not, and its answer may get lost.
Broadcast ==
    /\ pc = "broadcasting"
    /\ broadcasts' = [broadcasts EXCEPT ![op] = @ + 1]
    /\ \/ /\ entry.nonce \notin Used(chain)
          /\ mempool' = mempool \cup {Tx(op, entry)}
          /\ answer' \in {"accepted", "lost"}
       \/ UNCHANGED mempool /\ answer' \in {"rejected", "lost"}
    /\ Goto("answering")
    /\ UNCHANGED <<chain, stable, forks, index, journal, passed, locked, stage,
                   op, todo, entry>>

Answered ==
    /\ pc = "answering"
    /\ \/ /\ answer = "accepted"
          /\ Save([entry EXCEPT !.state = "accepted"])
          /\ Goto("confirming") /\ answer' = "none"
          /\ UNCHANGED <<locked, stage, op, todo>>
       \/ /\ answer # "accepted"
          /\ journal' = [journal EXCEPT ![op] = [entry EXCEPT !.state =
                             IF answer = "lost" THEN "uncertain" ELSE "rejected"]]
          /\ Close
    /\ UNCHANGED <<network, broadcasts, passed>>

\* The index shows the transaction in the mempool.
SeePending ==
    /\ pc = "looking" /\ MayBeSettled(entry)
    /\ At(index, Tx(op, entry)) = {} /\ Tx(op, entry) \in mempool
    /\ Goto("confirming")
    /\ UNCHANGED <<network, broadcasts, journal, passed, locked, stage, op, todo,
                   entry, answer>>

\* The index shows it in a block, with success.
Confirm ==
    /\ pc \in {"looking", "confirming"} /\ MayBeSettled(entry)
    /\ \E h \in At(index, Tx(op, entry)) :
        /\ index[h].ok
        /\ Save([entry EXCEPT !.state = "confirmed", !.height = h])
    /\ Goto("picking")
    /\ UNCHANGED <<network, broadcasts, passed, locked, stage, op, todo, answer>>

Run ==
    \/ Begin \/ Stop \/ Crash \/ Recover
    \/ Plan \/ Reconcile \/ Postflight \/ TipReached \/ Revalidate \/ Pass
    \/ Pick \/ Sign \/ RecordAttempt \/ Broadcast \/ Answered
    \/ SeePending \/ Confirm

-----------------------------------------------------------------------------
(* The node and the index *)

Max2(a, b) == IF a >= b THEN a ELSE b
Extend(block) ==
    /\ Len(chain) < MaxHeight
    /\ chain' = Append(chain, block)
    /\ stable' = Max2(stable, Len(chain) + 1 - FinalityDepth)

\* A mined transaction, successful or aborted, makes others of its nonce void.
Mine ==
    /\ \E tx \in mempool, ok \in BOOLEAN :
        /\ IsNextNonce(chain, tx.nonce)
        /\ Extend([tx |-> tx, ok |-> ok])
        /\ mempool' = {t \in mempool : t.nonce # tx.nonce}
    /\ UNCHANGED <<forks, index, broadcasts, journal, passed, locked, process>>

MineOther ==
    /\ Extend(NOTHING)
    /\ UNCHANGED <<forks, mempool, index, broadcasts, journal, passed, locked,
                   process>>

\* The blocks above a height are replaced; their transactions may come back.
Fork ==
    /\ forks < MaxForks
    /\ forks' = forks + 1
    /\ \E h \in stable..(Len(chain) - 1) :
        /\ chain' = SubSeq(chain, 1, h)
        /\ \E back \in SUBSET {chain[k].tx : k \in {k \in Mined(chain) : k > h}} :
               mempool' = mempool \cup back
    /\ UNCHANGED <<stable, index, broadcasts, journal, passed, locked, process>>

\* A mempool forgets what it does not mine.
Drop ==
    /\ \E tx \in mempool : mempool' = mempool \ {tx}
    /\ UNCHANGED <<chain, stable, forks, index, broadcasts, journal, passed,
                   locked, process>>

IndexFollows ==
    /\ index # chain
    /\ index' = chain
    /\ UNCHANGED <<chain, stable, forks, mempool, broadcasts, journal, passed,
                   locked, process>>

Network == Mine \/ MineOther \/ Fork \/ Drop \/ IndexFollows

-----------------------------------------------------------------------------
JournalInit ==
    /\ chain = <<>> /\ stable = 0 /\ forks = 0 /\ mempool = {} /\ index = <<>>
    /\ broadcasts = [o \in Ops |-> 0]
    /\ journal = [o \in Ops |-> NOTHING]
    /\ passed = FALSE /\ locked = FALSE
    /\ pc = "idle" /\ stage = "reconciling" /\ op = 1 /\ todo = {}
    /\ entry = NOTHING /\ answer = "none"

JournalNext == Run \/ Network

JournalSpec == JournalInit /\ [][JournalNext]_journalVars

JournalTypeOK ==
    /\ chain \in Seq(Blocks \cup {NOTHING}) /\ index \in Seq(Blocks \cup {NOTHING})
    /\ stable \in Nat /\ forks \in Nat
    /\ mempool \subseteq Txs
    /\ broadcasts \in [Ops -> Nat]
    /\ journal \in [Ops -> Entries \cup {NOTHING}]
    /\ passed \in BOOLEAN /\ locked \in BOOLEAN
    /\ pc \in Labels /\ stage \in Stages /\ op \in Nat /\ todo \subseteq Ops
    /\ entry \in Entries \cup {NOTHING} /\ answer \in Answers

-----------------------------------------------------------------------------
(* Properties *)

\* Whatever the network has of this account is recorded with these very bytes:
\* a crash can not leave a transaction that the next run knows nothing of.
RecordedBeforeBroadcast ==
    \A tx \in mempool \cup {chain[h].tx : h \in Mined(chain)} :
        journal[tx.op] # NOTHING /\ Tx(tx.op, journal[tx.op]) = tx

\* No operation is executed twice, through crashes, lost answers, forks and an
\* index that shows neither what was sent nor what was mined.
ExecutedAtMostOnce ==
    \A h, k \in Mined(chain) : chain[h].tx.op = chain[k].tx.op => h = k

\* The network is sent the same bytes at most MaxBroadcasts times, over all runs.
BroadcastsBounded == \A o \in Ops : broadcasts[o] <= MaxBroadcasts

\* An operation whose broadcast was rejected is left to a manual review.
FailClosed ==
    [][\A o \in Recorded : journal[o].state = "rejected" =>
           journal'[o] = journal[o] /\ broadcasts'[o] = broadcasts[o]]_journalVars

\* The runner is strictly serial: unless a fork took a confirmed transaction
\* back, at most one recorded operation is not yet done and no two share a nonce.
StrictlySerial ==
    forks = 0 =>
        \A o, p \in Recorded : o # p =>
            /\ journal[o].nonce # journal[p].nonce
            /\ \/ Succeeded(chain, Tx(o, journal[o]))
               \/ Succeeded(chain, Tx(p, journal[p]))

\* Done in a block that has had FinalityDepth blocks on top of it.
IsBuried(o) ==
    \E h \in At(chain, Tx(o, journal[o])) : chain[h].ok /\ h <= stable

\* A campaign that passed without a fork has all its operations buried.
PassedIsFinal ==
    [][passed' /\ ~passed /\ forks = 0 =>
           \A o \in Ops : o \in Recorded /\ IsBuried(o)]_journalVars

\* The same with forks, as docs/MAINNET_SERVICE_FEE_RUNBOOK.md:149 has it:
\* final success requires two additional blocks and canonical revalidation.
PassedIsFinalDespiteForks ==
    [][passed' /\ ~passed => \A o \in Ops : o \in Recorded /\ IsBuried(o)]_journalVars

=============================================================================
