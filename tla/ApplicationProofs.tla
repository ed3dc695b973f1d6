------------------------- MODULE ApplicationProofs -------------------------
(***************************************************************************)
(* The journal of the deployment, for any catalog, any limit on            *)
(* broadcasts, any finality depth and any number of forks.                 *)
(*                                                                         *)
(* contracts/reputation-registry-v3.clar for any principals, job ids and   *)
(* scores: its types, the finality of its reports and its aggregates, with *)
(* the sums of TotalsProofs.                                               *)
(*                                                                         *)
(* And evaluable jobs are evaluated as committed, for any accounts,        *)
(* addresses, contents and number of events: the invariant ties what is on *)
(* its way to the job on the chain; the card, the request under way and    *)
(* the wallet's request are of that job, whose terms are fixed once work   *)
(* is submitted, and an inspection is of the address in the field.         *)
(***************************************************************************)
EXTENDS TxJournal, ReputationRegistry, Evaluation, TotalsProofs, SequenceTheorems

-----------------------------------------------------------------------------
(* The journal: the inductive invariant *)

Settling == {"looking", "broadcasting", "answering", "confirming"}

\* What the process works on is what it has written.
EntryIsRecorded ==
    /\ pc \in Settling => op \in Ops /\ entry = journal[op] /\ entry # NOTHING
    /\ pc = "signing" => op \in Ops /\ journal[op] = NOTHING
    /\ pc \in {"broadcasting", "answering"} => entry.state = "attempted"

\* The chain takes a nonce once.
NoncesDiffer ==
    \A h, k \in Mined(chain) : chain[h].tx.nonce = chain[k].tx.nonce => h = k

\* A broadcast is counted in the journal before it is made.
BroadcastsCounted ==
    /\ \A o \in Ops : IF journal[o] = NOTHING THEN broadcasts[o] = 0
                      ELSE broadcasts[o] <= journal[o].attempts
    /\ pc = "broadcasting" => broadcasts[op] < entry.attempts

JournalInv ==
    /\ JournalTypeOK /\ EntryIsRecorded /\ RecordedBeforeBroadcast
    /\ NoncesDiffer /\ BroadcastsCounted

LEMMA InitJournalInv == JournalInit => JournalInv
<1> SUFFICES ASSUME JournalInit PROVE JournalInv
  OBVIOUS
<1>1. JournalTypeOK
  <2>1. <<>> \in Seq(Blocks \cup {NOTHING})
    BY EmptySeq
  <2>2. /\ journal \in [Ops -> Entries \cup {NOTHING}]
        /\ broadcasts \in [Ops -> Nat]
    BY DEF JournalInit
  <2> QED
    BY <2>1, <2>2 DEF JournalInit, JournalTypeOK, Labels, Stages, Answers
<1>2. Mined(chain) = {}
  BY DEF JournalInit, Mined
<1> QED
  BY <1>1, <1>2 DEF JournalInit, JournalInv, EntryIsRecorded, RecordedBeforeBroadcast,
                    NoncesDiffer, BroadcastsCounted, Settling, Ops

-----------------------------------------------------------------------------
(* Types *)

LEMMA SavedEntry ==
    ASSUME JournalTypeOK, op \in Ops, NEW e \in Entries, Save(e)
    PROVE  /\ entry' = e /\ journal'[op] = e
           /\ journal' \in [Ops -> Entries \cup {NOTHING}]
           /\ \A o \in Ops \ {op} : journal'[o] = journal[o]
BY DEF JournalTypeOK, Save

\* The entries that the steps write.
LEMMA WrittenEntries ==
    ASSUME JournalTypeOK, NEW e \in Entries
    PROVE  /\ \A s \in EntryStates : [e EXCEPT !.state = s] \in Entries
           /\ e.attempts < MaxBroadcasts => Attempted(e) \in Entries
           /\ \A h \in Nat : [e EXCEPT !.state = "confirmed", !.height = h] \in Entries
<1>1. \A s \in EntryStates : [e EXCEPT !.state = s] \in Entries
  BY DEF Entries
<1>2. ASSUME e.attempts < MaxBroadcasts
      PROVE  Attempted(e) \in Entries
  <2>1. e.attempts + 1 \in 0..MaxBroadcasts
    BY <1>2, BoundsAssumption DEF Entries
  <2> QED
    BY <2>1 DEF Entries, EntryStates, Attempted
<1>3. \A h \in Nat : [e EXCEPT !.state = "confirmed", !.height = h] \in Entries
  BY DEF Entries, EntryStates
<1> QED
  BY <1>1, <1>2, <1>3

LEMMA RunTypes ==
    ASSUME JournalTypeOK, EntryIsRecorded, Run
    PROVE  JournalTypeOK'
<1> USE DEF JournalTypeOK, network, process, Goto, Labels, Stages, Answers, Recorded
<1>1. CASE Begin
  BY <1>1 DEF Begin
<1>2. CASE Stop
  BY <1>2 DEF Stop, Close, Forget
<1>3. CASE Crash
  BY <1>3 DEF Crash, Forget
<1>4. CASE Recover
  BY <1>4 DEF Recover
<1>5. CASE Plan \/ Reconcile
  BY <1>5 DEF Plan, Reconcile, Staged
<1>6. CASE Postflight \/ TipReached \/ Revalidate
  BY <1>6 DEF Postflight, TipReached, Revalidate
<1>7. CASE Pass
  BY <1>7 DEF Pass, Close, Forget
<1>8. CASE Pick
  BY <1>8 DEF Pick, Ops
<1>9. CASE Sign
  <2>1. PICK n \in 0..Len(index) :
          Save([nonce |-> n, state |-> "signed", attempts |-> 0, height |-> 0])
    BY <1>9 DEF Sign
  <2>2. [nonce |-> n, state |-> "signed", attempts |-> 0, height |-> 0] \in Entries
    BY BoundsAssumption, LenProperties DEF Entries, EntryStates
  <2> QED
    BY <1>9, <2>1, <2>2, SavedEntry DEF Sign, EntryIsRecorded
<1>10. CASE RecordAttempt
  <2>1. entry \in Entries /\ op \in Ops
    BY <1>10 DEF RecordAttempt, EntryIsRecorded, Settling
  <2>2. Attempted(entry) \in Entries
    BY <1>10, <2>1, WrittenEntries DEF RecordAttempt, MaySend
  <2> QED
    BY <1>10, <2>1, <2>2, SavedEntry DEF RecordAttempt
<1>11. CASE Broadcast
  <2>1. entry \in Entries /\ op \in Ops
    BY <1>11 DEF Broadcast, EntryIsRecorded, Settling
  <2>2. Tx(op, entry) \in Txs
    BY <2>1 DEF Tx, Txs, Entries
  <2> QED
    BY <1>11, <2>1, <2>2 DEF Broadcast
<1>12. CASE Answered
  <2>1. entry \in Entries /\ op \in Ops
    BY <1>12 DEF Answered, EntryIsRecorded, Settling
  <2>2. \A s \in EntryStates : [entry EXCEPT !.state = s] \in Entries
    BY <2>1, WrittenEntries
  <2>3. CASE answer = "accepted"
    BY <1>12, <2>1, <2>2, <2>3, SavedEntry DEF Answered, EntryStates
  <2>4. CASE answer # "accepted"
    <3>1. PICK s \in EntryStates :
            journal' = [journal EXCEPT ![op] = [entry EXCEPT !.state = s]]
      BY <1>12, <2>4 DEF Answered, EntryStates
    <3>2. journal' \in [Ops -> Entries \cup {NOTHING}]
      BY <2>1, <2>2, <3>1
    <3>3. Close /\ UNCHANGED <<network, broadcasts, passed>>
      BY <1>12, <2>4 DEF Answered
    <3> QED
      BY <3>2, <3>3 DEF Close, Forget
  <2> QED
    BY <2>3, <2>4
<1>13. CASE SeePending
  BY <1>13 DEF SeePending
<1>14. CASE Confirm
  <2>1. entry \in Entries /\ op \in Ops
    BY <1>14 DEF Confirm, EntryIsRecorded, Settling
  <2>2. PICK h \in At(index, Tx(op, entry)) :
          Save([entry EXCEPT !.state = "confirmed", !.height = h])
    BY <1>14 DEF Confirm
  <2>3. h \in Nat
    BY <2>2 DEF At, Mined
  <2>4. [entry EXCEPT !.state = "confirmed", !.height = h] \in Entries
    BY <2>1, <2>3, WrittenEntries
  <2> QED
    BY <1>14, <2>1, <2>2, <2>4, SavedEntry DEF Confirm
<1> QED
  BY <1>1, <1>2, <1>3, <1>4, <1>5, <1>6, <1>7, <1>8, <1>9, <1>10, <1>11, <1>12,
     <1>13, <1>14 DEF Run

LEMMA ExtendTypes ==
    ASSUME JournalTypeOK, NEW b \in Blocks \cup {NOTHING}, Extend(b)
    PROVE  /\ chain' \in Seq(Blocks \cup {NOTHING}) /\ stable' \in Nat
           /\ Len(chain') = Len(chain) + 1
           /\ \A h \in 1..Len(chain) : chain'[h] = chain[h]
           /\ chain'[Len(chain) + 1] = b
BY BoundsAssumption, AppendProperties, LenProperties DEF JournalTypeOK, Extend, Max2

LEMMA NetworkTypes ==
    ASSUME JournalTypeOK, Network
    PROVE  JournalTypeOK'
<1> USE DEF JournalTypeOK, process
<1>1. CASE Mine
  <2>1. PICK tx \in mempool, ok \in BOOLEAN :
          /\ Extend([tx |-> tx, ok |-> ok])
          /\ mempool' = {t \in mempool : t.nonce # tx.nonce}
    BY <1>1 DEF Mine
  <2>2. [tx |-> tx, ok |-> ok] \in Blocks
    BY DEF Blocks
  <2>3. chain' \in Seq(Blocks \cup {NOTHING}) /\ stable' \in Nat
    BY <2>1, <2>2, ExtendTypes
  <2> QED
    BY <1>1, <2>1, <2>3 DEF Mine
<1>2. CASE MineOther
  <2>1. chain' \in Seq(Blocks \cup {NOTHING}) /\ stable' \in Nat
    BY <1>2, ExtendTypes DEF MineOther
  <2> QED
    BY <1>2, <2>1 DEF MineOther
<1>3. CASE Fork
  <2>1. PICK h \in stable..(Len(chain) - 1) :
          /\ chain' = SubSeq(chain, 1, h)
          /\ \E back \in SUBSET {chain[k].tx : k \in {k \in Mined(chain) : k > h}} :
                 mempool' = mempool \cup back
    BY <1>3 DEF Fork
  <2>2. \A i \in 1..h : chain[i] \in Blocks \cup {NOTHING}
    BY ElementOfSeq, LenProperties
  <2>3. chain' \in Seq(Blocks \cup {NOTHING})
    BY <2>1, <2>2, SubSeqProperties, LenProperties
  <2>4. \A k \in Mined(chain) : chain[k].tx \in Txs
    BY ElementOfSeq DEF Mined, Blocks
  <2>5. {chain[k].tx : k \in {k \in Mined(chain) : k > h}} \subseteq Txs
    BY <2>4
  <2>6. mempool' \subseteq Txs
    BY <2>1, <2>5
  <2> QED
    BY <1>3, <2>3, <2>6 DEF Fork
<1>4. CASE Drop
  BY <1>4 DEF Drop
<1>5. CASE IndexFollows
  BY <1>5 DEF IndexFollows
<1> QED
  BY <1>1, <1>2, <1>3, <1>4, <1>5 DEF Network

-----------------------------------------------------------------------------
(* The network forgets and does not invent *)

\* What the network has of this account.
Sent(pool, c) == pool \cup {c[h].tx : h \in Mined(c)}

LEMMA NetworkTransactions ==
    ASSUME JournalTypeOK, NoncesDiffer, Network
    PROVE  Sent(mempool', chain') \subseteq Sent(mempool, chain) /\ NoncesDiffer'
<1> USE DEF Sent
<1>1. CASE Mine
  <2>1. PICK tx \in mempool, ok \in BOOLEAN :
          /\ IsNextNonce(chain, tx.nonce)
          /\ Extend([tx |-> tx, ok |-> ok])
          /\ mempool' = {t \in mempool : t.nonce # tx.nonce}
    BY <1>1 DEF Mine
  <2> DEFINE b == [tx |-> tx, ok |-> ok]
  <2>2. b \in Blocks /\ b # NOTHING
    BY NothingAssumption DEF Blocks, JournalTypeOK
  <2>3. /\ Len(chain') = Len(chain) + 1 /\ chain' \in Seq(Blocks \cup {NOTHING})
        /\ \A h \in 1..Len(chain) : chain'[h] = chain[h]
        /\ chain'[Len(chain) + 1] = b
    BY <2>1, <2>2, ExtendTypes
  <2>4. /\ DOMAIN chain = 1..Len(chain) /\ Len(chain) \in Nat
        /\ DOMAIN chain' = 1..(Len(chain) + 1)
    BY <2>3, LenProperties DEF JournalTypeOK
  <2> HIDE DEF b
  <2>5. Mined(chain') = Mined(chain) \cup {Len(chain) + 1}
    BY <2>2, <2>3, <2>4 DEF Mined
  <2>6. b.tx = tx
    BY DEF b
  <2>7. \A h \in Mined(chain) : /\ h \in 1..Len(chain) /\ chain'[h] = chain[h]
                                /\ chain[h].tx.nonce # tx.nonce
    BY <2>1, <2>3, <2>4 DEF Mined, IsNextNonce, Used
  <2>8. NoncesDiffer'
    BY <2>3, <2>5, <2>6, <2>7 DEF NoncesDiffer
  <2>9. Sent(mempool', chain') \subseteq Sent(mempool, chain)
    BY <2>1, <2>3, <2>5, <2>6, <2>7
  <2> QED
    BY <2>8, <2>9
<1>2. CASE MineOther
  <2>1. /\ Len(chain') = Len(chain) + 1 /\ chain' \in Seq(Blocks \cup {NOTHING})
        /\ \A h \in 1..Len(chain) : chain'[h] = chain[h]
        /\ chain'[Len(chain) + 1] = NOTHING
    BY <1>2, ExtendTypes DEF MineOther
  <2>2. /\ DOMAIN chain = 1..Len(chain) /\ Len(chain) \in Nat
        /\ DOMAIN chain' = 1..(Len(chain) + 1)
    BY <2>1, LenProperties DEF JournalTypeOK
  <2>3. Mined(chain') = Mined(chain)
    BY <2>1, <2>2 DEF Mined
  <2>4. \A h \in Mined(chain) : chain'[h] = chain[h]
    BY <2>1, <2>2 DEF Mined
  <2> QED
    BY <1>2, <2>3, <2>4 DEF MineOther, NoncesDiffer
<1>3. CASE Fork
  <2>1. PICK h \in stable..(Len(chain) - 1) :
          /\ chain' = SubSeq(chain, 1, h)
          /\ \E back \in SUBSET {chain[k].tx : k \in {k \in Mined(chain) : k > h}} :
                 mempool' = mempool \cup back
    BY <1>3 DEF Fork
  <2>2. /\ DOMAIN chain = 1..Len(chain) /\ Len(chain) \in Nat /\ h \in Nat
        /\ h <= Len(chain)
    BY LenProperties DEF JournalTypeOK
  <2>3. \A i \in 1..h : chain[i] \in Blocks \cup {NOTHING}
    BY <2>2, ElementOfSeq DEF JournalTypeOK
  <2>4. DOMAIN chain' = 1..h /\ \A i \in 1..h : chain'[i] = chain[i]
    BY <2>1, <2>2, <2>3, SubSeqProperties, LenProperties
  <2>5. \A k \in Mined(chain') : k \in Mined(chain) /\ chain'[k] = chain[k]
    BY <2>2, <2>4 DEF Mined
  <2>6. NoncesDiffer'
    BY <2>5 DEF NoncesDiffer
  <2>7. {chain[k].tx : k \in {k \in Mined(chain) : k > h}}
            \subseteq Sent(mempool, chain)
    OBVIOUS
  <2>8. Sent(mempool', chain') \subseteq Sent(mempool, chain)
    BY <2>1, <2>5, <2>7
  <2> QED
    BY <2>6, <2>8
<1>4. CASE Drop
  BY <1>4 DEF Drop, NoncesDiffer, Mined
<1>5. CASE IndexFollows
  BY <1>5 DEF IndexFollows, NoncesDiffer, Mined
<1> QED
  BY <1>1, <1>2, <1>3, <1>4, <1>5 DEF Network

LEMMA NetworkStep ==
    ASSUME JournalInv, Network
    PROVE  JournalInv'
<1>1. UNCHANGED <<broadcasts, journal, process>>
  BY DEF Network, Mine, MineOther, Fork, Drop, IndexFollows
<1>2. JournalTypeOK'
  BY NetworkTypes DEF JournalInv
<1>3. Sent(mempool', chain') \subseteq Sent(mempool, chain) /\ NoncesDiffer'
  BY NetworkTransactions DEF JournalInv
<1>4. RecordedBeforeBroadcast'
  BY <1>1, <1>3 DEF JournalInv, RecordedBeforeBroadcast, Sent, Tx
<1>5. EntryIsRecorded' /\ BroadcastsCounted'
  BY <1>1 DEF JournalInv, EntryIsRecorded, BroadcastsCounted, process
<1> QED
  BY <1>2, <1>3, <1>4, <1>5 DEF JournalInv

-----------------------------------------------------------------------------
(* A run records before it sends *)

\* What a step writes into the journal: the entry of the current operation, at
\* most, with the nonce it had.
LEMMA RunWrites ==
    ASSUME JournalTypeOK, EntryIsRecorded, Run
    PROVE  /\ \A o \in Ops \ {op} : journal'[o] = journal[o]
           /\ op \in Ops /\ journal[op] # NOTHING =>
                 journal'[op] # NOTHING /\ journal'[op].nonce = journal[op].nonce
<1>1. CASE UNCHANGED journal
  BY <1>1
<1>2. CASE Sign
  BY <1>2, NothingAssumption DEF Sign, Save, JournalTypeOK, EntryIsRecorded
<1>3. ASSUME op \in Ops, entry \in Entries, entry = journal[op],
             NEW e \in Entries, e.nonce = entry.nonce,
             journal' = [journal EXCEPT ![op] = e]
      PROVE  /\ \A o \in Ops \ {op} : journal'[o] = journal[o]
             /\ journal'[op] # NOTHING /\ journal'[op].nonce = journal[op].nonce
  BY <1>3, NothingAssumption DEF JournalTypeOK
<1>4. CASE RecordAttempt
  <2>1. op \in Ops /\ entry \in Entries /\ entry = journal[op]
    BY <1>4 DEF RecordAttempt, EntryIsRecorded, Settling, JournalTypeOK
  <2>2. Attempted(entry) \in Entries /\ Attempted(entry).nonce = entry.nonce
    BY <1>4, <2>1, WrittenEntries DEF RecordAttempt, MaySend, Attempted, Entries
  <2> QED
    BY <1>3, <1>4, <2>1, <2>2 DEF RecordAttempt, Save
<1>5. CASE Answered
  <2>1. op \in Ops /\ entry \in Entries /\ entry = journal[op]
    BY <1>5 DEF Answered, EntryIsRecorded, Settling, JournalTypeOK
  <2>2. PICK s \in EntryStates :
          journal' = [journal EXCEPT ![op] = [entry EXCEPT !.state = s]]
    BY <1>5 DEF Answered, EntryStates, Save
  <2>3. [entry EXCEPT !.state = s] \in Entries
        /\ [entry EXCEPT !.state = s].nonce = entry.nonce
    BY <2>1, WrittenEntries DEF Entries
  <2> QED
    BY <1>3, <2>1, <2>2, <2>3
<1>6. CASE Confirm
  <2>1. op \in Ops /\ entry \in Entries /\ entry = journal[op]
    BY <1>6 DEF Confirm, EntryIsRecorded, Settling, JournalTypeOK
  <2>2. PICK h \in At(index, Tx(op, entry)) :
          journal' = [journal EXCEPT
                         ![op] = [entry EXCEPT !.state = "confirmed", !.height = h]]
    BY <1>6 DEF Confirm, Save
  <2>3. h \in Nat
    BY <2>2, LenProperties DEF At, Mined, JournalTypeOK
  <2>4. [entry EXCEPT !.state = "confirmed", !.height = h] \in Entries
        /\ [entry EXCEPT !.state = "confirmed", !.height = h].nonce = entry.nonce
    BY <2>1, <2>3, WrittenEntries DEF Entries
  <2> QED
    BY <1>3, <2>1, <2>2, <2>4
<1> QED
  BY <1>1, <1>2, <1>4, <1>5, <1>6 DEF Run, Begin, Stop, Crash, Recover, Plan,
     Reconcile, Staged, Postflight, TipReached, Revalidate, Pass, Pick, Broadcast,
     SeePending

\* What a step sends: the recorded bytes of the current operation, at most.
LEMMA RunSends ==
    ASSUME JournalTypeOK, EntryIsRecorded, Run
    PROVE  /\ chain' = chain
           /\ \/ mempool' = mempool
              \/ /\ op \in Ops /\ journal[op] # NOTHING
                 /\ mempool' = mempool \cup {Tx(op, journal[op])}
<1>1. CASE Broadcast
  <2>1. op \in Ops /\ entry = journal[op] /\ journal[op] # NOTHING
    BY <1>1 DEF Broadcast, EntryIsRecorded, Settling
  <2> QED
    BY <1>1, <2>1 DEF Broadcast
<1>2. CASE UNCHANGED network
  BY <1>2 DEF network
<1> QED
  BY <1>1, <1>2 DEF Run, Begin, Stop, Crash, Recover, Plan, Reconcile, Staged,
     Postflight, TipReached, Revalidate, Pass, Pick, Sign, RecordAttempt,
     Answered, SeePending, Confirm

LEMMA RunKeepsTheRecord ==
    ASSUME JournalInv, Run
    PROVE  RecordedBeforeBroadcast' /\ NoncesDiffer'
<1> USE DEF JournalInv
<1>1. Sent(mempool, chain) \subseteq Txs
  BY ElementOfSeq, LenProperties DEF Sent, JournalTypeOK, Mined, Blocks
<1>2. \A o \in Ops : journal[o] # NOTHING =>
          journal'[o] # NOTHING /\ Tx(o, journal'[o]) = Tx(o, journal[o])
  BY RunWrites DEF Tx
<1>3. \A tx \in Sent(mempool, chain) :
          tx.op \in Ops /\ journal[tx.op] # NOTHING /\ Tx(tx.op, journal[tx.op]) = tx
  BY <1>1 DEF RecordedBeforeBroadcast, Sent, Txs
<1>4. \A tx \in Sent(mempool', chain') :
          tx.op \in Ops /\ journal[tx.op] # NOTHING /\ Tx(tx.op, journal[tx.op]) = tx
  BY <1>3, RunSends DEF Sent, Mined, Tx
<1>5. RecordedBeforeBroadcast'
  BY <1>2, <1>4 DEF RecordedBeforeBroadcast, Sent
<1>6. NoncesDiffer'
  BY RunSends DEF NoncesDiffer, Mined
<1> QED
  BY <1>5, <1>6

-----------------------------------------------------------------------------
(* A run works on what it has written, and counts before it sends *)

LEMMA RunKeepsTheEntry ==
    ASSUME JournalTypeOK, EntryIsRecorded, Run
    PROVE  EntryIsRecorded'
<1> USE DEF EntryIsRecorded, Settling, Goto
<1>1. CASE Pick
  BY <1>1 DEF Pick, JournalTypeOK
<1>2. CASE Sign
  <2>1. PICK n \in 0..Len(index) :
          Save([nonce |-> n, state |-> "signed", attempts |-> 0, height |-> 0])
    BY <1>2 DEF Sign
  <2>2. [nonce |-> n, state |-> "signed", attempts |-> 0, height |-> 0] \in Entries
    BY BoundsAssumption, LenProperties DEF Entries, EntryStates, JournalTypeOK
  <2> QED
    BY <1>2, <2>1, <2>2, SavedEntry, NothingAssumption DEF Sign
<1>3. CASE RecordAttempt
  <2>1. op \in Ops /\ entry \in Entries
    BY <1>3 DEF RecordAttempt, JournalTypeOK
  <2>2. Attempted(entry) \in Entries /\ Attempted(entry).state = "attempted"
    BY <1>3, <2>1, WrittenEntries DEF RecordAttempt, MaySend, Attempted, Entries
  <2>3. entry' = Attempted(entry) /\ journal'[op] = Attempted(entry)
    BY <1>3, <2>1, <2>2, SavedEntry DEF RecordAttempt
  <2> QED
    BY <1>3, <2>1, <2>2, <2>3, NothingAssumption DEF RecordAttempt
<1>4. CASE Broadcast
  BY <1>4 DEF Broadcast
<1>5. CASE Answered
  <2>1. op \in Ops /\ entry \in Entries
    BY <1>5 DEF Answered, JournalTypeOK
  <2>2. CASE answer = "accepted"
    <3>1. [entry EXCEPT !.state = "accepted"] \in Entries
      BY <2>1, WrittenEntries DEF EntryStates
    <3>2. Save([entry EXCEPT !.state = "accepted"]) /\ pc' = "confirming" /\ op' = op
      BY <1>5, <2>2 DEF Answered
    <3>3. entry' = journal'[op] /\ entry' \in Entries
      BY <2>1, <3>1, <3>2, SavedEntry
    <3> QED
      BY <2>1, <3>2, <3>3, NothingAssumption
  <2>3. CASE answer # "accepted"
    BY <1>5, <2>3 DEF Answered, Close, Forget
  <2> QED
    BY <2>2, <2>3
<1>6. CASE SeePending
  BY <1>6 DEF SeePending
<1>7. CASE pc' \in {"idle", "picking", "waiting", "revalidating"}
  BY <1>7
<1> QED
  BY <1>1, <1>2, <1>3, <1>4, <1>5, <1>6, <1>7 DEF Run, Begin, Stop, Crash, Recover,
     Plan, Reconcile, Staged, Postflight, TipReached, Revalidate, Pass, Confirm,
     Close, Forget, process

LEMMA RunCounts ==
    ASSUME JournalInv, Run
    PROVE  BroadcastsCounted'
<1> USE DEF JournalInv
<1>1. CASE UNCHANGED <<broadcasts, journal>> /\ pc' # "broadcasting"
  BY <1>1 DEF BroadcastsCounted
<1>2. CASE Sign
  <2>1. PICK n \in 0..Len(index) :
          Save([nonce |-> n, state |-> "signed", attempts |-> 0, height |-> 0])
    BY <1>2 DEF Sign
  <2> DEFINE e == [nonce |-> n, state |-> "signed", attempts |-> 0, height |-> 0]
  <2>2. e \in Entries /\ e.attempts = 0
    BY BoundsAssumption, LenProperties DEF Entries, EntryStates, JournalTypeOK
  <2> HIDE DEF e
  <2>3. op \in Ops /\ broadcasts[op] = 0 /\ broadcasts' = broadcasts
        /\ pc' # "broadcasting"
    BY <1>2 DEF Sign, EntryIsRecorded, BroadcastsCounted, Goto
  <2>4. journal'[op] = e /\ \A o \in Ops \ {op} : journal'[o] = journal[o]
    BY <2>1, <2>2, <2>3, SavedEntry DEF e
  <2> QED
    BY <2>2, <2>3, <2>4 DEF BroadcastsCounted
<1>3. CASE RecordAttempt
  <2>1. op \in Ops /\ entry \in Entries /\ entry = journal[op] /\ journal[op] # NOTHING
    BY <1>3 DEF RecordAttempt, EntryIsRecorded, Settling, JournalTypeOK
  <2>2. Attempted(entry) \in Entries /\ Attempted(entry).attempts = entry.attempts + 1
    BY <1>3, <2>1, WrittenEntries DEF RecordAttempt, MaySend, Attempted, Entries
  <2>3. /\ entry' = Attempted(entry) /\ journal'[op] = Attempted(entry)
        /\ \A o \in Ops \ {op} : journal'[o] = journal[o]
    BY <1>3, <2>1, <2>2, SavedEntry DEF RecordAttempt
  <2>4. broadcasts' = broadcasts /\ op' = op
    BY <1>3 DEF RecordAttempt
  <2>5. broadcasts[op] \in Nat /\ entry.attempts \in Nat
        /\ broadcasts[op] <= entry.attempts
    BY <2>1, BoundsAssumption DEF BroadcastsCounted, JournalTypeOK, Entries
  <2>6. journal'[op] # NOTHING /\ journal'[op].attempts = entry.attempts + 1
        /\ entry'.attempts = entry.attempts + 1
    BY <2>2, <2>3, NothingAssumption
  <2>7. broadcasts'[op'] < entry'.attempts
    BY <2>4, <2>5, <2>6
  <2>8. \A o \in Ops : IF journal'[o] = NOTHING THEN broadcasts'[o] = 0
                       ELSE broadcasts'[o] <= journal'[o].attempts
    BY <2>3, <2>4, <2>5, <2>6 DEF BroadcastsCounted
  <2> QED
    BY <2>7, <2>8 DEF BroadcastsCounted
<1>4. CASE Broadcast
  <2>1. /\ op \in Ops /\ entry \in Entries /\ entry = journal[op] /\ journal[op] # NOTHING
        /\ broadcasts[op] < entry.attempts
    BY <1>4 DEF Broadcast, EntryIsRecorded, BroadcastsCounted, Settling, JournalTypeOK
  <2>2. /\ broadcasts' = [broadcasts EXCEPT ![op] = @ + 1] /\ journal' = journal
        /\ pc' # "broadcasting"
    BY <1>4 DEF Broadcast, Goto
  <2>3. /\ broadcasts'[op] = broadcasts[op] + 1
        /\ \A o \in Ops \ {op} : broadcasts'[o] = broadcasts[o]
    BY <2>1, <2>2 DEF JournalTypeOK
  <2>4. broadcasts[op] \in Nat /\ journal[op].attempts \in Nat
    BY <2>1, BoundsAssumption DEF JournalTypeOK, Entries
  <2> QED
    BY <2>1, <2>2, <2>3, <2>4 DEF BroadcastsCounted
<1>5. ASSUME op \in Ops, entry \in Entries, entry = journal[op], journal[op] # NOTHING,
             NEW e \in Entries, e.attempts = entry.attempts,
             journal' = [journal EXCEPT ![op] = e], broadcasts' = broadcasts,
             pc' # "broadcasting"
      PROVE  BroadcastsCounted'
  <2>1. journal'[op] = e /\ \A o \in Ops \ {op} : journal'[o] = journal[o]
    BY <1>5 DEF JournalTypeOK
  <2>2. e # NOTHING
    BY NothingAssumption
  <2> QED
    BY <1>5, <2>1, <2>2 DEF BroadcastsCounted
<1>6. CASE Answered
  <2>1. op \in Ops /\ entry \in Entries /\ entry = journal[op] /\ journal[op] # NOTHING
    BY <1>6 DEF Answered, EntryIsRecorded, Settling, JournalTypeOK
  <2>2. PICK s \in EntryStates :
          journal' = [journal EXCEPT ![op] = [entry EXCEPT !.state = s]]
    BY <1>6 DEF Answered, EntryStates, Save
  <2>3. [entry EXCEPT !.state = s] \in Entries
        /\ [entry EXCEPT !.state = s].attempts = entry.attempts
    BY <2>1, WrittenEntries DEF Entries
  <2>4. broadcasts' = broadcasts /\ pc' # "broadcasting"
    BY <1>6 DEF Answered, Goto, Close, Forget
  <2> QED
    BY <1>5, <2>1, <2>2, <2>3, <2>4
<1>7. CASE Confirm
  <2>1. op \in Ops /\ entry \in Entries /\ entry = journal[op] /\ journal[op] # NOTHING
    BY <1>7 DEF Confirm, EntryIsRecorded, Settling, JournalTypeOK
  <2>2. PICK h \in At(index, Tx(op, entry)) :
          journal' = [journal EXCEPT
                         ![op] = [entry EXCEPT !.state = "confirmed", !.height = h]]
    BY <1>7 DEF Confirm, Save
  <2>3. h \in Nat
    BY <2>2, LenProperties DEF At, Mined, JournalTypeOK
  <2>4. [entry EXCEPT !.state = "confirmed", !.height = h] \in Entries
        /\ [entry EXCEPT !.state = "confirmed", !.height = h].attempts = entry.attempts
    BY <2>1, <2>3, WrittenEntries DEF Entries
  <2>5. broadcasts' = broadcasts /\ pc' # "broadcasting"
    BY <1>7 DEF Confirm, Goto
  <2> QED
    BY <1>5, <2>1, <2>2, <2>4, <2>5
<1> QED
  BY <1>1, <1>2, <1>3, <1>4, <1>6, <1>7 DEF Run, Begin, Stop, Crash, Recover, Plan,
     Reconcile, Staged, Postflight, TipReached, Revalidate, Pass, Pick, SeePending,
     Close, Forget, Goto, process

-----------------------------------------------------------------------------
(* The theorems *)

LEMMA RunStep ==
    ASSUME JournalInv, Run
    PROVE  JournalInv'
BY RunTypes, RunKeepsTheEntry, RunKeepsTheRecord, RunCounts DEF JournalInv

LEMMA StutterStep ==
    ASSUME JournalInv, UNCHANGED journalVars
    PROVE  JournalInv'
BY DEF journalVars, network, process, JournalInv, JournalTypeOK, EntryIsRecorded,
       RecordedBeforeBroadcast, NoncesDiffer, BroadcastsCounted, Mined

LEMMA JournalInvHolds == JournalSpec => []JournalInv
<1>1. JournalInit => JournalInv
  BY InitJournalInv
<1>2. JournalInv /\ [JournalNext]_journalVars => JournalInv'
  BY RunStep, NetworkStep, StutterStep DEF JournalNext
<1> QED
  BY <1>1, <1>2, PTL DEF JournalSpec

\* Every variable keeps its type: the attempts an entry records never exceed the
\* limit of settleRecordedEntry, whatever the node answers.
THEOREM JournalTypeCorrect == JournalSpec => []JournalTypeOK
<1>1. JournalInv => JournalTypeOK
  BY DEF JournalInv
<1> QED
  BY <1>1, JournalInvHolds, PTL

\* What the node or the chain has of this account is in the journal, byte for
\* byte, at any point at which the process may die.
THEOREM NothingIsSentUnrecorded == JournalSpec => []RecordedBeforeBroadcast
<1>1. JournalInv => RecordedBeforeBroadcast
  BY DEF JournalInv
<1> QED
  BY <1>1, JournalInvHolds, PTL

\* The bytes of an operation never change and the chain takes a nonce once:
\* no operation is on the chain twice, after any number of forks.
THEOREM ExecutedOnce == JournalSpec => []ExecutedAtMostOnce
<1>1. JournalInv => ExecutedAtMostOnce
  <2> SUFFICES ASSUME JournalInv, NEW h \in Mined(chain), NEW k \in Mined(chain),
                      chain[h].tx.op = chain[k].tx.op
               PROVE  h = k
    BY DEF ExecutedAtMostOnce
  <2>1. /\ Tx(chain[h].tx.op, journal[chain[h].tx.op]) = chain[h].tx
        /\ Tx(chain[k].tx.op, journal[chain[k].tx.op]) = chain[k].tx
    BY DEF JournalInv, RecordedBeforeBroadcast
  <2>2. chain[h].tx = chain[k].tx
    BY <2>1
  <2> QED
    BY <2>2 DEF JournalInv, NoncesDiffer
<1> QED
  BY <1>1, JournalInvHolds, PTL

\* Over all runs and crashes the network is sent the bytes of an operation at
\* most MaxBroadcasts times.
THEOREM BroadcastsStayBounded == JournalSpec => []BroadcastsBounded
<1>1. JournalInv => BroadcastsBounded
  <2> SUFFICES ASSUME JournalInv, NEW o \in Ops
               PROVE  broadcasts[o] <= MaxBroadcasts
    BY DEF BroadcastsBounded
  <2>1. CASE journal[o] = NOTHING
    BY <2>1, BoundsAssumption DEF JournalInv, BroadcastsCounted
  <2>2. CASE journal[o] # NOTHING
    <3>1. journal[o].attempts \in 0..MaxBroadcasts /\ broadcasts[o] \in Nat
      BY <2>2 DEF JournalInv, JournalTypeOK, Entries
    <3>2. broadcasts[o] <= journal[o].attempts
      BY <2>2 DEF JournalInv, BroadcastsCounted
    <3> QED
      BY <3>1, <3>2, BoundsAssumption
  <2> QED
    BY <2>1, <2>2
<1> QED
  BY <1>1, JournalInvHolds, PTL

\* No step touches an operation whose broadcast was rejected.
THEOREM RejectedIsLeftAlone == JournalSpec => FailClosed
<1> DEFINE Closed == \A o \in Recorded : journal[o].state = "rejected" =>
                         journal'[o] = journal[o] /\ broadcasts'[o] = broadcasts[o]
<1>1. ASSUME JournalInv, Run
      PROVE  Closed
  <2>1. \A o \in Ops \ {op} : journal'[o] = journal[o] /\ broadcasts'[o] = broadcasts[o]
    <3>1. \A o \in Ops \ {op} : broadcasts'[o] = broadcasts[o]
      BY <1>1 DEF JournalInv, JournalTypeOK, Run, Begin, Stop, Crash, Recover, Plan,
         Reconcile, Staged, Postflight, TipReached, Revalidate, Pass, Pick, Sign,
         RecordAttempt, Broadcast, Answered, SeePending, Confirm
    <3> QED
      BY <1>1, <3>1, RunWrites DEF JournalInv
  <2>2. ASSUME op \in Recorded, journal[op].state = "rejected"
        PROVE  UNCHANGED <<journal, broadcasts>>
    <3>1. ~Sign
      BY <1>1, <2>2 DEF Sign, JournalInv, EntryIsRecorded, Recorded
    <3>2. ~RecordAttempt /\ ~Confirm
      BY <1>1, <2>2 DEF RecordAttempt, Confirm, MayBeSettled, JournalInv,
         EntryIsRecorded, Settling
    <3>3. ~Broadcast /\ ~Answered
      BY <1>1, <2>2 DEF Broadcast, Answered, JournalInv, EntryIsRecorded, Settling
    <3> QED
      BY <1>1, <3>1, <3>2, <3>3 DEF Run, Begin, Stop, Crash, Recover, Plan,
         Reconcile, Staged, Postflight, TipReached, Revalidate, Pass, Pick, SeePending
  <2> QED
    BY <2>1, <2>2 DEF Recorded
<1>2. ASSUME Network
      PROVE  Closed
  BY <1>2 DEF Network, Mine, MineOther, Fork, Drop, IndexFollows
<1>3. ASSUME UNCHANGED journalVars
      PROVE  Closed
  BY <1>3 DEF journalVars
<1>4. JournalInv /\ [JournalNext]_journalVars => [Closed]_journalVars
  BY <1>1, <1>2, <1>3 DEF JournalNext
<1> QED
  BY <1>4, JournalInvHolds, PTL DEF JournalSpec, FailClosed

-----------------------------------------------------------------------------
(* A campaign that passed without a fork is final *)

\* The journal says in which block an operation was confirmed.
IsConfirmed(o) ==
    /\ journal[o].height \in At(chain, Tx(o, journal[o]))
    /\ chain[journal[o].height].ok

\* What the second reconciliation has not come to yet.
Unchecked == IF pc \in Settling THEN todo \cup {op}
             ELSE IF pc = "picking" THEN todo ELSE {}

Follows == Len(index) <= Len(chain) /\ \A h \in 1..Len(index) : index[h] = chain[h]
Stabilises == Len(chain) <= stable + FinalityDepth
Confirmations ==
    \A o \in Recorded : journal[o].state = "confirmed" => IsConfirmed(o)
SecondReconciliation ==
    stage = "rechecking" =>
        /\ todo \subseteq Recorded /\ pc # "signing"
        /\ \A o \in Recorded \ Unchecked : journal[o].state = "confirmed"
Waits ==
    /\ pc \in {"waiting", "revalidating"} =>
           stage = "rechecking" /\ Ops \subseteq Done(chain)
    /\ pc = "revalidating" =>
           \A o \in Recorded : IsDeepEnough(journal[o].height, Len(chain))

FinalInv ==
    forks = 0 =>
        Follows /\ Stabilises /\ Confirmations /\ SecondReconciliation /\ Waits

LEMMA ChainGrows ==
    ASSUME JournalTypeOK, Network, forks' = 0, Follows, Stabilises
    PROVE  /\ forks = 0 /\ Follows' /\ Stabilises'
           /\ Len(chain) <= Len(chain')
           /\ \A h \in 1..Len(chain) : chain'[h] = chain[h]
<1> USE DEF Follows, Stabilises
<1>1. /\ Len(chain) \in Nat /\ Len(index) \in Nat /\ stable \in Nat /\ forks \in Nat
  BY LenProperties DEF JournalTypeOK
<1>2. ASSUME NEW b \in Blocks \cup {NOTHING}, Extend(b)
      PROVE  /\ Len(chain') = Len(chain) + 1 /\ Stabilises'
             /\ \A h \in 1..Len(chain) : chain'[h] = chain[h]
  BY <1>1, <1>2, ExtendTypes, BoundsAssumption DEF Extend, Max2
<1>3. ASSUME NEW b \in Blocks \cup {NOTHING}, Extend(b), UNCHANGED <<forks, index>>
      PROVE  /\ forks = 0 /\ Follows' /\ Stabilises' /\ Len(chain) <= Len(chain')
             /\ \A h \in 1..Len(chain) : chain'[h] = chain[h]
  BY <1>1, <1>2, <1>3
<1>4. CASE Mine
  <2>1. PICK tx \in mempool, ok \in BOOLEAN : Extend([tx |-> tx, ok |-> ok])
    BY <1>4 DEF Mine
  <2>2. [tx |-> tx, ok |-> ok] \in Blocks
    BY DEF Blocks, JournalTypeOK
  <2> QED
    BY <1>3, <1>4, <2>1, <2>2 DEF Mine
<1>5. CASE MineOther
  BY <1>3, <1>5 DEF MineOther
<1>6. ~Fork
  BY <1>1 DEF Fork
<1>7. CASE Drop
  BY <1>1, <1>7 DEF Drop
<1>8. CASE IndexFollows
  BY <1>1, <1>8 DEF IndexFollows
<1> QED
  BY <1>4, <1>5, <1>6, <1>7, <1>8 DEF Network

\* On a chain that only grows a transaction stays where it is.
LEMMA StaysMined ==
    ASSUME JournalTypeOK, JournalTypeOK', Len(chain) <= Len(chain'),
           \A h \in 1..Len(chain) : chain'[h] = chain[h]
    PROVE  /\ \A h \in Mined(chain) : h \in Mined(chain') /\ chain'[h] = chain[h]
           /\ Done(chain) \subseteq Done(chain')
<1>1. /\ DOMAIN chain = 1..Len(chain) /\ Len(chain) \in Nat
      /\ DOMAIN chain' = 1..Len(chain') /\ Len(chain') \in Nat
  BY LenProperties DEF JournalTypeOK
<1>2. \A h \in Mined(chain) : h \in Mined(chain') /\ chain'[h] = chain[h]
  BY <1>1 DEF Mined
<1> QED
  BY <1>2 DEF Done

LEMMA NetworkKeepsFinal ==
    ASSUME JournalInv, FinalInv, Network
    PROVE  FinalInv'
<1> SUFFICES ASSUME forks' = 0
             PROVE  Follows' /\ Stabilises' /\ Confirmations'
                    /\ SecondReconciliation' /\ Waits'
  BY DEF FinalInv
<1>1. JournalTypeOK /\ JournalTypeOK'
  BY NetworkTypes DEF JournalInv
<1>2. UNCHANGED <<journal, process>>
  BY DEF Network, Mine, MineOther, Fork, Drop, IndexFollows
<1>3. forks = 0
  BY <1>1 DEF Network, Mine, MineOther, Fork, Drop, IndexFollows, JournalTypeOK
<1>4. Follows /\ Stabilises /\ Confirmations /\ SecondReconciliation /\ Waits
  BY <1>3 DEF FinalInv
<1>5. /\ Follows' /\ Stabilises' /\ Len(chain) <= Len(chain')
      /\ \A h \in 1..Len(chain) : chain'[h] = chain[h]
  BY <1>1, <1>4, ChainGrows
<1>6. /\ \A h \in Mined(chain) : h \in Mined(chain') /\ chain'[h] = chain[h]
      /\ Done(chain) \subseteq Done(chain')
  BY <1>1, <1>5, StaysMined
<1>7. Confirmations'
  <2>1. ASSUME NEW o \in Recorded, IsConfirmed(o)
        PROVE  IsConfirmed(o)'
    BY <1>2, <1>6, <2>1 DEF IsConfirmed, At, Tx
  <2> QED
    BY <1>2, <1>4, <2>1 DEF Confirmations, Recorded
<1>8. SecondReconciliation'
  BY <1>2, <1>4 DEF SecondReconciliation, Recorded, Unchecked, process
<1>9. Waits'
  <2>1. ASSUME NEW o \in Recorded, IsDeepEnough(journal[o].height, Len(chain))
        PROVE  IsDeepEnough(journal[o].height, Len(chain'))
    <3>1. journal[o].height \in Nat /\ Len(chain) \in Nat /\ Len(chain') \in Nat
      BY <1>1, LenProperties DEF JournalTypeOK, Recorded, Entries
    <3> QED
      BY <1>5, <2>1, <3>1, BoundsAssumption DEF IsDeepEnough
  <2> QED
    BY <1>2, <1>4, <1>6, <2>1 DEF Waits, Recorded, process
<1> QED
  BY <1>5, <1>7, <1>8, <1>9

\* What a run does to the journal, as far as confirmations are concerned.
LEMMA RunConfirms ==
    ASSUME JournalInv, Run, Follows
    PROVE  \A o \in Recorded' :
               \/ o \in Recorded /\ journal'[o] = journal[o]
               \/ /\ o = op /\ pc \in Settling \cup {"signing"}
                  /\ IF Confirm THEN journal'[o].state = "confirmed" /\ IsConfirmed(o)'
                     ELSE journal'[o].state # "confirmed"
<1>1. /\ \A o \in Ops \ {op} : journal'[o] = journal[o]
      /\ chain' = chain /\ JournalTypeOK /\ EntryIsRecorded
  BY RunWrites, RunSends DEF JournalInv
<1>2. CASE UNCHANGED journal
  BY <1>2 DEF Recorded
<1>3. ASSUME op \in Ops, NEW e \in Entries, journal' = [journal EXCEPT ![op] = e],
             pc \in Settling \cup {"signing"},
             IF Confirm
             THEN /\ e.state = "confirmed" /\ e.height \in At(chain, Tx(op, e))
                  /\ chain[e.height].ok
             ELSE e.state # "confirmed"
      PROVE  \A o \in Recorded' :
               \/ o \in Recorded /\ journal'[o] = journal[o]
               \/ /\ o = op
                  /\ IF Confirm THEN journal'[o].state = "confirmed" /\ IsConfirmed(o)'
                     ELSE journal'[o].state # "confirmed"
  <2>1. journal'[op] = e
    BY <1>1, <1>3 DEF JournalTypeOK
  <2>2. ASSUME NEW o \in Ops, o = op, Confirm PROVE IsConfirmed(o)'
    <3>1. journal'[o] = e /\ At(chain, Tx(o, journal[o]))' = At(chain, Tx(op, e))
      BY <1>1, <2>1, <2>2 DEF At, Mined, Tx
    <3> QED
      BY <1>1, <1>3, <2>2, <3>1 DEF IsConfirmed
  <2>3. ASSUME NEW o \in Recorded', o # op
        PROVE  o \in Recorded /\ journal'[o] = journal[o]
    BY <1>1, <2>3 DEF Recorded
  <2>4. ASSUME NEW o \in Recorded', o = op
        PROVE  IF Confirm THEN journal'[o].state = "confirmed" /\ IsConfirmed(o)'
               ELSE journal'[o].state # "confirmed"
    BY <1>3, <2>1, <2>2, <2>4 DEF Recorded
  <2> QED
    BY <2>3, <2>4
<1>4. CASE Sign
  <2>1. PICK n \in 0..Len(index) :
          Save([nonce |-> n, state |-> "signed", attempts |-> 0, height |-> 0])
    BY <1>4 DEF Sign
  <2>2. [nonce |-> n, state |-> "signed", attempts |-> 0, height |-> 0] \in Entries
    BY <1>1, BoundsAssumption, LenProperties DEF Entries, EntryStates, JournalTypeOK
  <2>3. op \in Ops /\ pc = "signing" /\ ~Confirm
    BY <1>1, <1>4 DEF Sign, EntryIsRecorded, Confirm
  <2> QED
    BY <1>3, <2>1, <2>2, <2>3 DEF Save
<1>5. CASE RecordAttempt
  <2>1. /\ op \in Ops /\ entry \in Entries /\ entry = journal[op]
        /\ pc = "looking" /\ pc' = "broadcasting"
    BY <1>1, <1>5 DEF RecordAttempt, EntryIsRecorded, Settling, JournalTypeOK, Goto
  <2>2. Attempted(entry) \in Entries /\ Attempted(entry).state = "attempted"
    BY <1>1, <1>5, <2>1, WrittenEntries DEF RecordAttempt, MaySend, Attempted, Entries
  <2>3. ~Confirm
    BY <2>1 DEF Confirm, Goto
  <2> QED
    BY <1>3, <1>5, <2>1, <2>2, <2>3 DEF RecordAttempt, Save, Settling
<1>6. CASE Answered
  <2>1. /\ op \in Ops /\ entry \in Entries /\ pc = "answering"
    BY <1>1, <1>6 DEF Answered, EntryIsRecorded, Settling, JournalTypeOK
  <2>2. PICK s \in {"accepted", "uncertain", "rejected"} :
          journal' = [journal EXCEPT ![op] = [entry EXCEPT !.state = s]]
    BY <1>6 DEF Answered, Save
  <2>3. /\ [entry EXCEPT !.state = s] \in Entries
        /\ [entry EXCEPT !.state = s].state # "confirmed"
    BY <1>1, <2>1, WrittenEntries DEF Entries, EntryStates
  <2>4. ~Confirm
    BY <2>1 DEF Confirm
  <2> QED
    BY <1>3, <2>1, <2>2, <2>3, <2>4 DEF Settling
<1>7. CASE Confirm
  <2>1. /\ op \in Ops /\ entry \in Entries /\ pc \in Settling
    BY <1>1, <1>7 DEF Confirm, EntryIsRecorded, Settling, JournalTypeOK
  <2>2. PICK h \in At(index, Tx(op, entry)) :
          /\ index[h].ok
          /\ journal' = [journal EXCEPT
                            ![op] = [entry EXCEPT !.state = "confirmed", !.height = h]]
    BY <1>7 DEF Confirm, Save
  <2> DEFINE e == [entry EXCEPT !.state = "confirmed", !.height = h]
  <2>3. h \in DOMAIN index /\ index[h] # NOTHING /\ index[h].tx = Tx(op, entry)
    BY <2>2 DEF At, Mined
  <2>4. DOMAIN index = 1..Len(index) /\ DOMAIN chain = 1..Len(chain)
        /\ Len(index) \in Nat /\ Len(chain) \in Nat /\ h \in Nat
    BY <1>1, <2>3, LenProperties DEF JournalTypeOK
  <2>5. h \in DOMAIN chain /\ chain[h] = index[h]
    BY <2>3, <2>4 DEF Follows
  <2>6. e \in Entries /\ e.state = "confirmed" /\ e.height = h /\ e.nonce = entry.nonce
    BY <1>1, <2>1, <2>4, WrittenEntries DEF Entries
  <2>7. e.height \in At(chain, Tx(op, e)) /\ chain[e.height].ok
    BY <2>2, <2>3, <2>5, <2>6 DEF At, Mined, Tx
  <2> HIDE DEF e
  <2>8. journal' = [journal EXCEPT ![op] = e]
    BY <2>2 DEF e
  <2> QED
    BY <1>3, <1>7, <2>1, <2>6, <2>7, <2>8
<1> QED
  BY <1>2, <1>4, <1>5, <1>6, <1>7 DEF Run, Begin, Stop, Crash, Recover, Plan,
     Reconcile, Staged, Postflight, TipReached, Revalidate, Pass, Pick, Broadcast,
     SeePending

LEMMA RunRechecks ==
    ASSUME JournalInv, Run, Follows, SecondReconciliation
    PROVE  SecondReconciliation'
<1> SUFFICES ASSUME stage' = "rechecking"
             PROVE  /\ todo' \subseteq Recorded' /\ pc' # "signing"
                    /\ \A o \in Recorded' \ Unchecked' : journal'[o].state = "confirmed"
  BY DEF SecondReconciliation
<1> USE DEF Goto, Settling
<1>1. /\ JournalTypeOK /\ EntryIsRecorded
      /\ \A o \in Recorded' :
             \/ o \in Recorded /\ journal'[o] = journal[o]
             \/ /\ o = op /\ pc \in Settling \cup {"signing"}
                /\ Confirm => journal'[o].state = "confirmed"
  BY RunConfirms DEF JournalInv
<1>2. Recorded \subseteq Recorded'
  <2>1. \A o \in Ops : journal[o] # NOTHING => journal'[o] # NOTHING
    BY <1>1, RunWrites DEF JournalInv
  <2> QED
    BY <2>1 DEF Recorded
<1>3. stage = "rechecking" =>
          /\ todo \subseteq Recorded /\ pc # "signing"
          /\ \A o \in Recorded \ Unchecked : journal[o].state = "confirmed"
  BY DEF SecondReconciliation
<1>4. CASE Begin
  BY <1>4 DEF Begin, Recorded, Unchecked
<1>5. CASE Stop \/ Crash \/ Pass
  BY <1>5 DEF Stop, Crash, Pass, Close, Forget
<1>6. CASE Recover
  BY <1>3, <1>6 DEF Recover, Recorded, Unchecked, process
<1>7. CASE Plan
  BY <1>7 DEF Plan, Staged
<1>8. CASE Reconcile
  BY <1>8 DEF Reconcile, Staged, Recorded, Unchecked
<1>9. CASE Postflight
  BY <1>3, <1>9 DEF Postflight, Recorded, Unchecked
<1>10. CASE TipReached
  BY <1>3, <1>10 DEF TipReached, Recorded, Unchecked
<1>11. CASE Revalidate
  BY <1>3, <1>11 DEF Revalidate, Recorded, Unchecked
<1>12. CASE Pick
  <2>1. stage = "rechecking" /\ UNCHANGED journal /\ pc = "picking"
    BY <1>12 DEF Pick
  <2>2. /\ op' \in todo /\ todo' = todo \ {op'}
        /\ pc' = IF journal[op'] = NOTHING THEN "signing" ELSE "looking"
    BY <1>12 DEF Pick
  <2>3. pc' = "looking"
    BY <1>3, <2>1, <2>2 DEF Recorded
  <2>4. Unchecked' = Unchecked
    BY <2>1, <2>2, <2>3 DEF Unchecked
  <2> QED
    BY <1>3, <2>1, <2>2, <2>3, <2>4 DEF Recorded
<1>13. CASE Sign
  BY <1>3, <1>13 DEF Sign
<1>14. CASE RecordAttempt \/ Broadcast \/ Answered \/ SeePending
  <2>1. /\ stage = "rechecking" /\ pc \in Settling /\ pc' \in Settling
        /\ UNCHANGED <<op, todo>>
    BY <1>14 DEF RecordAttempt, Broadcast, Answered, SeePending, Close, Forget
  <2>2. Unchecked' = todo \cup {op} /\ Unchecked = todo \cup {op}
    BY <2>1 DEF Unchecked
  <2> QED
    BY <1>1, <1>2, <1>3, <2>1, <2>2
<1>15. CASE Confirm
  <2>1. /\ stage = "rechecking" /\ pc \in Settling /\ pc' = "picking"
        /\ todo' = todo
    BY <1>15 DEF Confirm
  <2>2. Unchecked' = todo /\ Unchecked = todo \cup {op}
    BY <2>1 DEF Unchecked
  <2>3. ASSUME NEW o \in Recorded', o \notin todo
        PROVE  journal'[o].state = "confirmed"
    <3>1. CASE o \in Recorded /\ journal'[o] = journal[o] /\ o # op
      BY <1>3, <2>1, <2>2, <2>3, <3>1
    <3>2. CASE o = op
      <4>1. op \in Ops /\ entry \in Entries /\ journal \in [Ops -> Entries \cup {NOTHING}]
        BY <1>1, <2>1 DEF JournalTypeOK, EntryIsRecorded
      <4>2. PICK h \in At(index, Tx(op, entry)) :
              journal' = [journal EXCEPT
                             ![op] = [entry EXCEPT !.state = "confirmed", !.height = h]]
        BY <1>15 DEF Confirm, Save
      <4>3. [entry EXCEPT !.state = "confirmed", !.height = h].state = "confirmed"
        BY <4>1 DEF Entries
      <4> QED
        BY <3>2, <4>1, <4>2, <4>3
    <3> QED
      BY <1>1, <3>1, <3>2
  <2> QED
    BY <1>2, <1>3, <2>1, <2>2, <2>3
<1> QED
  BY <1>4, <1>5, <1>6, <1>7, <1>8, <1>9, <1>10, <1>11, <1>12, <1>13, <1>14, <1>15
  DEF Run

LEMMA RunKeepsFinal ==
    ASSUME JournalInv, FinalInv, Run
    PROVE  FinalInv'
<1>1. UNCHANGED <<chain, index, stable, forks>>
  BY DEF Run, Begin, Stop, Crash, Recover, Plan, Reconcile, Staged, Postflight,
     TipReached, Revalidate, Pass, Pick, Sign, RecordAttempt, Broadcast, Answered,
     SeePending, Confirm, network
<1> SUFFICES ASSUME forks = 0
             PROVE  Follows' /\ Stabilises' /\ Confirmations'
                    /\ SecondReconciliation' /\ Waits'
  BY <1>1 DEF FinalInv
<1>2. Follows /\ Stabilises /\ Confirmations /\ SecondReconciliation /\ Waits
  BY DEF FinalInv
<1>3. Follows' /\ Stabilises'
  BY <1>1, <1>2 DEF Follows, Stabilises
<1>4. Confirmations'
  <2>1. ASSUME NEW o \in Recorded', journal'[o].state = "confirmed"
        PROVE  IsConfirmed(o)'
    <3>1. CASE o \in Recorded /\ journal'[o] = journal[o]
      BY <1>1, <1>2, <2>1, <3>1 DEF Confirmations, IsConfirmed, At, Mined, Tx
    <3>2. CASE ~(o \in Recorded /\ journal'[o] = journal[o])
      BY <1>2, <2>1, <3>2, RunConfirms
    <3> QED
      BY <3>1, <3>2
  <2> QED
    BY <2>1 DEF Confirmations
<1>5. SecondReconciliation'
  BY <1>2, RunRechecks
<1>6. Waits'
  <2>1. CASE Postflight
    BY <1>1, <2>1 DEF Postflight, Waits, Goto, Done, Mined
  <2>2. CASE TipReached
    BY <1>1, <1>2, <2>2 DEF TipReached, Waits, Goto, Done, Mined, Recorded
  <2>3. CASE Revalidate
    BY <1>1, <1>2, <2>3 DEF Revalidate, Waits, Done, Mined, Recorded
  <2>4. CASE pc' \notin {"waiting", "revalidating"}
    BY <2>4 DEF Waits
  <2>5. Postflight \/ TipReached \/ Revalidate \/ pc' \notin {"waiting", "revalidating"}
    BY DEF Run, Begin, Stop, Crash, Recover, Plan, Reconcile, Staged, Pass, Pick, Sign,
       RecordAttempt, Broadcast, Answered, SeePending, Confirm, Close, Forget, Goto,
       process
  <2> QED
    BY <2>1, <2>2, <2>3, <2>4, <2>5
<1> QED
  BY <1>3, <1>4, <1>5, <1>6

LEMMA FinalInvHolds == JournalSpec => [](JournalInv /\ FinalInv)
<1>1. JournalInit => FinalInv
  <2> SUFFICES ASSUME JournalInit PROVE FinalInv
    OBVIOUS
  <2>1. Len(chain) = 0 /\ Len(index) = 0 /\ Recorded = {}
    BY DEF JournalInit, Recorded
  <2> QED
    BY <2>1, BoundsAssumption DEF JournalInit, FinalInv, Follows, Stabilises, Confirmations,
       SecondReconciliation, Waits
<1>2. ASSUME JournalInv, FinalInv, UNCHANGED journalVars
      PROVE  FinalInv'
  BY <1>2 DEF journalVars, network, process, FinalInv, Follows, Stabilises, Confirmations,
     IsConfirmed, SecondReconciliation, Unchecked, Waits, Recorded, At, Mined, Done
<1>3. JournalInv /\ FinalInv /\ [JournalNext]_journalVars => FinalInv'
  BY <1>2, RunKeepsFinal, NetworkKeepsFinal DEF JournalNext
<1> QED
  BY <1>1, <1>3, JournalInvHolds, PTL DEF JournalSpec

\* A deployment that passes without a fork leaves every operation of the catalog
\* executed with FinalityDepth blocks on top, whatever died on the way, was
\* answered late or not at all, or was shown late by the index.
THEOREM PassedStaysFinal == JournalSpec => PassedIsFinal
<1> DEFINE Final == passed' /\ ~passed /\ forks = 0 =>
                        \A o \in Ops : o \in Recorded /\ IsBuried(o)
<1>1. ASSUME JournalInv, FinalInv, passed' # passed, forks = 0, JournalNext
      PROVE  \A o \in Ops : o \in Recorded /\ IsBuried(o)
  <2>1. Pass
    BY <1>1 DEF JournalNext, Run, Begin, Stop, Crash, Recover, Plan, Reconcile, Staged,
       Postflight, TipReached, Revalidate, Pick, Sign, RecordAttempt, Broadcast,
       Answered, SeePending, Confirm, Network, Mine, MineOther, Fork, Drop, IndexFollows
  <2>2. /\ pc = "revalidating" /\ stage = "rechecking" /\ Ops \subseteq Done(chain)
        /\ \A o \in Recorded : IsDeepEnough(journal[o].height, Len(chain))
        /\ \A o \in Recorded : journal[o].state = "confirmed"
    BY <1>1, <2>1 DEF Pass, FinalInv, Waits, SecondReconciliation, Unchecked, Settling
  <2>3. ASSUME NEW o \in Ops PROVE o \in Recorded
    <3>1. PICK h \in Mined(chain) : chain[h].tx.op = o
      BY <2>2 DEF Done
    <3> QED
      BY <1>1, <3>1 DEF JournalInv, RecordedBeforeBroadcast, Recorded
  <2>4. ASSUME NEW o \in Ops PROVE IsBuried(o)
    <3>1. IsConfirmed(o) /\ IsDeepEnough(journal[o].height, Len(chain))
      BY <1>1, <2>2, <2>3 DEF FinalInv, Confirmations
    <3>2. journal[o].height <= stable
      <4>1. /\ journal[o].height \in Nat /\ Len(chain) \in Nat /\ stable \in Nat
            /\ Len(chain) <= stable + FinalityDepth
        BY <1>1, <2>3, LenProperties
        DEF JournalInv, JournalTypeOK, Recorded, Entries, FinalInv, Stabilises
      <4> QED
        BY <3>1, <4>1, BoundsAssumption DEF IsDeepEnough
    <3> QED
      BY <3>1, <3>2 DEF IsBuried, IsConfirmed
  <2> QED
    BY <2>3, <2>4
<1>2. JournalInv /\ FinalInv /\ [JournalNext]_journalVars => [Final]_journalVars
  <2>1. ASSUME UNCHANGED journalVars PROVE Final
    BY <2>1 DEF journalVars
  <2> QED
    BY <1>1, <2>1
<1> QED
  BY <1>2, FinalInvHolds, PTL DEF JournalSpec, PassedIsFinal

-----------------------------------------------------------------------------
(* The registry *)

LEMMA MapSetIsMap ==
    ASSUME NEW m, NEW K, NEW V, IsMap(m, K, V), NEW k \in K, NEW v \in V
    PROVE  /\ IsMap(MapSet(m, k, v), K, V)
           /\ DOMAIN MapSet(m, k, v) = DOMAIN m \cup {k}
           /\ MapSet(m, k, v)[k] = v
           /\ \A x \in DOMAIN m : x # k => MapSet(m, k, v)[x] = m[x]
BY DEF IsMap, MapSet

LEMMA InitTypeOK == RegistryInit => TypeOK
<1> SUFFICES ASSUME RegistryInit PROVE TypeOK
  OBVIOUS
<1>1. EmptyReputation \in Reputation
  BY DEF EmptyReputation, Reputation
<1> QED
  BY <1>1, RegistryDeployerAssumption DEF RegistryInit, TypeOK, IsMap, EmptyMap

\* The owner's calls touch the owner, the proposal and the list of callers.
LEMMA AdministrationType ==
    ASSUME TypeOK, NEW sender \in Principals, Administration(sender)
    PROVE  TypeOK'
<1> USE DEF TypeOK, aggregateVars, registryOwnerVars
<1>1. ASSUME NEW p \in Principals, ProposeOwner(sender, p) PROVE TypeOK'
  BY <1>1 DEF ProposeOwner
<1>2. CASE AcceptOwner(sender)
  BY <1>2 DEF AcceptOwner
<1>3. CASE CancelOwnerProposal(sender)
  BY <1>3 DEF CancelOwnerProposal
<1>4. ASSUME NEW p \in Principals, AddProtocolCaller(sender, p) PROVE TypeOK'
  BY <1>4 DEF AddProtocolCaller
<1>5. ASSUME NEW p \in Principals, RemoveProtocolCaller(sender, p) PROVE TypeOK'
  BY <1>5 DEF RemoveProtocolCaller
<1> QED
  BY <1>1, <1>2, <1>3, <1>4, <1>5 DEF Administration

LEMMA RatingType ==
    ASSUME TypeOK, NEW source \in Principals, NEW agent \in Principals,
           NEW rater \in Principals, NEW score \in Nat, NEW jobId \in SourceJobs,
           SubmitRating(source, agent, rater, score, jobId)
    PROVE  TypeOK'
<1> DEFINE key == KeyOfRating(source, agent, rater, jobId)
           total == agentReputation[agent].totalScore + score
           count == agentReputation[agent].ratingCount + 1
<1>1. key \in RatingKey /\ score \in 1..5
  BY DEF SubmitRating, KeyOfRating, RatingKey, IsValidScore
<1>2. IsMap(ratings', RatingKey, 1..5)
  BY <1>1, MapSetIsMap DEF SubmitRating, TypeOK
<1>3. agentReputation[agent] \in Reputation
  BY DEF TypeOK
<1>4. total \in Nat /\ count \in Nat /\ count > 0
  BY <1>3 DEF Reputation
<1>5. (total * 100) \div count \in Nat
  BY <1>4
<1>6. [agentReputation[agent] EXCEPT !.totalScore = total, !.ratingCount = count,
          !.averageX100 = (total * 100) \div count] \in Reputation
  BY <1>3, <1>4, <1>5 DEF Reputation
<1>7. agentReputation' \in [Principals -> Reputation]
  BY <1>6 DEF SubmitRating, TypeOK
<1> QED
  BY <1>2, <1>7 DEF SubmitRating, TypeOK, registryOwnerVars

LEMMA OutcomeType ==
    ASSUME TypeOK, NEW source \in Principals, NEW agent \in Principals,
           NEW jobId \in SourceJobs, NEW completed \in BOOLEAN, NEW disputed \in BOOLEAN,
           RecordJobOutcome(source, agent, jobId, completed, disputed)
    PROVE  TypeOK'
<1>1. [source |-> source, jobId |-> jobId] \in OutcomeKey
  BY DEF OutcomeKey
<1>2. [agent |-> agent, completed |-> completed, disputed |-> disputed] \in Outcome
  BY DEF Outcome
<1>3. IsMap(jobOutcomes', OutcomeKey, Outcome)
  BY <1>1, <1>2, MapSetIsMap DEF RecordJobOutcome, TypeOK
<1>4. agentReputation[agent] \in Reputation
  BY DEF TypeOK
<1> DEFINE c == IF completed THEN 1 ELSE 0
           d == IF disputed THEN 1 ELSE 0
           rep == [agentReputation[agent] EXCEPT !.completedJobs = @ + c,
                                                 !.disputedJobs = @ + d]
<1>5. c \in Nat /\ d \in Nat
  OBVIOUS
<1>6. rep \in Reputation
  <2> HIDE DEF c, d
  <2>1. /\ agentReputation[agent].completedJobs + c \in Nat
        /\ agentReputation[agent].disputedJobs + d \in Nat
    BY <1>4, <1>5 DEF Reputation
  <2> QED
    BY <1>4, <2>1, Zenon DEF Reputation
<1>7. agentReputation' = [agentReputation EXCEPT ![agent] = rep]
  BY <1>4 DEF RecordJobOutcome, TypeOK, Reputation
<1>8. agentReputation' \in [Principals -> Reputation]
  <2> HIDE DEF rep
  <2> QED BY <1>6, <1>7 DEF TypeOK
<1> QED
  BY <1>3, <1>8 DEF RecordJobOutcome, TypeOK, registryOwnerVars

LEMMA StepTypeOK == TypeOK /\ [RegistryNext]_registryVars => TypeOK'
<1> SUFFICES ASSUME TypeOK, [RegistryNext]_registryVars PROVE TypeOK'
  OBVIOUS
<1>1. CASE UNCHANGED registryVars
  BY <1>1 DEF TypeOK, registryVars
<1>2. ASSUME NEW sender \in Principals, Administration(sender) PROVE TypeOK'
  BY <1>2, AdministrationType
<1>3. ASSUME NEW source \in Principals, Report(source) PROVE TypeOK'
  BY <1>3, RatingType, OutcomeType, ScoresAssumption DEF Report
<1> QED
  BY <1>1, <1>2, <1>3 DEF RegistryNext

\* Every value the registry stores is of the type its maps declare, whatever
\* the sources report and the owner administers.
THEOREM TypeCorrect == RegistrySpec => []TypeOK
BY InitTypeOK, StepTypeOK, PTL DEF RegistrySpec

\* No call replaces or withdraws a rating or an outcome (submit-rating and
\* record-job-outcome assert that the key is new), and a new one always comes
\* from a source that is authorised at that moment.
THEOREM ReportsStayFinal == RegistrySpec => ReportsAreFinal
<1> DEFINE Final ==
        /\ \A key \in DOMAIN ratings :
             key \in DOMAIN ratings' /\ ratings'[key] = ratings[key]
        /\ \A key \in DOMAIN jobOutcomes :
             key \in DOMAIN jobOutcomes' /\ jobOutcomes'[key] = jobOutcomes[key]
        /\ \A key \in DOMAIN jobOutcomes' \ DOMAIN jobOutcomes :
             protocolCallers[key.source]
        /\ \A key \in DOMAIN ratings' \ DOMAIN ratings :
             protocolCallers[key.source]
<1>1. ASSUME RegistryNext PROVE Final
  <2>1. ASSUME NEW sender \in Principals, Administration(sender) PROVE Final
    BY <2>1 DEF Administration, ProposeOwner, AcceptOwner, CancelOwnerProposal,
                AddProtocolCaller, RemoveProtocolCaller, aggregateVars
  <2>2. ASSUME NEW source \in Principals, NEW agent \in Principals,
               NEW rater \in Principals, NEW score \in Scores, NEW jobId \in SourceJobs,
               SubmitRating(source, agent, rater, score, jobId)
        PROVE  Final
    BY <2>2 DEF SubmitRating, KeyOfRating, IsNewRating, MapSet
  <2>3. ASSUME NEW source \in Principals, NEW agent \in Principals,
               NEW jobId \in SourceJobs, NEW completed \in BOOLEAN, NEW disputed \in BOOLEAN,
               RecordJobOutcome(source, agent, jobId, completed, disputed)
        PROVE  Final
    BY <2>3 DEF RecordJobOutcome, RecordOutcomeResult, MapSet, OK,
                ErrNotAuthorized, ErrInvalidOutcome, ErrOutcomeAlreadyRecorded
  <2> QED
    BY <1>1, <2>1, <2>2, <2>3 DEF RegistryNext, Report
<1> QED
  BY <1>1, PTL DEF RegistrySpec, ReportsAreFinal

-----------------------------------------------------------------------------
(* The aggregates *)

\* What get-reputation serves of one agent, part by part.
CompletedOf(agent) == {key \in OutcomesOf(agent) : jobOutcomes[key].completed}
RatingsAddUp(agent) ==
    LET rep == agentReputation[agent]
        total == Total(ratings, RatingsOf(agent))
        count == Cardinality(RatingsOf(agent))
    IN  /\ rep.totalScore = total
        /\ rep.ratingCount = count
        /\ rep.averageX100 = IF count = 0 THEN 0 ELSE (100 * total) \div count
OutcomesAddUp(agent) ==
    /\ agentReputation[agent].completedJobs = Cardinality(CompletedOf(agent))
    /\ agentReputation[agent].completedJobs + agentReputation[agent].disputedJobs
           = Cardinality(OutcomesOf(agent))

\* A sum and a cardinality grow by one report only where what is summed is finite.
RegistryInv ==
    /\ TypeOK
    /\ IsFiniteSet(DOMAIN ratings) /\ IsFiniteSet(DOMAIN jobOutcomes)
    /\ \A agent \in Principals : RatingsAddUp(agent) /\ OutcomesAddUp(agent)

LEMMA InvIsAggregates == RegistryInv => AggregatesMatchReports
BY DEF RegistryInv, AggregatesMatchReports, RatingsAddUp, OutcomesAddUp, CompletedOf

LEMMA InitInv == RegistryInit => RegistryInv
<1> SUFFICES ASSUME RegistryInit PROVE RegistryInv
  OBVIOUS
<1>1. TypeOK
  BY InitTypeOK
<1>2. DOMAIN ratings = {} /\ DOMAIN jobOutcomes = {}
  BY DEF RegistryInit, EmptyMap
<1>3. IsFiniteSet({}) /\ Cardinality({}) = 0
  BY FS_EmptySet
<1>4. ASSUME NEW agent \in Principals
      PROVE  RatingsAddUp(agent) /\ OutcomesAddUp(agent)
  <2>1. RatingsOf(agent) = {} /\ OutcomesOf(agent) = {} /\ CompletedOf(agent) = {}
    BY <1>2 DEF RatingsOf, OutcomesOf, CompletedOf
  <2>2. agentReputation[agent] = EmptyReputation
    BY DEF RegistryInit
  <2>3. Total(ratings, {}) = 0
    BY TotalOfNone
  <2> QED
    BY <1>3, <2>1, <2>2, <2>3 DEF RatingsAddUp, OutcomesAddUp, EmptyReputation
<1> QED
  BY <1>1, <1>2, <1>3, <1>4 DEF RegistryInv

LEMMA RatingKeepsSums ==
    ASSUME RegistryInv, NEW source \in Principals, NEW agent \in Principals,
           NEW rater \in Principals, NEW score \in Nat, NEW jobId \in SourceJobs,
           SubmitRating(source, agent, rater, score, jobId)
    PROVE  RegistryInv'
<1> DEFINE key == KeyOfRating(source, agent, rater, jobId)
<1>0. TypeOK'
  BY RatingType DEF RegistryInv
<1>1. /\ key \in RatingKey /\ key.agent = agent /\ key \notin DOMAIN ratings
      /\ score \in 1..5
  BY DEF SubmitRating, KeyOfRating, RatingKey, IsValidScore, IsNewRating
<1> HIDE DEF key
<1>2. /\ DOMAIN ratings' = DOMAIN ratings \cup {key} /\ ratings'[key] = score
      /\ \A x \in DOMAIN ratings : ratings'[x] = ratings[x]
  <2>1. ratings' = MapSet(ratings, key, score)
    BY DEF SubmitRating, key
  <2> QED
    BY <1>1, <2>1 DEF MapSet
<1>3. IsFiniteSet(DOMAIN ratings') /\ IsFiniteSet(DOMAIN jobOutcomes')
  BY <1>2, FS_AddElement DEF RegistryInv, SubmitRating
<1>4. \A x \in DOMAIN ratings : ratings[x] \in Int /\ x \in RatingKey
  BY DEF RegistryInv, TypeOK, IsMap
<1>5. ASSUME NEW a \in Principals PROVE OutcomesAddUp(a)'
  <2>1. /\ agentReputation'[a].completedJobs = agentReputation[a].completedJobs
        /\ agentReputation'[a].disputedJobs = agentReputation[a].disputedJobs
        /\ jobOutcomes' = jobOutcomes
    BY DEF SubmitRating, RegistryInv, TypeOK, Reputation
  <2>2. OutcomesOf(a)' = OutcomesOf(a) /\ CompletedOf(a)' = CompletedOf(a)
    BY <2>1 DEF OutcomesOf, CompletedOf
  <2> QED
    BY <2>1, <2>2 DEF OutcomesAddUp, RegistryInv
<1>6. ASSUME NEW a \in Principals, a # agent PROVE RatingsAddUp(a)'
  <2>1. RatingsOf(a)' = RatingsOf(a)
    BY <1>1, <1>2, <1>6 DEF RatingsOf
  <2>2. IsFiniteSet(RatingsOf(a)) /\ \A x \in RatingsOf(a) : ratings[x] \in Int /\ ratings'[x] = ratings[x]
    BY <1>2, <1>4, FS_Subset DEF RatingsOf, RegistryInv
  <2>3. Total(ratings', RatingsOf(a)) = Total(ratings, RatingsOf(a))
    BY <2>2, TotalAgrees
  <2>4. agentReputation'[a] = agentReputation[a]
    BY <1>6 DEF SubmitRating, RegistryInv, TypeOK
  <2> QED
    BY <2>1, <2>3, <2>4 DEF RatingsAddUp, RegistryInv
<1>7. RatingsAddUp(agent)'
  <2> DEFINE S == RatingsOf(agent)
  <2>1. RatingsOf(agent)' = S \cup {key} /\ key \notin S /\ S \subseteq DOMAIN ratings
    BY <1>1, <1>2 DEF RatingsOf
  <2>2. IsFiniteSet(S)
    BY <2>1, FS_Subset DEF RegistryInv
  <2> HIDE DEF S
  <2>3. /\ \A x \in S \cup {key} : ratings'[x] \in Int
        /\ \A x \in S : ratings[x] = ratings'[x]
    BY <1>1, <1>2, <1>4, <2>1
  <2>4. /\ Total(ratings, S) \in Int
        /\ Total(ratings', S \cup {key}) = Total(ratings, S) + score
    BY <1>2, <2>1, <2>2, <2>3, TotalAdds
  <2>5. Cardinality(S \cup {key}) = Cardinality(S) + 1 /\ Cardinality(S) \in Nat
    BY <2>1, <2>2, FS_AddElement, FS_CardinalityType
  <2>6. /\ agentReputation[agent].totalScore = Total(ratings, S)
        /\ agentReputation[agent].ratingCount = Cardinality(S)
    BY DEF RegistryInv, RatingsAddUp, S
  <2> DEFINE total == Total(ratings, S) + score
             count == Cardinality(S) + 1
  <2>7. /\ agentReputation'[agent].totalScore = total
        /\ agentReputation'[agent].ratingCount = count
        /\ agentReputation'[agent].averageX100 = (total * 100) \div count
    BY <2>6 DEF SubmitRating, RegistryInv, TypeOK, Reputation
  <2>8. total * 100 = 100 * total /\ count # 0
    BY <2>4, <2>5, <1>1
  <2>9. Total(ratings', RatingsOf(agent)') = total /\ Cardinality(RatingsOf(agent)') = count
    BY <2>1, <2>4, <2>5
  <2> HIDE DEF total, count
  <2> QED
    BY <2>7, <2>8, <2>9 DEF RatingsAddUp
<1> QED
  BY <1>0, <1>3, <1>5, <1>6, <1>7 DEF RegistryInv

LEMMA OutcomeKeepsSums ==
    ASSUME RegistryInv, NEW source \in Principals, NEW agent \in Principals,
           NEW jobId \in SourceJobs, NEW completed \in BOOLEAN, NEW disputed \in BOOLEAN,
           RecordJobOutcome(source, agent, jobId, completed, disputed)
    PROVE  RegistryInv'
<1> DEFINE key == [source |-> source, jobId |-> jobId]
           outcome == [agent |-> agent, completed |-> completed, disputed |-> disputed]
<1>0. TypeOK'
  BY OutcomeType DEF RegistryInv
<1>1. /\ key \in OutcomeKey /\ outcome \in Outcome
      /\ key \notin DOMAIN jobOutcomes /\ completed # disputed
  BY DEF RecordJobOutcome, RecordOutcomeResult, OK, ErrNotAuthorized,
         ErrInvalidOutcome, ErrOutcomeAlreadyRecorded, OutcomeKey, Outcome
<1>2. /\ DOMAIN jobOutcomes' = DOMAIN jobOutcomes \cup {key}
      /\ jobOutcomes'[key] = outcome
      /\ \A x \in DOMAIN jobOutcomes : jobOutcomes'[x] = jobOutcomes[x]
  <2> HIDE DEF key, outcome
  <2>1. jobOutcomes' = MapSet(jobOutcomes, key, outcome)
    BY DEF RecordJobOutcome, key, outcome
  <2> QED
    BY <1>1, <2>1, MapSetIsMap DEF RegistryInv, TypeOK
<1>3. outcome.agent = agent /\ outcome.completed = completed
  OBVIOUS
<1> HIDE DEF key, outcome
<1>4. IsFiniteSet(DOMAIN ratings') /\ IsFiniteSet(DOMAIN jobOutcomes')
  BY <1>2, FS_AddElement DEF RegistryInv, RecordJobOutcome
<1>5. ASSUME NEW a \in Principals PROVE RatingsAddUp(a)'
  <2>1. /\ agentReputation'[a].totalScore = agentReputation[a].totalScore
        /\ agentReputation'[a].ratingCount = agentReputation[a].ratingCount
        /\ agentReputation'[a].averageX100 = agentReputation[a].averageX100
        /\ ratings' = ratings
    BY DEF RecordJobOutcome, RegistryInv, TypeOK, Reputation
  <2>2. RatingsOf(a)' = RatingsOf(a)
    BY <2>1 DEF RatingsOf
  <2> QED
    BY <2>1, <2>2 DEF RatingsAddUp, RegistryInv
<1>6. ASSUME NEW a \in Principals, a # agent PROVE OutcomesAddUp(a)'
  <2>1. OutcomesOf(a)' = OutcomesOf(a) /\ CompletedOf(a)' = CompletedOf(a)
    BY <1>2, <1>3, <1>6 DEF OutcomesOf, CompletedOf
  <2>2. agentReputation'[a] = agentReputation[a]
    BY <1>6 DEF RecordJobOutcome, RegistryInv, TypeOK
  <2> QED
    BY <2>1, <2>2 DEF OutcomesAddUp, RegistryInv
<1>7. OutcomesAddUp(agent)'
  <2>1. /\ OutcomesOf(agent)' = OutcomesOf(agent) \cup {key}
        /\ key \notin OutcomesOf(agent)
        /\ CompletedOf(agent)' =
               IF completed THEN CompletedOf(agent) \cup {key} ELSE CompletedOf(agent)
        /\ key \notin CompletedOf(agent)
    BY <1>1, <1>2, <1>3 DEF OutcomesOf, CompletedOf
  <2>2. IsFiniteSet(OutcomesOf(agent)) /\ IsFiniteSet(CompletedOf(agent))
    BY FS_Subset DEF RegistryInv, OutcomesOf, CompletedOf
  <2>3. /\ Cardinality(OutcomesOf(agent)') = Cardinality(OutcomesOf(agent)) + 1
        /\ Cardinality(CompletedOf(agent)') =
               Cardinality(CompletedOf(agent)) + (IF completed THEN 1 ELSE 0)
        /\ Cardinality(OutcomesOf(agent)) \in Nat /\ Cardinality(CompletedOf(agent)) \in Nat
    BY <2>1, <2>2, FS_AddElement, FS_CardinalityType
  <2>4. /\ agentReputation'[agent].completedJobs =
               agentReputation[agent].completedJobs + (IF completed THEN 1 ELSE 0)
        /\ agentReputation'[agent].disputedJobs =
               agentReputation[agent].disputedJobs + (IF disputed THEN 1 ELSE 0)
        /\ agentReputation[agent].completedJobs \in Nat
        /\ agentReputation[agent].disputedJobs \in Nat
    BY DEF RecordJobOutcome, RegistryInv, TypeOK, Reputation
  <2>5. OutcomesAddUp(agent)
    BY DEF RegistryInv
  <2> QED
    BY <1>1, <2>3, <2>4, <2>5 DEF OutcomesAddUp
<1> QED
  BY <1>0, <1>4, <1>5, <1>6, <1>7 DEF RegistryInv

LEMMA StepInv == RegistryInv /\ [RegistryNext]_registryVars => RegistryInv'
<1> SUFFICES ASSUME RegistryInv, [RegistryNext]_registryVars PROVE RegistryInv'
  OBVIOUS
<1>1. ASSUME UNCHANGED aggregateVars PROVE RegistryInv'
  <2>1. TypeOK'
    BY StepTypeOK DEF RegistryInv
  <2>2. \A a \in Principals : RatingsOf(a)' = RatingsOf(a) /\ OutcomesOf(a)' = OutcomesOf(a)
                              /\ CompletedOf(a)' = CompletedOf(a)
    BY <1>1 DEF RatingsOf, OutcomesOf, CompletedOf, aggregateVars
  <2> QED
    BY <1>1, <2>1, <2>2 DEF RegistryInv, RatingsAddUp, OutcomesAddUp, aggregateVars
<1>2. CASE UNCHANGED registryVars
  BY <1>1, <1>2 DEF registryVars, aggregateVars
<1>3. ASSUME NEW sender \in Principals, Administration(sender) PROVE RegistryInv'
  BY <1>1, <1>3 DEF Administration, ProposeOwner, AcceptOwner, CancelOwnerProposal,
                    AddProtocolCaller, RemoveProtocolCaller
<1>4. ASSUME NEW source \in Principals, Report(source) PROVE RegistryInv'
  BY <1>4, RatingKeepsSums, OutcomeKeepsSums, ScoresAssumption DEF Report
<1> QED
  BY <1>2, <1>3, <1>4 DEF RegistryNext

\* What get-reputation serves is what was reported: totals, counts and the floored
\* average are those of the ratings (submit-rating), completed and disputed jobs those
\* of the outcomes (record-job-outcome), over any number of sources and reports.
THEOREM AggregatesStayTrue == RegistrySpec => []AggregatesMatchReports
BY InitInv, StepInv, InvIsAggregates, PTL DEF RegistrySpec

-----------------------------------------------------------------------------
(* Evaluable jobs *)

Forms == [uri : OrNothing(Typed), inspected : OrNothing(Evidences),
          at : {"idle", "asked", "read", "submitting"}, asked : OrNothing(Uris),
          read : OrNothing(Evidences), overtaken : BOOLEAN]
Panels == [uri : OrNothing(Typed), at : {"idle", "asked", "read", "posted"},
           asked : OrNothing(Uris), read : OrNothing(Evidences),
           of : OrNothing(JobRecords),
           outcome : {"none", "mismatch", "manual", "queued", "error"}]
Popups == [call : {"create-job"}, value : AllCriteria, shown : {NOTHING}]
          \cup [call : {"submit-work"}, value : Commitments, shown : OrNothing(Typed)]

EvaluationTypeOK ==
    /\ job \in JobRecords /\ files \in [Uris -> OrNothing(Contents)]
    /\ received \subseteq Commitments
    /\ address \in Accounts /\ card \in OrNothing(JobRecords)
    /\ form \in OrNothing(Forms) /\ panel \in Panels
    /\ popup \in OrNothing(Popups) /\ remembered \in OrNothing(Uris)

\* From its submission on a job keeps its parties, its criteria and its deliverable.
IsSettled(j) == j.status \in {"submitted", "decided"}
SameTerms(j, k) ==
    /\ j.client = k.client /\ j.provider = k.provider
    /\ j.criteria = k.criteria /\ j.deliverable = k.deliverable

ClientIsNamed == job.deliverable # NOTHING => job.deliverable.client = job.client

CardIsOfJob ==
    card # NOTHING \/ form # NOTHING =>
        /\ card \in JobRecords
        /\ job.status # "none" /\ card.client = job.client
        /\ IsSettled(card) => IsSettled(job) /\ SameTerms(card, job)

\* The request under way, and the one an operator or a refusal is about.
IsRequest == panel.at \in {"asked", "read", "posted"} \/ panel.outcome \in {"mismatch", "manual"}
RequestIsOfJob ==
    /\ panel.at = "asked" => panel.asked \in Uris
    /\ panel.at # "idle" => panel.outcome = "none"
    /\ IsRequest =>
          /\ panel.of \in JobRecords /\ panel.of.deliverable # NOTHING
          /\ IsSettled(job) /\ SameTerms(panel.of, job)
    /\ panel.at = "posted" \/ panel.outcome = "manual" => Rebuilt = panel.of.deliverable
    /\ panel.outcome = "mismatch" => Rebuilt # panel.of.deliverable

ReceivedIsOfJob ==
    /\ received # {} => IsSettled(job)
    /\ \A request \in received : request = job.deliverable

PopupIsOfJob ==
    popup # NOTHING /\ popup.call = "submit-work" =>
        job.status # "none" /\ popup.value.client = job.client

\* An inspection under way is of the address in the field, and so is its answer, as long
\* as the field is left alone.
FormIsInspected ==
    form # NOTHING =>
        /\ form.at = "asked" => form.asked \in Uris
        /\ form.at \in {"asked", "read"} /\ ~form.overtaken => form.asked = Normal[form.uri]
        /\ form.at = "read" /\ form.read # NOTHING => form.read.uri = form.asked
        /\ form.at \in {"idle", "submitting"} /\ form.inspected # NOTHING /\ ~form.overtaken =>
               form.inspected.uri = Normal[form.uri]

EvaluationInv ==
    /\ EvaluationTypeOK
    /\ ClientIsNamed /\ CardIsOfJob /\ RequestIsOfJob /\ ReceivedIsOfJob
    /\ PopupIsOfJob /\ FormIsInspected /\ SubmittedAsShown

-----------------------------------------------------------------------------
LEMMA InNothing ==
    ASSUME NEW S
    PROVE  /\ NOTHING \in OrNothing(S) /\ \A x \in S : x \in OrNothing(S)
           /\ \A x \in OrNothing(S) : x # NOTHING => x \in S
BY DEF OrNothing

LEMMA Normalised ==
    ASSUME NEW text \in OrNothing(Typed), text # NOTHING
    PROVE  Normal[text] \in Uris /\ Normal[text] \in Typed
BY NormalAssumption DEF Uris, OrNothing

\* What inspectEvidence answers is a reading of the address it was asked for.
LEMMA Reading ==
    ASSUME EvaluationTypeOK, NEW uri \in Uris,
           NEW reply \in inspectEvidence(uri)
    PROVE  /\ reply \in OrNothing(Evidences)
           /\ reply # NOTHING => reply.uri = uri
<1>1. uri \in Uris /\ files[uri] \in OrNothing(Contents)
  BY DEF EvaluationTypeOK, OrNothing
<1>2. Published(uri) \in Evidences /\ Published(uri).uri = uri
  BY <1>1 DEF Published, Evidences
<1> QED
  BY <1>2 DEF inspectEvidence, OrNothing

-----------------------------------------------------------------------------
(* One lemma per step: what it disturbs of the invariant *)

LEMMA CreateElsewhereInv ==
    ASSUME EvaluationInv, NEW a \in Accounts, CreateElsewhere(a), UNCHANGED <<files,
           received, address, card, form, panel, popup, remembered>>
    PROVE  EvaluationInv'
<1> USE DEF EvaluationInv, CreateElsewhere, NoJob, Criteria, world
<1>1. EvaluationTypeOK'
  <2>2. job' \in JobRecords
    BY InNothing DEF JobRecords, EvaluationTypeOK, AllCriteria
  <2> QED
    BY <2>2 DEF EvaluationTypeOK
<1>2. ClientIsNamed'
  BY DEF ClientIsNamed
<1>3. CardIsOfJob'
  BY DEF CardIsOfJob, IsSettled, SameTerms
<1>4. RequestIsOfJob'
  BY DEF RequestIsOfJob, IsRequest, IsSettled, SameTerms, Rebuilt, Commitment
<1>5. ReceivedIsOfJob'
  BY DEF ReceivedIsOfJob, IsSettled
<1>6. PopupIsOfJob'
  BY DEF PopupIsOfJob
<1>7. FormIsInspected'
  BY DEF FormIsInspected
<1>8. SubmittedAsShown'
  BY DEF SubmittedAsShown
<1> QED
  BY <1>1, <1>2, <1>3, <1>4, <1>5, <1>6, <1>7, <1>8

LEMMA AssignInv ==
    ASSUME EvaluationInv, NEW a \in Accounts, Assign(a), UNCHANGED <<files, received,
           address, card, form, panel, popup, remembered>>
    PROVE  EvaluationInv'
<1> USE DEF EvaluationInv, Assign, world
<1>1. EvaluationTypeOK'
  BY NormalAssumption DEF EvaluationTypeOK, OrNothing, Evidences, Commitments,
         AllCriteria, JobRecords, Forms, Panels, Popups, Uris
<1>2. ClientIsNamed'
  BY DEF ClientIsNamed
<1>3. CardIsOfJob'
  BY DEF CardIsOfJob, IsSettled, SameTerms
<1>4. RequestIsOfJob'
  BY DEF RequestIsOfJob, IsRequest, IsSettled, SameTerms, Rebuilt, Commitment
<1>5. ReceivedIsOfJob'
  BY DEF ReceivedIsOfJob, IsSettled
<1>6. PopupIsOfJob'
  BY DEF PopupIsOfJob
<1>7. FormIsInspected'
  BY DEF FormIsInspected
<1>8. SubmittedAsShown'
  BY DEF SubmittedAsShown
<1> QED
  BY <1>1, <1>2, <1>3, <1>4, <1>5, <1>6, <1>7, <1>8

LEMMA SubmitElsewhereInv ==
    ASSUME EvaluationInv, NEW d, d = NOTHING \/ (\E uri \in Uris : d = Commitment(job,
           job.provider, Published(uri))), SubmitElsewhere(d), UNCHANGED <<files,
           received, address, card, form, panel, popup, remembered>>
    PROVE  EvaluationInv'
<1> USE DEF EvaluationInv, SubmitElsewhere, Commitment, Published, world
<1>1. EvaluationTypeOK'
  <2>3. d \in OrNothing(Commitments)
    <3>1. ASSUME NEW uri \in Uris PROVE Commitment(job, job.provider, Published(uri)) \in Commitments
      <4>1. Published(uri) \in Evidences
        BY DEF Published, Evidences, EvaluationTypeOK
      <4> QED
        BY <4>1 DEF EvaluationTypeOK, JobRecords, Commitments
    <3> QED
      BY <3>1, InNothing
  <2>2. job' \in JobRecords
    BY <2>3, InNothing DEF JobRecords, EvaluationTypeOK
  <2> QED
    BY <2>2 DEF EvaluationTypeOK
<1>2. ClientIsNamed'
  BY DEF ClientIsNamed
<1>3. CardIsOfJob'
  BY DEF CardIsOfJob, IsSettled, SameTerms
<1>4. RequestIsOfJob'
  BY DEF RequestIsOfJob, IsRequest, IsSettled, SameTerms, Rebuilt, Commitment
<1>5. ReceivedIsOfJob'
  BY DEF ReceivedIsOfJob, IsSettled
<1>6. PopupIsOfJob'
  BY DEF PopupIsOfJob
<1>7. FormIsInspected'
  BY DEF FormIsInspected
<1>8. SubmittedAsShown'
  BY DEF SubmittedAsShown
<1> QED
  BY <1>1, <1>2, <1>3, <1>4, <1>5, <1>6, <1>7, <1>8

LEMMA DecideInv ==
    ASSUME EvaluationInv, Decide
    PROVE  EvaluationInv'
<1> USE DEF EvaluationInv, Decide, world
<1>1. EvaluationTypeOK'
  BY NormalAssumption DEF EvaluationTypeOK, OrNothing, Evidences, Commitments,
         AllCriteria, JobRecords, Forms, Panels, Popups, Uris
<1>2. ClientIsNamed'
  BY DEF ClientIsNamed
<1>3. CardIsOfJob'
  BY DEF CardIsOfJob, IsSettled, SameTerms
<1>4. RequestIsOfJob'
  BY DEF RequestIsOfJob, IsRequest, IsSettled, SameTerms, Rebuilt, Commitment
<1>5. ReceivedIsOfJob'
  BY DEF ReceivedIsOfJob, IsSettled
<1>6. PopupIsOfJob'
  BY DEF PopupIsOfJob
<1>7. FormIsInspected'
  BY DEF FormIsInspected
<1>8. SubmittedAsShown'
  BY DEF SubmittedAsShown
<1> QED
  BY <1>1, <1>2, <1>3, <1>4, <1>5, <1>6, <1>7, <1>8

LEMMA PublishInv ==
    ASSUME EvaluationInv, NEW uri \in Uris, NEW content \in OrNothing(Contents),
           Publish(uri, content)
    PROVE  EvaluationInv'
<1> USE DEF EvaluationInv, Publish, world
<1>1. EvaluationTypeOK'
  BY DEF EvaluationTypeOK, OrNothing
<1>2. ClientIsNamed'
  BY DEF ClientIsNamed
<1>3. CardIsOfJob'
  BY DEF CardIsOfJob, IsSettled, SameTerms
<1>4. RequestIsOfJob'
  BY DEF RequestIsOfJob, IsRequest, IsSettled, SameTerms, Rebuilt, Commitment
<1>5. ReceivedIsOfJob'
  BY DEF ReceivedIsOfJob, IsSettled
<1>6. PopupIsOfJob'
  BY DEF PopupIsOfJob
<1>7. FormIsInspected'
  BY DEF FormIsInspected
<1>8. SubmittedAsShown'
  BY DEF SubmittedAsShown
<1> QED
  BY <1>1, <1>2, <1>3, <1>4, <1>5, <1>6, <1>7, <1>8

LEMMA ConnectInv ==
    ASSUME EvaluationInv, NEW account \in Accounts, Connect(account)
    PROVE  EvaluationInv'
<1> USE DEF EvaluationInv, Connect, world
<1>1. EvaluationTypeOK'
  BY DEF EvaluationTypeOK, OrNothing
<1>2. ClientIsNamed'
  BY DEF ClientIsNamed
<1>3. CardIsOfJob'
  BY DEF CardIsOfJob, IsSettled, SameTerms
<1>4. RequestIsOfJob'
  BY DEF RequestIsOfJob, IsRequest, IsSettled, SameTerms, Rebuilt, Commitment
<1>5. ReceivedIsOfJob'
  BY DEF ReceivedIsOfJob, IsSettled
<1>6. PopupIsOfJob'
  BY DEF PopupIsOfJob
<1>7. FormIsInspected'
  BY DEF FormIsInspected
<1>8. SubmittedAsShown'
  BY DEF SubmittedAsShown
<1> QED
  BY <1>1, <1>2, <1>3, <1>4, <1>5, <1>6, <1>7, <1>8

LEMMA SignedInv ==
    ASSUME EvaluationInv, NEW account \in Accounts, Signed(account)
    PROVE  EvaluationInv'
<1> USE DEF EvaluationInv, Signed, create_job, submit_work, NoJob, world
<1>1. EvaluationTypeOK'
  <2>1. job' \in JobRecords
    <3>0. job \in JobRecords
      BY DEF EvaluationTypeOK
    <3>1. CASE popup.call = "create-job"
      <4>1. popup.value \in AllCriteria
        BY <3>1, InNothing DEF EvaluationTypeOK, Popups
      <4>2. [status |-> "open", client |-> account, provider |-> NOTHING,
             criteria |-> popup.value, deliverable |-> NOTHING] \in JobRecords
        BY <4>1, InNothing DEF JobRecords
      <4> QED
        BY <3>0, <3>1, <4>2
    <3>2. CASE popup.call # "create-job"
      <4>1. popup.value \in Commitments
        BY <3>2, InNothing DEF EvaluationTypeOK, Popups
      <4>2. [job EXCEPT !.status = "submitted", !.deliverable = popup.value] \in JobRecords
        BY <3>0, <4>1, InNothing DEF JobRecords
      <4> QED
        BY <3>0, <3>2, <4>2
    <3> QED
      BY <3>1, <3>2
  <2> QED
    BY <2>1, InNothing DEF EvaluationTypeOK
<1>2. ClientIsNamed'
  <2>1. CASE popup.call = "create-job"
    BY <2>1 DEF ClientIsNamed, EvaluationTypeOK, JobRecords
  <2>2. CASE popup.call # "create-job"
    <3>1. popup.call = "submit-work"
      BY <2>2, InNothing DEF EvaluationTypeOK, Popups
    <3> QED
      BY <2>2, <3>1 DEF ClientIsNamed, PopupIsOfJob, EvaluationTypeOK, JobRecords
  <2> QED
    BY <2>1, <2>2
<1>3. CardIsOfJob'
  BY NormalAssumption DEF CardIsOfJob, IsSettled, SameTerms, EvaluationTypeOK, OrNothing,
         Evidences, Commitments, AllCriteria, JobRecords, Forms, Panels, Popups, Uris
<1>4. RequestIsOfJob'
  BY DEF RequestIsOfJob, IsRequest, IsSettled, SameTerms, Rebuilt, Commitment
<1>5. ReceivedIsOfJob'
  BY DEF ReceivedIsOfJob, IsSettled
<1>6. PopupIsOfJob'
  BY DEF PopupIsOfJob
<1>7. FormIsInspected'
  BY DEF FormIsInspected
<1>8. SubmittedAsShown'
  BY DEF SubmittedAsShown
<1> QED
  BY <1>1, <1>2, <1>3, <1>4, <1>5, <1>6, <1>7, <1>8

LEMMA RefusedInv ==
    ASSUME EvaluationInv, Refused
    PROVE  EvaluationInv'
<1> USE DEF EvaluationInv, Refused, world
<1>1. EvaluationTypeOK'
  BY NormalAssumption DEF EvaluationTypeOK, OrNothing, Evidences, Commitments,
         AllCriteria, JobRecords, Forms, Panels, Popups, Uris
<1>2. ClientIsNamed'
  BY DEF ClientIsNamed
<1>3. CardIsOfJob'
  BY DEF CardIsOfJob, IsSettled, SameTerms
<1>4. RequestIsOfJob'
  BY DEF RequestIsOfJob, IsRequest, IsSettled, SameTerms, Rebuilt, Commitment
<1>5. ReceivedIsOfJob'
  BY DEF ReceivedIsOfJob, IsSettled
<1>6. PopupIsOfJob'
  BY DEF PopupIsOfJob
<1>7. FormIsInspected'
  BY DEF FormIsInspected
<1>8. SubmittedAsShown'
  BY DEF SubmittedAsShown
<1> QED
  BY <1>1, <1>2, <1>3, <1>4, <1>5, <1>6, <1>7, <1>8

LEMMA LoadJobsInv ==
    ASSUME EvaluationInv, LoadJobs
    PROVE  EvaluationInv'
<1> USE DEF EvaluationInv, LoadJobs, Quiet, world
<1>1. EvaluationTypeOK'
  BY NormalAssumption DEF EvaluationTypeOK, OrNothing, Evidences, Commitments,
         AllCriteria, JobRecords, Forms, Panels, Popups, Uris
<1>2. ClientIsNamed'
  BY DEF ClientIsNamed
<1>3. CardIsOfJob'
  BY DEF CardIsOfJob, IsSettled, SameTerms, EvaluationTypeOK
<1>4. RequestIsOfJob'
  BY DEF RequestIsOfJob, IsRequest, IsSettled, SameTerms, Rebuilt, Commitment
<1>5. ReceivedIsOfJob'
  BY DEF ReceivedIsOfJob, IsSettled
<1>6. PopupIsOfJob'
  BY DEF PopupIsOfJob
<1>7. FormIsInspected'
  BY DEF FormIsInspected
<1>8. SubmittedAsShown'
  BY DEF SubmittedAsShown
<1> QED
  BY <1>1, <1>2, <1>3, <1>4, <1>5, <1>6, <1>7, <1>8

LEMMA LeaveInv ==
    ASSUME EvaluationInv, Leave
    PROVE  EvaluationInv'
<1> USE DEF EvaluationInv, Leave, Quiet, world
<1>1. EvaluationTypeOK'
  BY NormalAssumption DEF EvaluationTypeOK, OrNothing, Evidences, Commitments,
         AllCriteria, JobRecords, Forms, Panels, Popups, Uris
<1>2. ClientIsNamed'
  BY DEF ClientIsNamed
<1>3. CardIsOfJob'
  BY DEF CardIsOfJob, IsSettled, SameTerms
<1>4. RequestIsOfJob'
  BY DEF RequestIsOfJob, IsRequest, IsSettled, SameTerms, Rebuilt, Commitment
<1>5. ReceivedIsOfJob'
  BY DEF ReceivedIsOfJob, IsSettled
<1>6. PopupIsOfJob'
  BY DEF PopupIsOfJob
<1>7. FormIsInspected'
  BY DEF FormIsInspected
<1>8. SubmittedAsShown'
  BY DEF SubmittedAsShown
<1> QED
  BY <1>1, <1>2, <1>3, <1>4, <1>5, <1>6, <1>7, <1>8

LEMMA CreateInv ==
    ASSUME EvaluationInv, handleCreateJob
    PROVE  EvaluationInv'
<1> USE DEF EvaluationInv, handleCreateJob, Ask, Criteria, world
<1>1. EvaluationTypeOK'
  BY NormalAssumption DEF EvaluationTypeOK, OrNothing, Evidences, Commitments,
         AllCriteria, JobRecords, Forms, Panels, Popups, Uris
<1>2. ClientIsNamed'
  BY DEF ClientIsNamed
<1>3. CardIsOfJob'
  BY DEF CardIsOfJob, IsSettled, SameTerms
<1>4. RequestIsOfJob'
  BY DEF RequestIsOfJob, IsRequest, IsSettled, SameTerms, Rebuilt, Commitment
<1>5. ReceivedIsOfJob'
  BY DEF ReceivedIsOfJob, IsSettled
<1>6. PopupIsOfJob'
  BY DEF PopupIsOfJob
<1>7. FormIsInspected'
  BY DEF FormIsInspected
<1>8. SubmittedAsShown'
  BY DEF SubmittedAsShown
<1> QED
  BY <1>1, <1>2, <1>3, <1>4, <1>5, <1>6, <1>7, <1>8

LEMMA OpenFormInv ==
    ASSUME EvaluationInv, OpenForm
    PROVE  EvaluationInv'
<1> USE DEF EvaluationInv, OpenForm, world
<1>1. EvaluationTypeOK'
  BY NormalAssumption DEF EvaluationTypeOK, OrNothing, Evidences, Commitments,
         AllCriteria, JobRecords, Forms, Panels, Popups, Uris
<1>2. ClientIsNamed'
  BY DEF ClientIsNamed
<1>3. CardIsOfJob'
  BY DEF CardIsOfJob, IsSettled, SameTerms
<1>4. RequestIsOfJob'
  BY DEF RequestIsOfJob, IsRequest, IsSettled, SameTerms, Rebuilt, Commitment
<1>5. ReceivedIsOfJob'
  BY DEF ReceivedIsOfJob, IsSettled
<1>6. PopupIsOfJob'
  BY DEF PopupIsOfJob
<1>7. FormIsInspected'
  BY DEF FormIsInspected
<1>8. SubmittedAsShown'
  BY DEF SubmittedAsShown
<1> QED
  BY <1>1, <1>2, <1>3, <1>4, <1>5, <1>6, <1>7, <1>8

LEMMA CancelInv ==
    ASSUME EvaluationInv, Cancel
    PROVE  EvaluationInv'
<1> USE DEF EvaluationInv, Cancel, world
<1>1. EvaluationTypeOK'
  BY DEF EvaluationTypeOK, OrNothing
<1>2. ClientIsNamed'
  BY DEF ClientIsNamed
<1>3. CardIsOfJob'
  BY DEF CardIsOfJob, IsSettled, SameTerms
<1>4. RequestIsOfJob'
  BY DEF RequestIsOfJob, IsRequest, IsSettled, SameTerms, Rebuilt, Commitment
<1>5. ReceivedIsOfJob'
  BY DEF ReceivedIsOfJob, IsSettled
<1>6. PopupIsOfJob'
  BY DEF PopupIsOfJob
<1>7. FormIsInspected'
  BY DEF FormIsInspected
<1>8. SubmittedAsShown'
  BY DEF SubmittedAsShown
<1> QED
  BY <1>1, <1>2, <1>3, <1>4, <1>5, <1>6, <1>7, <1>8

LEMMA TypeInv ==
    ASSUME EvaluationInv, NEW text \in Typed, Type(text)
    PROVE  EvaluationInv'
<1> USE DEF EvaluationInv, Type, AfterTyping, world
<1>1. EvaluationTypeOK'
  <2>1. form \in Forms
    BY InNothing DEF EvaluationTypeOK
  <2>2. ASSUME form.at \in {"asked", "read"} PROVE form' \in Forms
    <3>1. form' = [form EXCEPT !.uri = text, !.inspected = NOTHING, !.overtaken = TRUE]
      BY <2>2
    <3> QED
      BY <2>1, <3>1, InNothing DEF Forms
  <2>3. ASSUME form.at \notin {"asked", "read"} PROVE form' \in Forms
    <3>0. (form.at \in {"asked", "read"}) = FALSE
      BY <2>3
    <3>1. form' = [form EXCEPT !.uri = text, !.inspected = NOTHING, !.overtaken = FALSE]
      BY <3>0, Zenon
    <3> QED
      BY <2>1, <3>1, InNothing DEF Forms
  <2>4. form' \in Forms
    BY <2>2, <2>3
  <2> QED
    BY <2>4, InNothing DEF EvaluationTypeOK
<1>2. ClientIsNamed'
  BY DEF ClientIsNamed
<1>3. CardIsOfJob'
  BY DEF CardIsOfJob, IsSettled, SameTerms
<1>4. RequestIsOfJob'
  BY DEF RequestIsOfJob, IsRequest, IsSettled, SameTerms, Rebuilt, Commitment
<1>5. ReceivedIsOfJob'
  BY DEF ReceivedIsOfJob, IsSettled
<1>6. PopupIsOfJob'
  BY DEF PopupIsOfJob
<1>7. FormIsInspected'
  BY NormalAssumption DEF FormIsInspected, EvaluationTypeOK, OrNothing, Evidences,
         Commitments, AllCriteria, JobRecords, Forms, Panels, Popups, Uris
<1>8. SubmittedAsShown'
  BY DEF SubmittedAsShown
<1> QED
  BY <1>1, <1>2, <1>3, <1>4, <1>5, <1>6, <1>7, <1>8

LEMMA InspectInv ==
    ASSUME EvaluationInv, Inspect
    PROVE  EvaluationInv'
<1> USE DEF EvaluationInv, Inspect, world
<1>1. EvaluationTypeOK'
  <2>1. form \in Forms
    BY DEF EvaluationTypeOK, OrNothing
  <2>3. Normal[form.uri] \in OrNothing(Uris)
    BY <2>1, Normalised, InNothing DEF Forms
  <2>2. form' \in Forms
    BY <2>1, <2>3, InNothing DEF Forms
  <2> QED
    BY <2>2, InNothing DEF EvaluationTypeOK
<1>2. ClientIsNamed'
  BY DEF ClientIsNamed
<1>3. CardIsOfJob'
  BY DEF CardIsOfJob, IsSettled, SameTerms
<1>4. RequestIsOfJob'
  BY DEF RequestIsOfJob, IsRequest, IsSettled, SameTerms, Rebuilt, Commitment
<1>5. ReceivedIsOfJob'
  BY DEF ReceivedIsOfJob, IsSettled
<1>6. PopupIsOfJob'
  BY DEF PopupIsOfJob
<1>7. FormIsInspected'
  BY NormalAssumption DEF FormIsInspected, EvaluationTypeOK, OrNothing, Evidences,
         Commitments, AllCriteria, JobRecords, Forms, Panels, Popups, Uris
<1>8. SubmittedAsShown'
  BY DEF SubmittedAsShown
<1> QED
  BY <1>1, <1>2, <1>3, <1>4, <1>5, <1>6, <1>7, <1>8

LEMMA FormReadsInv ==
    ASSUME EvaluationInv, NEW reply, FormReads(reply)
    PROVE  EvaluationInv'
<1> USE DEF EvaluationInv, FormReads, world
<1>1. EvaluationTypeOK'
  <2>1. form \in Forms
    BY DEF EvaluationTypeOK, OrNothing
  <2>3. reply \in OrNothing(Evidences)
    BY Reading DEF FormIsInspected
  <2>2. form' \in Forms
    BY <2>1, <2>3, InNothing DEF Forms
  <2> QED
    BY <2>2, InNothing DEF EvaluationTypeOK
<1>2. ClientIsNamed'
  BY DEF ClientIsNamed
<1>3. CardIsOfJob'
  BY DEF CardIsOfJob, IsSettled, SameTerms
<1>4. RequestIsOfJob'
  BY DEF RequestIsOfJob, IsRequest, IsSettled, SameTerms, Rebuilt, Commitment
<1>5. ReceivedIsOfJob'
  BY DEF ReceivedIsOfJob, IsSettled
<1>6. PopupIsOfJob'
  BY DEF PopupIsOfJob
<1>7. FormIsInspected'
  <2>1. reply # NOTHING => reply.uri = form.asked
    BY Reading DEF FormIsInspected
  <2>2. /\ form'.at = "read" /\ form'.read = reply
        /\ form'.uri = form.uri /\ form'.asked = form.asked /\ form'.overtaken = form.overtaken
    BY InNothing DEF EvaluationTypeOK, Forms
  <2> QED
    BY <2>1, <2>2 DEF FormIsInspected
<1>8. SubmittedAsShown'
  BY DEF SubmittedAsShown
<1> QED
  BY <1>1, <1>2, <1>3, <1>4, <1>5, <1>6, <1>7, <1>8

LEMMA InspectedInv ==
    ASSUME EvaluationInv, Inspected
    PROVE  EvaluationInv'
<1> USE DEF EvaluationInv, Inspected, world
<1>1. EvaluationTypeOK'
  <2>1. form \in Forms
    BY DEF EvaluationTypeOK, OrNothing
  <2>2. form' \in Forms
    BY <2>1, InNothing DEF Forms
  <2> QED
    BY <2>2, InNothing DEF EvaluationTypeOK
<1>2. ClientIsNamed'
  BY DEF ClientIsNamed
<1>3. CardIsOfJob'
  BY DEF CardIsOfJob, IsSettled, SameTerms
<1>4. RequestIsOfJob'
  BY DEF RequestIsOfJob, IsRequest, IsSettled, SameTerms, Rebuilt, Commitment
<1>5. ReceivedIsOfJob'
  BY DEF ReceivedIsOfJob, IsSettled
<1>6. PopupIsOfJob'
  BY DEF PopupIsOfJob
<1>7. FormIsInspected'
  BY DEF FormIsInspected
<1>8. SubmittedAsShown'
  BY DEF SubmittedAsShown
<1> QED
  BY <1>1, <1>2, <1>3, <1>4, <1>5, <1>6, <1>7, <1>8

LEMMA SubmitInv ==
    ASSUME EvaluationInv, Submit
    PROVE  EvaluationInv'
<1> USE DEF EvaluationInv, Submit, Ask, Commitment, Evidence, IsRebuilt, parseEvaluableDescription, Criteria, world
<1>0. /\ form \in Forms /\ form.inspected \in Evidences /\ form.inspected.uri \in Uris
      /\ card \in JobRecords /\ address \in Accounts /\ card.client = job.client
      /\ job.status # "none"
  <2>1. form \in Forms /\ card \in JobRecords /\ address \in Accounts
    BY InNothing DEF EvaluationTypeOK, CardIsOfJob
  <2>2. form.inspected \in Evidences
    BY <2>1, InNothing DEF Forms
  <2> QED
    BY <2>1, <2>2 DEF Evidences, CardIsOfJob
<1>9. /\ popup'.call = "submit-work" /\ popup'.value = Commitment(card, address, form.inspected)
      /\ popup'.shown = IF form.overtaken THEN NOTHING ELSE form.uri
      /\ popup'.value.client = card.client /\ popup'.value.evidence = form.inspected
  OBVIOUS
<1>1. EvaluationTypeOK'
  <2>1. popup' \in Popups
    <3>1. Commitment(card, address, form.inspected) \in Commitments
      BY <1>0, InNothing DEF JobRecords, Commitments
    <3>2. (IF form.overtaken THEN NOTHING ELSE form.uri) \in OrNothing(Typed)
      BY <1>0, InNothing DEF Forms
    <3> QED
      BY <3>1, <3>2 DEF Popups
  <2>2. form' \in Forms
    BY <1>0 DEF Forms
  <2> QED
    BY <1>0, <2>1, <2>2, InNothing DEF EvaluationTypeOK
<1>2. ClientIsNamed'
  BY DEF ClientIsNamed
<1>3. CardIsOfJob'
  BY DEF CardIsOfJob, IsSettled, SameTerms
<1>4. RequestIsOfJob'
  BY DEF RequestIsOfJob, IsRequest, IsSettled, SameTerms, Rebuilt, Commitment
<1>5. ReceivedIsOfJob'
  BY DEF ReceivedIsOfJob, IsSettled
<1>6. PopupIsOfJob'
  BY <1>0, <1>9 DEF PopupIsOfJob
<1>7. FormIsInspected'
  BY DEF FormIsInspected
<1>8. SubmittedAsShown'
  BY <1>0, <1>9 DEF SubmittedAsShown, FormIsInspected
<1> QED
  BY <1>1, <1>2, <1>3, <1>4, <1>5, <1>6, <1>7, <1>8

LEMMA EditPanelInv ==
    ASSUME EvaluationInv, NEW text \in Typed, EditPanel(text)
    PROVE  EvaluationInv'
<1> USE DEF EvaluationInv, EditPanel, world
<1>1. EvaluationTypeOK'
  BY NormalAssumption DEF EvaluationTypeOK, OrNothing, Evidences, Commitments,
         AllCriteria, JobRecords, Forms, Panels, Popups, Uris
<1>2. ClientIsNamed'
  BY DEF ClientIsNamed
<1>3. CardIsOfJob'
  BY DEF CardIsOfJob, IsSettled, SameTerms
<1>4. RequestIsOfJob'
  BY DEF RequestIsOfJob, IsRequest, IsSettled, SameTerms, Rebuilt, Commitment
<1>5. ReceivedIsOfJob'
  BY DEF ReceivedIsOfJob, IsSettled
<1>6. PopupIsOfJob'
  BY DEF PopupIsOfJob
<1>7. FormIsInspected'
  BY DEF FormIsInspected
<1>8. SubmittedAsShown'
  BY DEF SubmittedAsShown
<1> QED
  BY <1>1, <1>2, <1>3, <1>4, <1>5, <1>6, <1>7, <1>8

LEMMA RequestInv ==
    ASSUME EvaluationInv, requestEvaluation
    PROVE  EvaluationInv'
<1> USE DEF EvaluationInv, requestEvaluation, IsShown, parseEvaluableDescription, world
<1>1. EvaluationTypeOK'
  <2>3. Normal[panel.uri] \in OrNothing(Uris)
    BY Normalised, InNothing DEF EvaluationTypeOK, Panels
  <2>2. panel' \in Panels
    BY <2>3, InNothing DEF Panels, EvaluationTypeOK
  <2> QED
    BY <2>2 DEF EvaluationTypeOK
<1>2. ClientIsNamed'
  BY DEF ClientIsNamed
<1>3. CardIsOfJob'
  BY DEF CardIsOfJob, IsSettled, SameTerms
<1>4. RequestIsOfJob'
  <2>1. /\ panel'.of = card /\ panel'.outcome = "none" /\ panel'.at = "asked"
        /\ panel'.asked = Normal[panel.uri]
    BY DEF EvaluationTypeOK, Panels
  <2>3. Normal[panel.uri] \in Uris
    BY Normalised DEF EvaluationTypeOK, Panels
  <2>2. card \in JobRecords /\ card.deliverable # NOTHING /\ IsSettled(job) /\ SameTerms(card, job)
    BY InNothing DEF EvaluationTypeOK, CardIsOfJob, IsSettled
  <2> QED
    BY <2>1, <2>2, <2>3 DEF RequestIsOfJob, IsRequest, SameTerms, IsSettled
<1>5. ReceivedIsOfJob'
  BY DEF ReceivedIsOfJob, IsSettled
<1>6. PopupIsOfJob'
  BY DEF PopupIsOfJob
<1>7. FormIsInspected'
  BY DEF FormIsInspected
<1>8. SubmittedAsShown'
  BY DEF SubmittedAsShown
<1> QED
  BY <1>1, <1>2, <1>3, <1>4, <1>5, <1>6, <1>7, <1>8

LEMMA PanelReadsInv ==
    ASSUME EvaluationInv, NEW reply, PanelReads(reply)
    PROVE  EvaluationInv'
<1> USE DEF EvaluationInv, PanelReads, world
<1>1. EvaluationTypeOK'
  <2>3. reply \in OrNothing(Evidences)
    BY Reading DEF RequestIsOfJob
  <2>2. panel' \in Panels
    BY <2>3, InNothing DEF Panels, EvaluationTypeOK
  <2> QED
    BY <2>2 DEF EvaluationTypeOK
<1>2. ClientIsNamed'
  BY DEF ClientIsNamed
<1>3. CardIsOfJob'
  BY DEF CardIsOfJob, IsSettled, SameTerms
<1>4. RequestIsOfJob'
  <2>1. /\ panel'.of = panel.of /\ panel'.outcome = panel.outcome /\ panel'.at = "read"
    BY DEF EvaluationTypeOK, Panels
  <2> QED
    BY <2>1 DEF RequestIsOfJob, IsRequest, SameTerms, IsSettled
<1>5. ReceivedIsOfJob'
  BY DEF ReceivedIsOfJob, IsSettled
<1>6. PopupIsOfJob'
  BY DEF PopupIsOfJob
<1>7. FormIsInspected'
  BY DEF FormIsInspected
<1>8. SubmittedAsShown'
  BY DEF SubmittedAsShown
<1> QED
  BY <1>1, <1>2, <1>3, <1>4, <1>5, <1>6, <1>7, <1>8

LEMMA PostInv ==
    ASSUME EvaluationInv, Post
    PROVE  EvaluationInv'
<1> USE DEF EvaluationInv, Post, Answer, Quiet, IsCommitted, world
<1>1. EvaluationTypeOK'
  <2>1. panel \in Panels
    BY DEF EvaluationTypeOK
  <2>2. ASSUME Answer("error") PROVE panel' \in Panels
    BY <2>1, <2>2, InNothing DEF Panels
  <2>3. ASSUME Answer("mismatch") PROVE panel' \in Panels
    BY <2>1, <2>3, InNothing DEF Panels
  <2>4. [panel EXCEPT !.at = "posted"] \in Panels
    BY <2>1 DEF Panels
  <2>5. panel' \in Panels
    BY <2>2, <2>3, <2>4
  <2> QED
    BY <2>5 DEF EvaluationTypeOK
<1>2. ClientIsNamed'
  BY DEF ClientIsNamed
<1>3. CardIsOfJob'
  BY DEF CardIsOfJob, IsSettled, SameTerms
<1>4. RequestIsOfJob'
  <2>1. /\ panel.of \in JobRecords /\ panel.of.deliverable # NOTHING
        /\ IsSettled(job) /\ SameTerms(panel.of, job)
    BY DEF RequestIsOfJob, IsRequest
  <2>2. CASE panel.read = NOTHING \/ ~IsRebuilt(panel.of, panel.of.provider)
    <3>1. panel'.at = "idle" /\ panel'.outcome = "error"
      BY <2>2
    <3> QED
      BY <3>1 DEF RequestIsOfJob, IsRequest
  <2>3. CASE ~(panel.read = NOTHING \/ ~IsRebuilt(panel.of, panel.of.provider)) /\ ~IsCommitted
    <3>1. /\ panel'.at = "idle" /\ panel'.outcome = "mismatch"
          /\ panel'.of = panel.of /\ panel'.read = panel.read
      BY <2>3 DEF EvaluationTypeOK, Panels
    <3> QED
      BY <2>1, <2>3, <3>1 DEF RequestIsOfJob, Rebuilt, SameTerms, IsSettled
  <2>4. CASE ~(panel.read = NOTHING \/ ~IsRebuilt(panel.of, panel.of.provider)) /\ IsCommitted
    <3>1. /\ panel'.at = "posted" /\ panel'.outcome = panel.outcome
          /\ panel'.of = panel.of /\ panel'.read = panel.read
      BY <2>4 DEF EvaluationTypeOK, Panels
    <3> QED
      BY <2>1, <2>4, <3>1 DEF RequestIsOfJob, Rebuilt, SameTerms, IsSettled
  <2> QED
    BY <2>2, <2>3, <2>4
<1>5. ReceivedIsOfJob'
  BY DEF ReceivedIsOfJob, IsSettled
<1>6. PopupIsOfJob'
  BY DEF PopupIsOfJob
<1>7. FormIsInspected'
  BY DEF FormIsInspected
<1>8. SubmittedAsShown'
  BY DEF SubmittedAsShown
<1> QED
  BY <1>1, <1>2, <1>3, <1>4, <1>5, <1>6, <1>7, <1>8

LEMMA RelayInv ==
    ASSUME EvaluationInv, NEW reached \in BOOLEAN, NEW outcome, relayEvaluation(reached,
           outcome)
    PROVE  EvaluationInv'
<1> USE DEF EvaluationInv, relayEvaluation, Answer, Quiet, world
<1>1. EvaluationTypeOK'
  <2>1. panel' \in Panels
    BY InNothing DEF EvaluationTypeOK, Panels
  <2>2. Rebuilt \in Commitments
    <3>1. /\ panel.of \in JobRecords /\ panel.of.deliverable # NOTHING
          /\ Rebuilt = panel.of.deliverable
      BY DEF RequestIsOfJob, IsRequest
    <3> QED
      BY <3>1, InNothing DEF JobRecords
  <2> QED
    BY <2>1, <2>2 DEF EvaluationTypeOK
<1>2. ClientIsNamed'
  BY DEF ClientIsNamed
<1>3. CardIsOfJob'
  BY DEF CardIsOfJob, IsSettled, SameTerms
<1>4. RequestIsOfJob'
  BY DEF RequestIsOfJob, IsRequest, IsSettled, SameTerms, Rebuilt, Commitment
<1>5. ReceivedIsOfJob'
  <2>1. Rebuilt = job.deliverable /\ IsSettled(job)
    BY DEF RequestIsOfJob, IsRequest, SameTerms
  <2> QED
    BY <2>1 DEF ReceivedIsOfJob, IsSettled
<1>6. PopupIsOfJob'
  BY DEF PopupIsOfJob
<1>7. FormIsInspected'
  BY DEF FormIsInspected
<1>8. SubmittedAsShown'
  BY DEF SubmittedAsShown
<1> QED
  BY <1>1, <1>2, <1>3, <1>4, <1>5, <1>6, <1>7, <1>8

-----------------------------------------------------------------------------
LEMMA InitEvaluation == EvaluationInit => EvaluationInv
<1> SUFFICES ASSUME EvaluationInit PROVE EvaluationInv
  OBVIOUS
<1>1. panel \in Panels
  BY InNothing DEF EvaluationInit, Quiet, Panels
<1>2. EvaluationTypeOK
  BY <1>1, JobsAssumption, InNothing DEF EvaluationInit, EvaluationTypeOK
<1>3. ClientIsNamed
  BY JobsAssumption DEF EvaluationInit, ClientIsNamed
<1>4. CardIsOfJob /\ ReceivedIsOfJob /\ PopupIsOfJob /\ FormIsInspected /\ SubmittedAsShown
  BY DEF EvaluationInit, CardIsOfJob, ReceivedIsOfJob, PopupIsOfJob, FormIsInspected,
         SubmittedAsShown
<1>5. RequestIsOfJob
  BY DEF EvaluationInit, Quiet, RequestIsOfJob, IsRequest
<1> QED
  BY <1>2, <1>3, <1>4, <1>5 DEF EvaluationInv

LEMMA StepEvaluation == EvaluationInv /\ [EvaluationNext]_evaluationVars => EvaluationInv'
<1> SUFFICES ASSUME EvaluationInv, [EvaluationNext]_evaluationVars PROVE EvaluationInv'
  OBVIOUS
<1>1. CASE UNCHANGED evaluationVars
  BY <1>1 DEF evaluationVars, world, EvaluationInv, EvaluationTypeOK, ClientIsNamed,
         CardIsOfJob,
              RequestIsOfJob, IsRequest, IsSettled, SameTerms, Rebuilt, Commitment,
              ReceivedIsOfJob, PopupIsOfJob, FormIsInspected, SubmittedAsShown
<1>2. CASE Elsewhere
  <2>1. ASSUME NEW a \in Accounts, CreateElsewhere(a) \/ Assign(a) PROVE EvaluationInv'
    BY <1>2, <2>1, CreateElsewhereInv, AssignInv DEF Elsewhere
  <2>2. ASSUME SubmitElsewhere(NOTHING) PROVE EvaluationInv'
    BY <1>2, <2>2, SubmitElsewhereInv DEF Elsewhere
  <2>3. ASSUME NEW uri \in Uris, SubmitElsewhere(Commitment(job, job.provider, Published(uri)))
        PROVE  EvaluationInv'
    BY <1>2, <2>3, SubmitElsewhereInv DEF Elsewhere
  <2> QED
    BY <1>2, <2>1, <2>2, <2>3 DEF Elsewhere
<1>3. ASSUME NEW uri \in Uris, NEW content \in OrNothing(Contents), Publish(uri, content)
      PROVE  EvaluationInv'
  BY <1>3, PublishInv
<1>4. ASSUME NEW account \in Accounts, Connect(account) \/ Signed(account) PROVE EvaluationInv'
  BY <1>4, ConnectInv, SignedInv
<1>5. ASSUME Decide \/ Refused \/ LoadJobs \/ Leave \/ handleCreateJob PROVE EvaluationInv'
  BY <1>5, DecideInv, RefusedInv, LoadJobsInv, LeaveInv, CreateInv
<1>6. ASSUME OpenForm \/ Cancel \/ Inspect \/ Inspected \/ Submit PROVE EvaluationInv'
  BY <1>6, OpenFormInv, CancelInv, InspectInv, InspectedInv, SubmitInv
<1>7. ASSUME NEW text \in Typed, Type(text) \/ EditPanel(text) PROVE EvaluationInv'
  BY <1>7, TypeInv, EditPanelInv
<1>8. ASSUME NEW reply, FormReads(reply) \/ PanelReads(reply) PROVE EvaluationInv'
  BY <1>8, FormReadsInv, PanelReadsInv
<1>9. ASSUME requestEvaluation \/ Post PROVE EvaluationInv'
  BY <1>9, RequestInv, PostInv
<1>10. ASSUME NEW reached \in BOOLEAN, NEW outcome, relayEvaluation(reached, outcome)
       PROVE  EvaluationInv'
  BY <1>10, RelayInv
<1> QED
  BY <1>1, <1>2, <1>3, <1>4, <1>5, <1>6, <1>7, <1>8, <1>9, <1>10 DEF EvaluationNext,
         OrNothing

LEMMA InvIsPromise == EvaluationInv => EvaluatedAsCommitted
<1> SUFFICES ASSUME EvaluationInv PROVE EvaluatedAsCommitted
  OBVIOUS
<1> USE DEF EvaluationInv
<1>1. SentAsCommitted
  BY DEF SentAsCommitted, ReceivedIsOfJob, RequestIsOfJob, IsRequest, SameTerms
<1>2. ASSUME panel.outcome = "mismatch", panel.read = job.deliverable.evidence,
             job.deliverable.provider = job.provider
      PROVE  FALSE
  <2>1. /\ SameTerms(panel.of, job) /\ panel.of.deliverable # NOTHING
        /\ Rebuilt # panel.of.deliverable
    BY <1>2 DEF RequestIsOfJob, IsRequest
  <2>2. job.deliverable \in Commitments /\ job.deliverable.client = job.client
    BY <2>1, InNothing DEF SameTerms, EvaluationTypeOK, JobRecords, ClientIsNamed
  <2>3. job.deliverable = [client |-> job.client, provider |-> job.provider, evidence |-> panel.read]
    BY <1>2, <2>2 DEF Commitments
  <2> QED
    BY <2>1, <2>3 DEF SameTerms, Rebuilt, Commitment
<1> QED
  BY <1>1, <1>2 DEF EvaluatedAsCommitted, RefusedWithReason

\* What reaches the Evaluator, or is handed to an operator, is what the job on the chain commits
\* to (requestEvaluation, relayEvaluation); the wallet is asked for the evidence in the field
\* (CommittedSubmitForm); and evidence is refused only with a reason: whatever happens to the file,
\* the job and the account between the reads, for any accounts, addresses, contents and events.
THEOREM EvaluatedIsCommitted == EvaluationSpec => []EvaluatedAsCommitted
BY InitEvaluation, StepEvaluation, InvIsPromise, PTL DEF EvaluationSpec

=============================================================================
