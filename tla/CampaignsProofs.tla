-------------------------- MODULE CampaignsProofs --------------------------
(***************************************************************************)
(* A mainnet campaign is run by one process at a time, for any number of   *)
(* processes, and keeps within its caps and adds up, for any balances to   *)
(* begin with, any payments of others and any number of crashes, lost      *)
(* transactions and refusals.  CampaignInv ties the receipts to the chain: *)
(* of what was signed for an asset all but the last has been executed, and *)
(* what was executed is what the chain took and moved.                     *)
(***************************************************************************)
EXTENDS CampaignLock, Campaign, TotalsProofs

-----------------------------------------------------------------------------
(* The lock: the inductive invariant, whatever the operators confirm *)

\* Between acquireRecoveryGuard and its release.
Guarded == {"rechecking", "checkingOwner", "checkingLease", "checkingExecutor",
            "removingLease", "rotating", "adopted", "failing", "validating",
            "creatingLease", "writingLease", "revalidating", "leased"}

\* Between the creation of the lease and its removal.
Holding == {"writingLease", "revalidating", "leased", "check1", "check2", "check3",
            "check4", "cleared", "broadcasting", "closing", "unlinkingLease"}

GuardIsHeld == \A p \in Processes : pc[p] \in Guarded => guard = p

LeaseIsHeld ==
    \A p \in Processes : pc[p] \in Holding => lease # NoFile /\ lease.by = p

\* Nobody writes the lease while a takeover examines it.
RemovalIsSafe ==
    \A p \in Processes :
        /\ pc[p] \in {"checkingExecutor", "removingLease"} =>
               lease = NoFile \/ lease = seen[p].lease
        /\ pc[p] = "checkingExecutor" => seen[p].lease # NoFile
        /\ pc[p] = "removingLease" =>
               seen[p].lease # NoFile /\ Ended(seen[p].lease.by)

\* What a process runs goes with where it is.
KindFits ==
    \A p \in Processes :
        /\ kind[p] # "executor" => token[p] = p
        /\ pc[p] \in Coordinating => kind[p] = "coordinator"
        /\ pc[p] \in Owning => kind[p] # "executor"
        /\ pc[p] \in Executing => kind[p] # "coordinator"
        /\ pc[p] = "unborn" => kind[p] = "coordinator"
        /\ pc[p] = "inheriting" => kind[p] = "executor"

LockInv == TypeOK /\ GuardIsHeld /\ LeaseIsHeld /\ RemovalIsSafe

-----------------------------------------------------------------------------
(* The rest of it, when operators confirm only the lock of a dead process *)

SeenOwnersAreDead ==
    \A p \in Processes : seen[p].lock # NoFile => Ended(seen[p].lock.by)

\* A takeover replaces the lock it examined, after the lease is gone.
TakeoverIsSafe ==
    \A p \in Processes :
        /\ pc[p] \in {"checkingOwner", "checkingLease", "checkingExecutor",
                      "removingLease", "rotating"} =>
               lock # NoFile /\ lock = seen[p].lock
        /\ pc[p] = "rotating" => lease = NoFile

\* An owner's lock is its own until it removes it.
LockIsOwned ==
    \A p \in Processes :
        pc[p] \in {"writing", "owning", "unlinking", "waiting", "adopted"} =>
            lock # NoFile /\ lock.by = p

\* A coordinator waits while its child runs.
ParentsWait ==
    \A p, c \in Processes :
        kind[c] = "executor" /\ token[c] = p /\ Live(c) =>
            pc[p] = "waiting" \/ Ended(p)

LeaseUnderLock ==
    \A p \in Processes :
        pc[p] \in Holding \cup {"creatingLease"} => LockIs(token[p])

CarefulInv ==
    /\ KindFits /\ SeenOwnersAreDead /\ TakeoverIsSafe
    /\ LockIsOwned /\ ParentsWait /\ LeaseUnderLock

-----------------------------------------------------------------------------
(* The steps, one by one *)

\* The steps that only look at the files.
LookingStep(p) ==
    \/ BeginRelease(p) \/ RecheckLock(p) \/ CheckOwner(p) \/ CheckLease(p)
    \/ CheckExecutor(p) \/ Reap(p) \/ Inherit(p) \/ Validate(p)
    \/ Revalidate(p) \/ AssertOwned(p) \/ Broadcast(p) \/ Answered(p) \/ Close(p)

LEMMA StepCases ==
    ASSUME NEW p \in Processes, Start(p) \/ Run(p) \/ Crash(p)
    PROVE  \/ Start(p) \/ Crash(p) \/ LookForLock(p) \/ LookForLease(p)
           \/ CreateLock(p) \/ WriteLock(p) \/ UnlinkLock(p)
           \/ \E c \in Processes : Spawn(p, c)
           \/ TakeGuard(p) \/ ReleaseGuard(p) \/ RemoveLease(p) \/ RotateLock(p)
           \/ CreateLease(p) \/ WriteLease(p) \/ UnlinkLease(p) \/ LookingStep(p)
BY DEF Run, Campaign, Takeover, Execution, LookingStep

LEMMA LookingChangesOnlyThePc ==
    ASSUME NEW p \in Processes, LookingStep(p)
    PROVE  /\ UNCHANGED <<lock, lease, guard, kind, token, seen>>
           /\ \E label \in Labels : pc' = [pc EXCEPT ![p] = label]
<1>1. /\ UNCHANGED <<lock, lease, guard, kind, token, seen>>
      /\ \E label \in Labels : Goto(p, label)
  BY DEF LookingStep, BeginRelease, RecheckLock, CheckOwner, CheckLease, CheckExecutor,
         Reap, Inherit, Validate, Revalidate, AssertOwned, Broadcast, Answered, Close,
         Check, files, Labels, Coordinating, Owning, Executing
<1> QED
  BY <1>1 DEF Goto

LEMMA TypeStep ==
    ASSUME TypeOK, NEW p \in Processes, Start(p) \/ Run(p) \/ Crash(p)
    PROVE  TypeOK'
<1> USE NoFileAssumption DEF TypeOK, LockFile, LeaseFile, files, Goto, Labels,
        Coordinating, Owning, Executing
<1>1. CASE Start(p)
  BY <1>1 DEF Start
<1>2. CASE Crash(p)
  BY <1>2 DEF Crash
<1>3. CASE LookForLock(p)
  BY <1>3 DEF LookForLock
<1>4. CASE LookForLease(p)
  BY <1>4 DEF LookForLease
<1>5. CASE CreateLock(p)
  <2>1. [by |-> p, written |-> FALSE] \in LockFile
    OBVIOUS
  <2>2. lock' \in LockFile \cup {NoFile}
    BY <2>1, <1>5 DEF CreateLock
  <2>3. pc' \in [Processes -> Labels]
    BY <1>5 DEF CreateLock
  <2> QED
    BY <2>2, <2>3, <1>5 DEF CreateLock
<1>6. CASE WriteLock(p)
  BY <1>6 DEF WriteLock
<1>7. CASE UnlinkLock(p)
  BY <1>7 DEF UnlinkLock
<1>8. ASSUME NEW c \in Processes, Spawn(p, c) PROVE TypeOK'
  BY <1>8 DEF Spawn
<1>9. CASE TakeGuard(p)
  BY <1>9 DEF TakeGuard
<1>10. CASE ReleaseGuard(p)
  BY <1>10 DEF ReleaseGuard
<1>11. CASE RemoveLease(p)
  BY <1>11 DEF RemoveLease
<1>12. CASE RotateLock(p)
  BY <1>12 DEF RotateLock
<1>13. CASE CreateLease(p)
  <2>1. Lease(p, TRUE) \in LeaseFile /\ Lease(p, FALSE) \in LeaseFile
    BY DEF Lease
  <2>2. lease' \in LeaseFile \cup {NoFile}
    BY <2>1, <1>13 DEF CreateLease, Lease
  <2>3. pc' \in [Processes -> Labels]
    BY <1>13 DEF CreateLease
  <2> QED
    BY <2>2, <2>3, <1>13 DEF CreateLease
<1>14. CASE WriteLease(p)
  <2>1. Lease(p, TRUE) \in LeaseFile /\ Lease(p, FALSE) \in LeaseFile
    BY DEF Lease
  <2>2. lease' \in LeaseFile \cup {NoFile}
    BY <2>1, <1>14 DEF WriteLease, Lease
  <2>3. pc' \in [Processes -> Labels]
    BY <1>14 DEF WriteLease
  <2> QED
    BY <2>2, <2>3, <1>14 DEF WriteLease
<1>15. CASE UnlinkLease(p)
  BY <1>15 DEF UnlinkLease
<1>16. CASE LookingStep(p)
  BY <1>16, LookingChangesOnlyThePc
<1> QED
  BY StepCases, <1>1, <1>2, <1>3, <1>4, <1>5, <1>6, <1>7, <1>8, <1>9, <1>10, <1>11,
     <1>12, <1>13, <1>14, <1>15, <1>16

\* The three files and the state of every process are well formed, whatever dies
\* when and whatever file is left behind.
THEOREM TypeCorrect == Spec => []TypeOK
<1>1. Init => TypeOK
  BY DEF Init, TypeOK, Labels
<1>2. TypeOK /\ [Next]_vars => TypeOK'
  <2>1. TypeOK /\ UNCHANGED vars => TypeOK'
    BY DEF TypeOK, vars
  <2> QED
    BY <2>1, TypeStep DEF Next
<1> QED
  BY <1>1, <1>2, PTL DEF Spec

-----------------------------------------------------------------------------
(* One broadcaster *)

\* Looking neither takes the guard nor the lease, and says what it saw.
LEMMA LookingKeeps ==
    ASSUME TypeOK, NEW p \in Processes, LookingStep(p)
    PROVE  /\ ~Ended(p)
           /\ pc'[p] \in Guarded => pc[p] \in Guarded
           /\ pc'[p] \in Holding => pc[p] \in Holding
           /\ pc'[p] = "checkingExecutor" => lease # NoFile /\ lease = seen[p].lease
           /\ pc'[p] = "removingLease" =>
                  pc[p] = "checkingExecutor" /\ Ended(seen[p].lease.by)
<1> USE DEF TypeOK, Check, Goto, Guarded, Holding, Ended
<1>1. CASE BeginRelease(p)
  BY <1>1 DEF BeginRelease
<1>2. CASE RecheckLock(p)
  BY <1>2 DEF RecheckLock
<1>3. CASE CheckOwner(p)
  BY <1>3 DEF CheckOwner
<1>4. CASE CheckLease(p)
  BY <1>4 DEF CheckLease
<1>5. CASE CheckExecutor(p)
  BY <1>5 DEF CheckExecutor, IsDead
<1>6. CASE Reap(p)
  BY <1>6 DEF Reap
<1>7. CASE Inherit(p)
  BY <1>7 DEF Inherit
<1>8. CASE Validate(p)
  BY <1>8 DEF Validate
<1>9. CASE Revalidate(p)
  BY <1>9 DEF Revalidate
<1>10. CASE AssertOwned(p)
  BY <1>10 DEF AssertOwned
<1>11. CASE Broadcast(p)
  BY <1>11 DEF Broadcast
<1>12. CASE Answered(p)
  BY <1>12 DEF Answered
<1>13. CASE Close(p)
  BY <1>13 DEF Close
<1> QED
  BY <1>1, <1>2, <1>3, <1>4, <1>5, <1>6, <1>7, <1>8, <1>9, <1>10, <1>11, <1>12,
     <1>13 DEF LookingStep

LEMMA WrittenLease ==
    ASSUME TypeOK, NEW p \in Processes, NEW b \in BOOLEAN
    PROVE  Lease(p, b) # NoFile /\ Lease(p, b).by = p
<1>1. Lease(p, b) \in LeaseFile
  BY DEF Lease, LeaseFile, TypeOK
<1> QED
  BY <1>1, NoFileAssumption DEF Lease

\* A step of one process keeps what is known of a takeover, unless it examines
\* the lease or writes it.
LEMMA RemovalFrame ==
    ASSUME TypeOK, RemovalIsSafe,
           \A q \in Processes : Ended(q) => Ended(q)',
           \A q \in Processes :
               pc'[q] \in {"checkingExecutor", "removingLease"} =>
                   pc'[q] = pc[q] /\ seen'[q] = seen[q],
           lease' \in {lease, NoFile}
    PROVE  RemovalIsSafe'
<1>1. \A q \in Processes : seen[q].lease # NoFile => seen[q].lease.by \in Processes
  BY DEF TypeOK, LeaseFile
<1> QED
  BY <1>1, NoFileAssumption DEF RemovalIsSafe

LEMMA LockInvStep ==
    ASSUME LockInv, NEW p \in Processes, Start(p) \/ Run(p) \/ Crash(p)
    PROVE  GuardIsHeld' /\ LeaseIsHeld' /\ RemovalIsSafe'
<1> USE NoFileAssumption DEF LockInv, GuardIsHeld, LeaseIsHeld, RemovalIsSafe,
        TypeOK, Goto, Ended, files, Guarded, Holding
<1>1. CASE Start(p)
  <2>1. GuardIsHeld'
    BY <1>1 DEF Start
  <2>2. LeaseIsHeld'
    BY <1>1 DEF Start
  <2>3. RemovalIsSafe'
    BY <1>1, RemovalFrame DEF Start
  <2> QED
    BY <2>1, <2>2, <2>3
<1>2. CASE Crash(p)
  BY <1>2 DEF Crash
<1>3. CASE LookForLock(p)
  BY <1>3 DEF LookForLock
<1>4. CASE LookForLease(p)
  BY <1>4 DEF LookForLease
<1>5. CASE CreateLock(p)
  <2>1. GuardIsHeld'
    BY <1>5 DEF CreateLock
  <2>2. LeaseIsHeld'
    BY <1>5 DEF CreateLock
  <2>3. RemovalIsSafe'
    BY <1>5, RemovalFrame DEF CreateLock
  <2> QED
    BY <2>1, <2>2, <2>3
<1>6. CASE WriteLock(p)
  BY <1>6 DEF WriteLock
<1>7. CASE UnlinkLock(p)
  BY <1>7 DEF UnlinkLock
<1>8. ASSUME NEW c \in Processes, Spawn(p, c)
      PROVE  GuardIsHeld' /\ LeaseIsHeld' /\ RemovalIsSafe'
  <2>1. GuardIsHeld'
    BY <1>8 DEF Spawn
  <2>2. LeaseIsHeld'
    BY <1>8 DEF Spawn
  <2>3. RemovalIsSafe'
    BY <1>8, RemovalFrame DEF Spawn
  <2> QED
    BY <2>1, <2>2, <2>3
<1>9. CASE TakeGuard(p)
  <2>1. GuardIsHeld'
    BY <1>9 DEF TakeGuard
  <2>2. LeaseIsHeld'
    BY <1>9 DEF TakeGuard
  <2>3. RemovalIsSafe'
    BY <1>9, RemovalFrame DEF TakeGuard
  <2> QED
    BY <2>1, <2>2, <2>3
<1>10. CASE ReleaseGuard(p)
  BY <1>10 DEF ReleaseGuard
<1>11. CASE RemoveLease(p)
  BY <1>11 DEF RemoveLease
<1>12. CASE RotateLock(p)
  BY <1>12 DEF RotateLock
<1>13. CASE CreateLease(p)
  <2>1. GuardIsHeld'
    BY <1>13 DEF CreateLease
  <2>2. CASE lease = NoFile
    <3>0. lease' = Lease(p, FALSE)
      BY <1>13, <2>2 DEF CreateLease
    <3>1. lease' # NoFile /\ lease'.by = p
      BY <3>0, WrittenLease
    <3>2. \A q \in Processes : pc'[q] \in Holding => q = p
      BY <1>13, <2>2 DEF CreateLease
    <3>3. \A q \in Processes : pc'[q] \notin {"checkingExecutor", "removingLease"}
      BY <1>13 DEF CreateLease
    <3> QED
      BY <2>1, <3>1, <3>2, <3>3
  <2>3. CASE lease # NoFile
    <3>1. LeaseIsHeld'
      BY <1>13, <2>3 DEF CreateLease
    <3>2. RemovalIsSafe'
      BY <1>13, <2>3, RemovalFrame DEF CreateLease
    <3> QED
      BY <2>1, <3>1, <3>2
  <2> QED
    BY <2>2, <2>3
<1>14. CASE WriteLease(p)
  <2>1. GuardIsHeld'
    BY <1>14 DEF WriteLease
  <2>2. CASE lease' = Lease(p, TRUE)
    <3>1. lease' # NoFile /\ lease'.by = p
      BY <2>2, WrittenLease
    <3>2. \A q \in Processes : pc'[q] \in Holding => q = p
      BY <1>14 DEF WriteLease
    <3>3. \A q \in Processes : pc'[q] \notin {"checkingExecutor", "removingLease"}
      BY <1>14 DEF WriteLease
    <3> QED
      BY <2>1, <3>1, <3>2, <3>3
  <2>3. CASE lease' = lease
    <3>1. LeaseIsHeld'
      BY <1>14, <2>3 DEF WriteLease
    <3>2. RemovalIsSafe'
      BY <1>14, <2>3, RemovalFrame DEF WriteLease
    <3> QED
      BY <2>1, <3>1, <3>2
  <2> QED
    BY <1>14, <2>2, <2>3 DEF WriteLease
<1>15. CASE UnlinkLease(p)
  BY <1>15 DEF UnlinkLease
<1>16. CASE LookingStep(p)
  <2>1. GuardIsHeld'
    BY <1>16, LookingChangesOnlyThePc, LookingKeeps
  <2>2. LeaseIsHeld'
    BY <1>16, LookingChangesOnlyThePc, LookingKeeps
  <2>3. \A q \in Processes : seen[q].lease # NoFile => seen[q].lease.by \in Processes
    BY DEF LeaseFile
  <2>4. \A q \in Processes : Ended(q) => Ended(q)'
    BY <1>16, LookingChangesOnlyThePc, LookingKeeps
  <2>5. RemovalIsSafe'
    BY <1>16, <2>3, <2>4, LookingChangesOnlyThePc, LookingKeeps
  <2> QED
    BY <2>1, <2>2, <2>5
<1> QED
  BY StepCases, <1>1, <1>2, <1>3, <1>4, <1>5, <1>6, <1>7, <1>8, <1>9, <1>10, <1>11,
     <1>12, <1>13, <1>14, <1>15, <1>16

LEMMA LockInvInit == Init => LockInv
BY DEF Init, LockInv, TypeOK, Labels, GuardIsHeld, LeaseIsHeld, RemovalIsSafe,
       Guarded, Holding

LEMMA LockInvNext == LockInv /\ [Next]_vars => LockInv'
<1>1. LockInv /\ UNCHANGED vars => LockInv'
  BY DEF LockInv, TypeOK, GuardIsHeld, LeaseIsHeld, RemovalIsSafe, Ended, vars
<1> QED
  BY <1>1, TypeStep, LockInvStep DEF Next, LockInv

THEOREM LockInvariant == Spec => []LockInv
BY LockInvInit, LockInvNext, PTL DEF Spec

\* For any number of processes, of which any may die at any point, and whatever
\* locks and leases the operators confirm: one process at a time broadcasts.  A
\* broadcaster holds the lease, and the lease names one process.
THEOREM BroadcastersExclude == Spec => []OneBroadcaster
<1>1. LockInv => OneBroadcaster
  BY DEF LockInv, LeaseIsHeld, Holding, OneBroadcaster
<1> QED
  BY <1>1, LockInvariant, PTL

-----------------------------------------------------------------------------
(* Takeovers by careful operators *)

\* What the looking steps mean for the lock.
LEMMA LookingAtTheLock ==
    ASSUME TypeOK, NEW p \in Processes, LookingStep(p)
    PROVE  /\ pc[p] # "unborn" /\ pc'[p] # "unborn" /\ pc'[p] # "inheriting"
           /\ pc'[p] \in Coordinating => pc[p] \in Coordinating
           /\ pc'[p] \in Owning => pc[p] \in Owning \cup {"waiting"}
           /\ pc'[p] \in Executing => pc[p] \in Executing
           /\ pc'[p] = "checkingOwner" => lock # NoFile /\ lock = seen[p].lock
           /\ pc'[p] \in {"checkingLease", "checkingExecutor", "removingLease",
                          "rotating"} =>
                  pc[p] \in {"checkingOwner", "checkingLease", "checkingExecutor"}
           /\ pc'[p] = "rotating" => lease = NoFile
           /\ pc'[p] \notin {"writing", "waiting", "adopted"}
           /\ pc'[p] \in {"owning", "unlinking"} => pc[p] \in {"owning", "waiting"}
           /\ pc[p] = "waiting" => \A c \in Children(p) : Ended(c)
           /\ pc'[p] = "creatingLease" => LockIs(token[p])
<1> USE DEF TypeOK, Check, Goto, Coordinating, Owning, Executing, Ended
<1>1. CASE BeginRelease(p)
  BY <1>1 DEF BeginRelease
<1>2. CASE RecheckLock(p)
  BY <1>2 DEF RecheckLock
<1>3. CASE CheckOwner(p)
  BY <1>3 DEF CheckOwner, IsDead
<1>4. CASE CheckLease(p)
  BY <1>4 DEF CheckLease
<1>5. CASE CheckExecutor(p)
  BY <1>5 DEF CheckExecutor, IsDead
<1>6. CASE Reap(p)
  BY <1>6 DEF Reap
<1>7. CASE Inherit(p)
  BY <1>7 DEF Inherit
<1>8. CASE Validate(p)
  BY <1>8 DEF Validate
<1>9. CASE Revalidate(p)
  BY <1>9 DEF Revalidate
<1>10. CASE AssertOwned(p)
  BY <1>10 DEF AssertOwned
<1>11. CASE Broadcast(p)
  BY <1>11 DEF Broadcast
<1>12. CASE Answered(p)
  BY <1>12 DEF Answered
<1>13. CASE Close(p)
  BY <1>13 DEF Close
<1> QED
  BY <1>1, <1>2, <1>3, <1>4, <1>5, <1>6, <1>7, <1>8, <1>9, <1>10, <1>11, <1>12, <1>13 DEF LookingStep

LEMMA KindFitsStep ==
    ASSUME CarefulOperators, LockInv, CarefulInv,
           NEW p \in Processes, Start(p) \/ Run(p) \/ Crash(p)
    PROVE  KindFits'
<1> USE NoFileAssumption DEF LockInv, CarefulInv, TypeOK, Goto, files, KindFits, Coordinating, Owning, Executing
<1>1. CASE Start(p)
  BY <1>1 DEF Start
<1>2. CASE Crash(p)
  BY <1>2 DEF Crash
<1>3. CASE LookForLock(p)
  BY <1>3 DEF LookForLock
<1>4. CASE LookForLease(p)
  BY <1>4 DEF LookForLease
<1>5. CASE CreateLock(p)
  BY <1>5 DEF CreateLock
<1>6. CASE WriteLock(p)
  BY <1>6 DEF WriteLock
<1>7. CASE UnlinkLock(p)
  BY <1>7 DEF UnlinkLock
<1>8. ASSUME NEW c \in Processes, Spawn(p, c) PROVE KindFits'
  BY <1>8 DEF Spawn
<1>9. CASE TakeGuard(p)
  BY <1>9 DEF TakeGuard
<1>10. CASE ReleaseGuard(p)
  BY <1>10 DEF ReleaseGuard
<1>11. CASE RemoveLease(p)
  BY <1>11 DEF RemoveLease
<1>12. CASE RotateLock(p)
  BY <1>12 DEF RotateLock
<1>13. CASE CreateLease(p)
  BY <1>13 DEF CreateLease, Lease
<1>14. CASE WriteLease(p)
  BY <1>14 DEF WriteLease, Lease
<1>15. CASE UnlinkLease(p)
  BY <1>15 DEF UnlinkLease
<1>16. CASE LookingStep(p)
  BY <1>16, LookingChangesOnlyThePc, LookingKeeps, LookingAtTheLock
<1> QED
  BY StepCases, <1>1, <1>2, <1>3, <1>4, <1>5, <1>6, <1>7, <1>8, <1>9, <1>10, <1>11,
     <1>12, <1>13, <1>14, <1>15, <1>16

LEMMA SeenOwnersAreDeadStep ==
    ASSUME CarefulOperators, LockInv, CarefulInv,
           NEW p \in Processes, Start(p) \/ Run(p) \/ Crash(p)
    PROVE  SeenOwnersAreDead'
<1> USE NoFileAssumption DEF LockInv, CarefulInv, TypeOK, Goto, files, SeenOwnersAreDead, Ended, LockFile
<1>1. CASE Start(p)
  BY <1>1 DEF Start
<1>2. CASE Crash(p)
  BY <1>2 DEF Crash
<1>3. CASE LookForLock(p)
  BY <1>3 DEF LookForLock
<1>4. CASE LookForLease(p)
  BY <1>4 DEF LookForLease
<1>5. CASE CreateLock(p)
  BY <1>5 DEF CreateLock
<1>6. CASE WriteLock(p)
  BY <1>6 DEF WriteLock
<1>7. CASE UnlinkLock(p)
  BY <1>7 DEF UnlinkLock
<1>8. ASSUME NEW c \in Processes, Spawn(p, c) PROVE SeenOwnersAreDead'
  BY <1>8 DEF Spawn
<1>9. CASE TakeGuard(p)
  BY <1>9 DEF TakeGuard
<1>10. CASE ReleaseGuard(p)
  BY <1>10 DEF ReleaseGuard
<1>11. CASE RemoveLease(p)
  BY <1>11 DEF RemoveLease
<1>12. CASE RotateLock(p)
  BY <1>12 DEF RotateLock
<1>13. CASE CreateLease(p)
  BY <1>13 DEF CreateLease, Lease
<1>14. CASE WriteLease(p)
  BY <1>14 DEF WriteLease, Lease
<1>15. CASE UnlinkLease(p)
  BY <1>15 DEF UnlinkLease
<1>16. CASE LookingStep(p)
  BY <1>16, LookingChangesOnlyThePc, LookingKeeps, LookingAtTheLock
<1> QED
  BY StepCases, <1>1, <1>2, <1>3, <1>4, <1>5, <1>6, <1>7, <1>8, <1>9, <1>10, <1>11,
     <1>12, <1>13, <1>14, <1>15, <1>16

LEMMA TakeoverIsSafeStep ==
    ASSUME CarefulOperators, LockInv, CarefulInv,
           NEW p \in Processes, Start(p) \/ Run(p) \/ Crash(p)
    PROVE  TakeoverIsSafe'
<1> USE NoFileAssumption DEF LockInv, CarefulInv, TypeOK, Goto, files, TakeoverIsSafe, GuardIsHeld, Guarded, LockIsOwned, SeenOwnersAreDead, Ended, LockFile
<1>1. CASE Start(p)
  BY <1>1 DEF Start
<1>2. CASE Crash(p)
  BY <1>2 DEF Crash
<1>3. CASE LookForLock(p)
  BY <1>3 DEF LookForLock
<1>4. CASE LookForLease(p)
  BY <1>4 DEF LookForLease
<1>5. CASE CreateLock(p)
  BY <1>5 DEF CreateLock
<1>6. CASE WriteLock(p)
  BY <1>6 DEF WriteLock
<1>7. CASE UnlinkLock(p)
  BY <1>7 DEF UnlinkLock
<1>8. ASSUME NEW c \in Processes, Spawn(p, c) PROVE TakeoverIsSafe'
  BY <1>8 DEF Spawn
<1>9. CASE TakeGuard(p)
  BY <1>9 DEF TakeGuard
<1>10. CASE ReleaseGuard(p)
  BY <1>10 DEF ReleaseGuard
<1>11. CASE RemoveLease(p)
  BY <1>11 DEF RemoveLease
<1>12. CASE RotateLock(p)
  BY <1>12 DEF RotateLock
<1>13. CASE CreateLease(p)
  BY <1>13 DEF CreateLease, Lease
<1>14. CASE WriteLease(p)
  BY <1>14 DEF WriteLease, Lease
<1>15. CASE UnlinkLease(p)
  BY <1>15 DEF UnlinkLease
<1>16. CASE LookingStep(p)
  BY <1>16, LookingChangesOnlyThePc, LookingKeeps, LookingAtTheLock
<1> QED
  BY StepCases, <1>1, <1>2, <1>3, <1>4, <1>5, <1>6, <1>7, <1>8, <1>9, <1>10, <1>11,
     <1>12, <1>13, <1>14, <1>15, <1>16

LEMMA WrittenLock ==
    ASSUME NEW p \in Processes, NEW b \in BOOLEAN
    PROVE  [by |-> p, written |-> b] # NoFile
<1>1. [by |-> p, written |-> b] \in LockFile
  BY DEF LockFile
<1> QED
  BY <1>1, NoFileAssumption

LEMMA LockIsOwnedStep ==
    ASSUME CarefulOperators, LockInv, CarefulInv,
           NEW p \in Processes, Start(p) \/ Run(p) \/ Crash(p)
    PROVE  LockIsOwned'
<1> USE NoFileAssumption DEF LockInv, CarefulInv, TypeOK, Goto, files, LockIsOwned, TakeoverIsSafe, SeenOwnersAreDead, Ended, LockFile
<1>1. CASE Start(p)
  BY <1>1 DEF Start
<1>2. CASE Crash(p)
  BY <1>2 DEF Crash
<1>3. CASE LookForLock(p)
  BY <1>3 DEF LookForLock
<1>4. CASE LookForLease(p)
  BY <1>4 DEF LookForLease
<1>5. CASE CreateLock(p)
  <2>1. CASE lock = NoFile
    <3>1. lock' = [by |-> p, written |-> FALSE]
      BY <1>5, <2>1 DEF CreateLock
    <3>2. lock' # NoFile /\ lock'.by = p
      BY <3>1, WrittenLock
    <3> QED
      BY <1>5, <2>1, <3>2 DEF CreateLock
  <2>2. CASE lock # NoFile
    BY <1>5, <2>2 DEF CreateLock
  <2> QED
    BY <2>1, <2>2
<1>6. CASE WriteLock(p)
  BY <1>6, WrittenLock DEF WriteLock
<1>7. CASE UnlinkLock(p)
  BY <1>7 DEF UnlinkLock
<1>8. ASSUME NEW c \in Processes, Spawn(p, c) PROVE LockIsOwned'
  BY <1>8 DEF Spawn
<1>9. CASE TakeGuard(p)
  BY <1>9 DEF TakeGuard
<1>10. CASE ReleaseGuard(p)
  BY <1>10 DEF ReleaseGuard
<1>11. CASE RemoveLease(p)
  BY <1>11 DEF RemoveLease
<1>12. CASE RotateLock(p)
  BY <1>12, WrittenLock DEF RotateLock
<1>13. CASE CreateLease(p)
  BY <1>13 DEF CreateLease, Lease
<1>14. CASE WriteLease(p)
  BY <1>14 DEF WriteLease, Lease
<1>15. CASE UnlinkLease(p)
  <2>1. lock = [by |-> token[p], written |-> TRUE]
    BY <1>15 DEF UnlinkLease, LeaseUnderLock, LockIs, Holding
  <2>2. kind[p] = "single" => token[p] = p
    BY DEF KindFits
  <2>3. kind[p] = "single" => lock # NoFile /\ lock.by = p
    BY <2>1, <2>2, WrittenLock
  <2> QED
    BY <1>15, <2>3 DEF UnlinkLease
<1>16. CASE LookingStep(p)
  BY <1>16, LookingChangesOnlyThePc, LookingKeeps, LookingAtTheLock
<1> QED
  BY StepCases, <1>1, <1>2, <1>3, <1>4, <1>5, <1>6, <1>7, <1>8, <1>9, <1>10, <1>11,
     <1>12, <1>13, <1>14, <1>15, <1>16

LEMMA ParentsWaitStep ==
    ASSUME CarefulOperators, LockInv, CarefulInv,
           NEW p \in Processes, Start(p) \/ Run(p) \/ Crash(p)
    PROVE  ParentsWait'
<1> USE NoFileAssumption DEF LockInv, CarefulInv, TypeOK, Goto, files, ParentsWait, Live, Ended, KindFits, Coordinating, Owning, Executing, Children
<1>1. CASE Start(p)
  BY <1>1 DEF Start
<1>2. CASE Crash(p)
  BY <1>2 DEF Crash
<1>3. CASE LookForLock(p)
  BY <1>3 DEF LookForLock
<1>4. CASE LookForLease(p)
  BY <1>4 DEF LookForLease
<1>5. CASE CreateLock(p)
  BY <1>5 DEF CreateLock
<1>6. CASE WriteLock(p)
  BY <1>6 DEF WriteLock
<1>7. CASE UnlinkLock(p)
  BY <1>7 DEF UnlinkLock
<1>8. ASSUME NEW c \in Processes, Spawn(p, c) PROVE ParentsWait'
  BY <1>8 DEF Spawn
<1>9. CASE TakeGuard(p)
  BY <1>9 DEF TakeGuard
<1>10. CASE ReleaseGuard(p)
  BY <1>10 DEF ReleaseGuard
<1>11. CASE RemoveLease(p)
  BY <1>11 DEF RemoveLease
<1>12. CASE RotateLock(p)
  BY <1>12 DEF RotateLock
<1>13. CASE CreateLease(p)
  BY <1>13 DEF CreateLease, Lease
<1>14. CASE WriteLease(p)
  BY <1>14 DEF WriteLease, Lease
<1>15. CASE UnlinkLease(p)
  BY <1>15 DEF UnlinkLease
<1>16. CASE LookingStep(p)
  BY <1>16, LookingChangesOnlyThePc, LookingKeeps, LookingAtTheLock
<1> QED
  BY StepCases, <1>1, <1>2, <1>3, <1>4, <1>5, <1>6, <1>7, <1>8, <1>9, <1>10, <1>11,
     <1>12, <1>13, <1>14, <1>15, <1>16

LEMMA LeaseUnderLockStep ==
    ASSUME CarefulOperators, LockInv, CarefulInv,
           NEW p \in Processes, Start(p) \/ Run(p) \/ Crash(p)
    PROVE  LeaseUnderLock'
<1> USE NoFileAssumption DEF LockInv, CarefulInv, TypeOK, Goto, files, LeaseUnderLock, LockIs, Holding, LeaseIsHeld, TakeoverIsSafe, GuardIsHeld, Guarded, LockIsOwned, ParentsWait, KindFits, Live, Ended, Coordinating, Owning, Executing
<1>1. CASE Start(p)
  BY <1>1 DEF Start
<1>2. CASE Crash(p)
  BY <1>2 DEF Crash
<1>3. CASE LookForLock(p)
  BY <1>3 DEF LookForLock
<1>4. CASE LookForLease(p)
  BY <1>4 DEF LookForLease
<1>5. CASE CreateLock(p)
  <2>1. CASE lock = NoFile
    <3>1. \A q \in Processes : pc[q] \notin Holding \cup {"creatingLease"}
      BY <2>1, WrittenLock
    <3> QED
      BY <1>5, <3>1 DEF CreateLock
  <2>2. CASE lock # NoFile
    BY <1>5, <2>2 DEF CreateLock
  <2> QED
    BY <2>1, <2>2
<1>6. CASE WriteLock(p)
  BY <1>6 DEF WriteLock
<1>7. CASE UnlinkLock(p)
  BY <1>7 DEF UnlinkLock
<1>8. ASSUME NEW c \in Processes, Spawn(p, c) PROVE LeaseUnderLock'
  BY <1>8 DEF Spawn
<1>9. CASE TakeGuard(p)
  BY <1>9 DEF TakeGuard
<1>10. CASE ReleaseGuard(p)
  BY <1>10 DEF ReleaseGuard
<1>11. CASE RemoveLease(p)
  BY <1>11 DEF RemoveLease
<1>12. CASE RotateLock(p)
  BY <1>12 DEF RotateLock
<1>13. CASE CreateLease(p)
  BY <1>13 DEF CreateLease, Lease
<1>14. CASE WriteLease(p)
  BY <1>14 DEF WriteLease, Lease
<1>15. CASE UnlinkLease(p)
  BY <1>15 DEF UnlinkLease
<1>16. CASE LookingStep(p)
  BY <1>16, LookingChangesOnlyThePc, LookingKeeps, LookingAtTheLock
<1> QED
  BY StepCases, <1>1, <1>2, <1>3, <1>4, <1>5, <1>6, <1>7, <1>8, <1>9, <1>10, <1>11,
     <1>12, <1>13, <1>14, <1>15, <1>16

LEMMA CarefulInit == Init => CarefulInv
BY DEF Init, CarefulInv, KindFits, SeenOwnersAreDead, TakeoverIsSafe, LockIsOwned,
       ParentsWait, LeaseUnderLock, Coordinating, Owning, Executing, Holding

LEMMA CarefulNext ==
    CarefulOperators /\ LockInv /\ CarefulInv /\ [Next]_vars => CarefulInv'
<1>1. CarefulInv /\ UNCHANGED vars => CarefulInv'
  BY DEF CarefulInv, KindFits, SeenOwnersAreDead, TakeoverIsSafe, LockIsOwned,
         ParentsWait, LeaseUnderLock, LockIs, Live, Ended, vars
<1> QED
  BY <1>1, KindFitsStep, SeenOwnersAreDeadStep, TakeoverIsSafeStep, LockIsOwnedStep,
     ParentsWaitStep, LeaseUnderLockStep DEF Next, CarefulInv

LEMMA CarefulInvariant == ASSUME CarefulOperators PROVE Spec => []CarefulInv
BY CarefulInit, CarefulNext, LockInvariant, PTL DEF Spec

\* If the operators confirm only the lock of a dead process, as the runbook tells
\* them, a broadcast is always covered by its campaign's lock.
THEOREM BroadcastsAreCovered ==
    ASSUME CarefulOperators PROVE Spec => []BroadcastUnderItsLock
<1>1. CarefulInv => BroadcastUnderItsLock
  BY DEF CarefulInv, LeaseUnderLock, Holding, BroadcastUnderItsLock
<1> QED
  BY <1>1, CarefulInvariant, PTL

LEMMA TakeoverStep ==
    ASSUME LockInv, CarefulInv, NEW p \in Processes, Start(p) \/ Run(p) \/ Crash(p),
           lock # NoFile, lock' # NoFile, lock'.by # lock.by
    PROVE  /\ Ended(lock.by)
           /\ \A q \in Processes : token[q] = lock.by =>
                 pc[q] \notin {"cleared", "broadcasting"}
<1>1. RotateLock(p)
  <2>1. CASE CreateLock(p)
    BY <2>1 DEF CreateLock
  <2>2. CASE WriteLock(p)
    BY <2>2 DEF WriteLock
  <2>3. CASE UnlinkLock(p)
    BY <2>3 DEF UnlinkLock
  <2>4. CASE UNCHANGED lock
    BY <2>4
  <2>5. ASSUME NEW c \in Processes, Spawn(p, c) PROVE UNCHANGED lock
    BY <2>5 DEF Spawn, files
  <2>6. LookingStep(p) => UNCHANGED lock
    BY LookingChangesOnlyThePc
  <2> QED
    BY <2>1, <2>2, <2>3, <2>4, <2>5, <2>6, StepCases
       DEF Start, Crash, LookForLock, LookForLease, TakeGuard, ReleaseGuard,
           RemoveLease, CreateLease, WriteLease, UnlinkLease, files
<1>2. lock = seen[p].lock /\ lease = NoFile
  BY <1>1 DEF RotateLock, CarefulInv, TakeoverIsSafe
<1>3. Ended(lock.by)
  BY <1>2 DEF CarefulInv, SeenOwnersAreDead
<1>4. \A q \in Processes : pc[q] \notin {"cleared", "broadcasting"}
  BY <1>2 DEF LockInv, LeaseIsHeld, Holding
<1> QED
  BY <1>3, <1>4

\* Likewise, a takeover never deprives a live coordinator or a live executor.
THEOREM TakeoversAreFromTheDead ==
    ASSUME CarefulOperators PROVE Spec => TakeoverFromTheDead
<1>1. ASSUME LockInv, CarefulInv, [Next]_vars
      PROVE  [lock # NoFile /\ lock' # NoFile /\ lock'.by # lock.by =>
                    /\ Ended(lock.by)
                    /\ \A p \in Processes : token[p] = lock.by =>
                          pc[p] \notin {"cleared", "broadcasting"}]_vars
  <2>1. CASE UNCHANGED vars
    BY <2>1
  <2>2. CASE Next
    BY <1>1, <2>2, TakeoverStep DEF Next
  <2> QED
    BY <1>1, <2>1, <2>2
<1> QED
  BY <1>1, LockInvariant, CarefulInvariant, PTL DEF Spec, TakeoverFromTheDead

-----------------------------------------------------------------------------
(* The money of a campaign: the inductive invariant *)

\* The executor has a receipt of its own, and its funds were sufficient.
Working == {"reading", "planning", "checking", "operating", "signed", "waiting", "closing"}
Funded == {"operating", "signed", "waiting", "closing"}
\* Both assets have been accounted for.
Accounting == {"complete", "releasing", "finishing"}

SentStates == {"nothing", "signed", "pending", "mined", "lost"}
CampaignTypeOK ==
    /\ receipts \in [Assets -> Receipts \cup {NONE}]
    /\ sent \in [Assets -> SentStates]
    /\ asset \in Assets /\ step \in 0..(RESOLVE + 1)
    /\ purse \in [Holders -> Int]
    /\ stage = "planning" => view \in [Holders -> Int] /\ needed \in Int

\* What was signed for an asset, and what the chain has executed of it: all of it but
\* the last, as long as that is not mined.
SignedOf(a) == receipts[a].transactions
MinedOf(a) ==
    IF sent[a] = "nothing" THEN {}
    ELSE IF sent[a] = "mined" THEN SignedOf(a) ELSE SignedOf(a) \ {Last(a)}
Gift(a) == IF TOP_UP \in MinedOf(a) THEN receipts[a].topUp ELSE 0

\* What the assets before a leave it of the cap on top-ups.
Cap(a) == MAX_CAMPAIGN_TOP_UP - (IF a = "stx" THEN 0 ELSE receipts["stx"].topUp)

\* A top-up of nothing is not sent.
IsWanted(a, k) == k = TOP_UP => receipts[a].topUp > 0
HasMined(a, k) ==
    /\ k \in SignedOf(a)
    /\ sent[a] = "mined" \/ \E j \in SignedOf(a) : j > k

\* Operations are signed in their order, after a top-up that is within the cap.
SignedInOrder(a) ==
    /\ SignedOf(a) # {} => receipts[a].topUp \in Nat /\ receipts[a].topUp <= Cap(a)
    /\ TOP_UP \in SignedOf(a) => receipts[a].topUp > 0
    /\ \A k \in SignedOf(a), j \in Operations :
           j < k /\ IsWanted(a, j) => j \in SignedOf(a)
    /\ sent[a] = "nothing" <=> SignedOf(a) = {}

PassedIsSettled(a) ==
    /\ receipts[a].clean /\ receipts[a].topUp \in Nat /\ sent[a] = "mined"
    /\ receipts[a].topUp > 0 => TOP_UP \in SignedOf(a)
    /\ receipts[a].fees = FeesFor(SignedOf(a))

ReceiptInv(a) ==
    /\ receipts[a] = NONE => sent[a] = "nothing"
    /\ receipts[a] # NONE => SignedInOrder(a) /\ \A b \in Before(a) : IsPassed(b)
    /\ IsPassed(a) => PassedIsSettled(a)
ReceiptsInv == \A a \in Assets : ReceiptInv(a)

\* The chain has taken the fees, and moved the top-ups, of what it executed.
MoneyInv ==
    /\ paid = FeesFor(MinedOf("stx")) + FeesFor(MinedOf("sbtc"))
    /\ given = Gift("stx") + Gift("sbtc")

ProcessInv ==
    /\ \A b \in Before(asset) : IsPassed(b)
    /\ stage \in Working =>
         receipts[asset] # NONE /\ receipts[asset].result = "running" /\ receipts[asset].clean
    /\ stage \in Funded \cup {"checking"} => receipts[asset].topUp \in Nat
    /\ stage \in Funded =>
         /\ receipts[asset].topUp <= Cap(asset)
         /\ \A j \in Operations : j < step /\ IsWanted(asset, j) => HasMined(asset, j)
    /\ stage \in {"operating", "signed", "waiting"} => step \in Operations
    /\ stage = "signed" => sent[asset] = "signed"
    /\ stage = "closing" => step = RESOLVE + 1

\* The sums of the manifest are those of both receipts.
Accounted ==
    /\ \A a \in Assets : IsPassed(a)
    /\ manifest.topUp = receipts["stx"].topUp + receipts["sbtc"].topUp
    /\ manifest.fees = receipts["stx"].fees + receipts["sbtc"].fees

IsManifest(m) == m = [result |-> m.result, assets |-> m.assets, topUp |-> m.topUp, fees |-> m.fees]
ManifestInv ==
    /\ manifest # NONE \/ stage # "idle" =>
         /\ IsManifest(manifest)
         /\ manifest.result = "passed" => stage = "idle" /\ Accounted /\ ~locked
    /\ stage \in Accounting => Accounted
    /\ stage = "finishing" => ~locked

CampaignInv == CampaignTypeOK /\ ReceiptsInv /\ MoneyInv /\ ProcessInv /\ ManifestInv

-----------------------------------------------------------------------------
(* The money of a campaign: sums *)

LEMMA FeesAdd ==
    ASSUME NEW S, S \subseteq Operations, NEW k \in Operations, k \notin S
    PROVE  FeesFor(S) \in Int /\ FeesFor(S \cup {k}) = FeesFor(S) + FeeOf(k)
<1> DEFINE R == S \cup {k}
           f == [j \in R |-> FeeOf(j)]
           g == [j \in S |-> FeeOf(j)]
<1>1. IsFiniteSet(S)
  <2>1. S \in SUBSET Nat /\ RESOLVE \in Nat /\ \A j \in S : j <= RESOLVE
    BY DEF Operations, RESOLVE
  <2> QED
    BY <2>1, FS_BoundedSetOfNaturals
<1>2. \A j \in Operations : FeeOf(j) \in Int
  BY DEF FeeOf, CALL_FEE, TOP_UP_TRANSFER_FEE
<1>3. (\A x \in S \cup {k} : f[x] \in Int) /\ (\A x \in S : g[x] = f[x]) /\ f[k] = FeeOf(k)
  BY <1>2
<1> HIDE DEF f, g
<1>4. Total(g, S) \in Int /\ Total(f, S \cup {k}) = Total(g, S) + f[k]
  BY <1>1, <1>3, TotalAdds
<1> QED
  BY <1>3, <1>4 DEF FeesFor, f, g

LEMMA FeesOfNone == FeesFor({}) = 0
BY TotalOfNone DEF FeesFor

\* What some of the operations cost is between nothing and what all of them cost.
FeesUpTo(n) == TOP_UP_TRANSFER_FEE + n * CALL_FEE
LEMMA FeesBounded ==
    ASSUME NEW S, S \subseteq Operations
    PROVE  FeesFor(S) \in Nat /\ FeesFor(S) <= FeesUpTo(RESOLVE)
<1> DEFINE N == {n \in Nat : n <= RESOLVE =>
                    FeesFor(S \cap 0..n) \in Nat /\ FeesFor(S \cap 0..n) <= FeesUpTo(n)}
<1>1. 0 \in N
  <2>1. CASE 0 \in S
    <3>1. S \cap 0..0 = {} \cup {0} /\ 0 \in Operations
      BY <2>1 DEF Operations
    <3>2. FeesFor({} \cup {0}) = 0 + FeeOf(0)
      BY <3>1, FeesAdd, FeesOfNone
    <3> QED
      BY <3>1, <3>2 DEF FeeOf, FeesUpTo, TOP_UP, TOP_UP_TRANSFER_FEE, CALL_FEE
  <2>2. CASE 0 \notin S
    <3>1. S \cap 0..0 = {}
      BY <2>2
    <3> QED
      BY <3>1, FeesOfNone DEF FeesUpTo, TOP_UP_TRANSFER_FEE, CALL_FEE
  <2> QED
    BY <2>1, <2>2
<1>2. ASSUME NEW n \in Nat, n \in N PROVE n + 1 \in N
  <2> SUFFICES ASSUME n + 1 <= RESOLVE
               PROVE  /\ FeesFor(S \cap 0..(n + 1)) \in Nat
                      /\ FeesFor(S \cap 0..(n + 1)) <= FeesUpTo(n + 1)
    OBVIOUS
  <2>1. FeesFor(S \cap 0..n) \in Nat /\ FeesFor(S \cap 0..n) <= FeesUpTo(n)
    BY <1>2 DEF RESOLVE
  <2>2. CASE n + 1 \in S
    <3>1. S \cap 0..(n + 1) = (S \cap 0..n) \cup {n + 1} /\ n + 1 \notin S \cap 0..n
      BY <2>2
    <3>2. S \cap 0..n \subseteq Operations /\ n + 1 \in Operations
      BY <2>2
    <3>3. FeesFor((S \cap 0..n) \cup {n + 1}) = FeesFor(S \cap 0..n) + FeeOf(n + 1)
      BY <3>1, <3>2, FeesAdd
    <3>4. FeeOf(n + 1) = CALL_FEE /\ FeesUpTo(n + 1) = FeesUpTo(n) + CALL_FEE
      BY DEF FeeOf, TOP_UP, FeesUpTo, CALL_FEE, TOP_UP_TRANSFER_FEE
    <3>5. FeesUpTo(n) \in Nat /\ CALL_FEE \in Nat
      BY DEF FeesUpTo, CALL_FEE, TOP_UP_TRANSFER_FEE
    <3> QED
      BY <2>1, <3>1, <3>3, <3>4, <3>5
  <2>3. CASE n + 1 \notin S
    <3>1. S \cap 0..(n + 1) = S \cap 0..n
      BY <2>3
    <3>2. FeesUpTo(n) <= FeesUpTo(n + 1) /\ FeesUpTo(n) \in Nat /\ FeesUpTo(n + 1) \in Nat
      BY DEF FeesUpTo, CALL_FEE, TOP_UP_TRANSFER_FEE
    <3> QED
      BY <2>1, <3>1, <3>2
  <2> QED
    BY <2>2, <2>3
<1>3. RESOLVE \in N
  <2> HIDE DEF N
  <2>1. Nat \subseteq N
    BY <1>1, <1>2, SetInduction
  <2> QED
    BY <2>1 DEF RESOLVE
<1>4. S \cap 0..RESOLVE = S
  BY DEF Operations
<1> QED
  BY <1>3, <1>4

\* A sum over both assets, or one of them.
Both(f) == f["stx"] + f["sbtc"]
LEMMA SumOfAssets ==
    ASSUME NEW f, NEW g
    PROVE  /\ Total(f, {}) = 0
           /\ f["stx"] \in Int => Total(f, {"stx"}) = f["stx"]
           /\ f["stx"] \in Int /\ f["sbtc"] \in Int /\ g["stx"] = f["stx"] =>
                  Total(f, {"stx"} \cup {"sbtc"}) = f["stx"] + f["sbtc"]
<1>1. Total(f, {}) = 0 /\ IsFiniteSet({}) /\ {} \cup {"stx"} = {"stx"}
  BY TotalOfNone, FS_EmptySet
<1>2. ASSUME NEW h, h["stx"] \in Int PROVE Total(h, {"stx"}) = h["stx"]
  <2>1. Total(h, {} \cup {"stx"}) = Total(h, {}) + h["stx"]
    BY <1>1, <1>2, TotalAdds
  <2> QED
    BY <1>1, <1>2, <2>1, TotalOfNone
<1>3. ASSUME f["stx"] \in Int, f["sbtc"] \in Int, g["stx"] = f["stx"]
      PROVE  Total(f, {"stx"} \cup {"sbtc"}) = f["stx"] + f["sbtc"]
  <2>1. IsFiniteSet({"stx"}) /\ "sbtc" \notin {"stx"}
    BY FS_Singleton
  <2>2. Total(f, {"stx"} \cup {"sbtc"}) = Total(g, {"stx"}) + f["sbtc"]
    <3>1. (\A x \in {"stx"} \cup {"sbtc"} : f[x] \in Int) /\ \A x \in {"stx"} : g[x] = f[x]
      BY <1>3
    <3> QED
      BY <2>1, <3>1, TotalAdds
  <2>3. Total(g, {"stx"}) = f["stx"]
    BY <1>2, <1>3
  <2> QED
    BY <2>2, <2>3
<1> QED
  BY <1>1, <1>2, <1>3

-----------------------------------------------------------------------------
(* The money of a campaign: what a step may leave alone *)

LEMMA Maximum ==
    ASSUME NEW S, S \subseteq Operations, S # {}
    PROVE  Max(S) \in S /\ \A x \in S : x <= Max(S)
<1> DEFINE N == {n \in Nat : n <= RESOLVE /\ RESOLVE - n \in S}
<1>1. N \subseteq Nat /\ N # {}
  <2>1. PICK x : x \in S
    OBVIOUS
  <2>2. RESOLVE - x \in N
    BY <2>1 DEF Operations, RESOLVE
  <2> QED
    BY <2>2
<1>2. PICK n \in N : \A m \in N : n <= m
  <2> HIDE DEF N
  <2> QED
    BY <1>1, LeastNumber
<1>3. RESOLVE - n \in S /\ \A x \in S : RESOLVE - n >= x
  <2> SUFFICES ASSUME NEW x \in S PROVE RESOLVE - n >= x
    BY <1>2
  <2>1. RESOLVE - x \in N /\ x \in Nat
    BY DEF Operations, RESOLVE
  <2>2. n <= RESOLVE - x /\ n \in Nat
    BY <1>2, <2>1
  <2> QED
    BY <2>1, <2>2 DEF RESOLVE
<1> HIDE DEF N
<1>4. Max(S) \in S /\ \A x \in S : Max(S) >= x
  BY <1>3 DEF Max
<1>5. S \subseteq Int
  BY DEF Operations, RESOLVE
<1> HIDE DEF Max
<1> QED
  BY <1>4, <1>5

LEMMA ReceiptTypes ==
    ASSUME CampaignTypeOK, NEW a \in Assets
    PROVE  /\ receipts[a] # NONE =>
                /\ receipts[a] \in Receipts
                /\ SignedOf(a) \subseteq Operations
           /\ sent[a] \in SentStates
BY DEF CampaignTypeOK, Receipts, SignedOf

\* Left, as MarkStarted, NewReceipt and CheckFunds read it.
LEMMA LeftIsCap ==
    ASSUME CampaignTypeOK, ReceiptsInv, NEW a \in Assets, \A b \in Before(a) : IsPassed(b)
    PROVE  /\ Left(a) \in [topUp : Int, fees : Int]
           /\ Left(a).topUp = Cap(a) /\ Cap(a) \in Int
<1>1. CASE a = "stx"
  <2>1. Before(a) = {}
    BY <1>1 DEF Before
  <2>2. TopUps({}) = 0 /\ Fees({}) = 0
    BY TotalOfNone DEF TopUps, Fees
  <2>3. Left(a) = [topUp |-> MAX_CAMPAIGN_TOP_UP - 0, fees |-> MAX_CAMPAIGN_NETWORK_FEES - 0]
    BY <2>1, <2>2 DEF Left, FeesLeft
  <2> QED
    BY <1>1, <2>3 DEF Cap, MAX_CAMPAIGN_TOP_UP, MAX_CAMPAIGN_NETWORK_FEES
<1>2. CASE a = "sbtc"
  <2>1. Before(a) = {"stx"} /\ "stx" \in Assets
    BY <1>2 DEF Before, Assets
  <2>2. PassedIsSettled("stx") /\ receipts["stx"] # NONE
    BY <2>1 DEF ReceiptsInv, ReceiptInv, IsPassed
  <2>3. receipts["stx"].topUp \in Nat /\ receipts["stx"].fees \in Nat
    BY <2>1, <2>2, ReceiptTypes, FeesBounded DEF PassedIsSettled
  <2> DEFINE t == [b \in {"stx"} |-> receipts[b].topUp]
             f == [b \in {"stx"} |-> receipts[b].fees]
  <2>4. t["stx"] = receipts["stx"].topUp /\ f["stx"] = receipts["stx"].fees
    OBVIOUS
  <2>5. TopUps({"stx"}) = Total(t, {"stx"}) /\ Fees({"stx"}) = Total(f, {"stx"})
    BY DEF TopUps, Fees
  <2> HIDE DEF t, f
  <2>6. TopUps({"stx"}) = receipts["stx"].topUp /\ Fees({"stx"}) = receipts["stx"].fees
    BY <2>3, <2>4, <2>5, SumOfAssets
  <2>7. Left(a) = [topUp |-> MAX_CAMPAIGN_TOP_UP - receipts["stx"].topUp,
                   fees |-> MAX_CAMPAIGN_NETWORK_FEES - receipts["stx"].fees]
    BY <2>1, <2>6 DEF Left, FeesLeft
  <2> QED
    BY <1>2, <2>3, <2>7 DEF Cap, MAX_CAMPAIGN_TOP_UP, MAX_CAMPAIGN_NETWORK_FEES
<1> QED
  BY <1>1, <1>2 DEF Assets

LEMMA ReceiptsStay ==
    ASSUME ReceiptsInv, UNCHANGED <<receipts, sent>>
    PROVE  ReceiptsInv'
BY DEF ReceiptsInv, ReceiptInv, SignedInOrder, PassedIsSettled, SignedOf, Cap, IsWanted,
       IsPassed

LEMMA MoneyStays ==
    ASSUME MoneyInv, UNCHANGED <<given, paid>>,
           \A a \in Assets : MinedOf(a)' = MinedOf(a) /\ Gift(a)' = Gift(a)
    PROVE  MoneyInv'
BY DEF MoneyInv, Assets

LEMMA MinedStays ==
    ASSUME UNCHANGED <<receipts, sent>>, NEW a \in Assets
    PROVE  MinedOf(a)' = MinedOf(a) /\ Gift(a)' = Gift(a)
BY DEF MinedOf, Gift, SignedOf, Last

\* While a receipt that has not passed is written, the other asset's stays as it is.
LEMMA OtherStays ==
    ASSUME CampaignTypeOK, ReceiptsInv, NEW q, ~IsPassed(asset), NEW b \in Assets, b # asset,
           receipts' = [receipts EXCEPT ![asset] = q], sent'[b] = sent[b]
    PROVE  ReceiptInv(b)' /\ MinedOf(b)' = MinedOf(b) /\ Gift(b)' = Gift(b)
<1>1. receipts'[b] = receipts[b]
  BY DEF CampaignTypeOK
<1>2. MinedOf(b)' = MinedOf(b) /\ Gift(b)' = Gift(b)
  BY <1>1 DEF MinedOf, Gift, SignedOf, Last
<1>3. CASE b = "stx"
  BY <1>1, <1>2, <1>3 DEF ReceiptsInv, ReceiptInv, SignedInOrder, PassedIsSettled, SignedOf, Cap,
                     IsWanted, IsPassed, Before
<1>4. CASE b = "sbtc"
  <2>1. asset = "stx"
    BY <1>4 DEF CampaignTypeOK, Assets
  <2>2. receipts[b] = NONE /\ sent[b] = "nothing"
    BY <1>4, <2>1 DEF ReceiptsInv, ReceiptInv, Before
  <2> QED
    BY <1>1, <1>2, <2>2 DEF ReceiptInv, IsPassed
<1> QED
  BY <1>3, <1>4 DEF Assets

\* A receipt is written anew with the operations it had, and once there is one, with
\* the top-up it had.
Keeps(q) ==
    /\ q \in Receipts /\ q.result = "running"
    /\ q.transactions = SignedOf(asset)
    /\ SignedOf(asset) # {} => q.topUp = receipts[asset].topUp

LEMMA RewrittenReceipt ==
    ASSUME CampaignInv, stage \in Working, NEW a \in Assets, a = asset, NEW q, Keeps(q),
           receipts' = [receipts EXCEPT ![a] = q], UNCHANGED <<sent, given, paid>>
    PROVE  ReceiptsInv' /\ MoneyInv' /\ receipts' \in [Assets -> Receipts \cup {NONE}]
<1> USE DEF CampaignInv
<1>1. receipts[a] # NONE /\ ~IsPassed(asset)
  BY DEF ProcessInv, IsPassed
<1>2. receipts'[a] = q /\ receipts' \in [Assets -> Receipts \cup {NONE}]
  BY DEF CampaignTypeOK, Keeps
<1>3. SignedOf(a)' = SignedOf(a) /\ sent'[a] = sent[a]
  BY <1>2 DEF SignedOf, Keeps
<1>4. MinedOf(a)' = MinedOf(a)
  BY <1>3 DEF MinedOf, Last, SignedOf
<1>5. SignedInOrder(a) /\ \A b \in Before(a) : IsPassed(b)
  BY <1>1 DEF ReceiptsInv, ReceiptInv
<1>6. SignedOf(a) # {} => receipts'[a].topUp = receipts[a].topUp
  BY <1>2 DEF Keeps
<1>7. MinedOf(a) \subseteq SignedOf(a)
  BY DEF MinedOf
<1>8. Gift(a)' = Gift(a)
  BY <1>4, <1>6, <1>7 DEF Gift
<1>9. SignedInOrder(a)'
  <2>1. CASE SignedOf(a) = {}
    BY <1>3, <1>5, <2>1 DEF SignedInOrder
  <2>2. CASE SignedOf(a) # {}
    <3>1. Cap(a)' = Cap(a)
      <4>1. a # "stx" => receipts'["stx"] = receipts["stx"]
        BY DEF CampaignTypeOK, Assets
      <4> QED
        BY <4>1 DEF Cap
    <3>2. receipts'[a].topUp = receipts[a].topUp
      BY <1>6, <2>2
    <3>3. \A j : IsWanted(a, j)' <=> IsWanted(a, j)
      BY <3>2 DEF IsWanted
    <3> QED
      BY <1>3, <1>5, <3>1, <3>2, <3>3 DEF SignedInOrder
  <2> QED
    BY <2>1, <2>2
<1>10. \A b \in Before(a) : IsPassed(b)'
  <2>1. \A b \in Before(a) : b # a /\ b \in Assets
    BY DEF Before, Assets
  <2>2. \A b \in Before(a) : receipts'[b] = receipts[b]
    BY <2>1 DEF CampaignTypeOK
  <2> QED
    BY <1>5, <2>2 DEF IsPassed
<1>11. ReceiptInv(a)'
  <2>1. receipts'[a] # NONE /\ ~IsPassed(a)'
    BY <1>2, NoneAssumption DEF Keeps, IsPassed
  <2> QED
    BY <1>9, <1>10, <2>1 DEF ReceiptInv
<1>12. \A b \in Assets : b # a => ReceiptInv(b)' /\ MinedOf(b)' = MinedOf(b) /\ Gift(b)' = Gift(b)
  BY <1>1, OtherStays
<1> QED
  BY <1>2, <1>4, <1>8, <1>11, <1>12, MoneyStays DEF ReceiptsInv

-----------------------------------------------------------------------------
(* The money of a campaign: the coordinator, and whatever stops *)

Stopped == [manifest EXCEPT !.result = "reconciliation-required"]

LEMMA ManifestInWork ==
    ASSUME ManifestInv, stage # "idle", stage' \notin Accounting,
           manifest' = manifest \/ manifest' = Stopped
    PROVE  ManifestInv'
<1>1. IsManifest(manifest) /\ manifest.result # "passed"
  BY DEF ManifestInv
<1>2. IsManifest(Stopped) /\ Stopped.result = "reconciliation-required"
  <2>1. Stopped = [result |-> "reconciliation-required", assets |-> manifest.assets,
                   topUp |-> manifest.topUp, fees |-> manifest.fees]
    BY <1>1 DEF Stopped, IsManifest
  <2> HIDE DEF Stopped
  <2> QED
    BY <2>1 DEF IsManifest
<1>3. IsManifest(manifest)' /\ manifest'.result # "passed"
  BY <1>1, <1>2 DEF IsManifest
<1> QED
  BY <1>3 DEF ManifestInv, Accounting

LEMMA OutsideWork ==
    ASSUME ProcessInv, UNCHANGED <<asset, receipts>>, stage' \notin Working
    PROVE  ProcessInv'
BY DEF ProcessInv, Working, Funded, IsPassed, Before

LEMMA TypesStay ==
    ASSUME CampaignTypeOK, UNCHANGED <<receipts, sent, purse>>, asset' \in Assets,
           step' \in 0..(RESOLVE + 1), stage' # "planning"
    PROVE  CampaignTypeOK'
BY DEF CampaignTypeOK

\* A step that neither writes a receipt nor has to do with the chain.
LEMMA QuietStep ==
    ASSUME CampaignInv, UNCHANGED <<receipts, sent, given, paid>>, CampaignTypeOK',
           ProcessInv', ManifestInv'
    PROVE  CampaignInv'
BY ReceiptsStay, MinedStays, MoneyStays DEF CampaignInv

LEMMA Stops ==
    ASSUME CampaignInv, stage # "idle", stage' = "idle",
           manifest' = manifest \/ manifest' = Stopped, step' \in 0..(RESOLVE + 1),
           UNCHANGED <<receipts, asset, sent, purse, given, paid>>
    PROVE  CampaignInv'
<1>1. ManifestInv'
  BY ManifestInWork DEF CampaignInv, Accounting
<1>2. ProcessInv'
  BY OutsideWork DEF CampaignInv, Working
<1>3. CampaignTypeOK'
  BY TypesStay DEF CampaignInv, CampaignTypeOK
<1> QED
  BY <1>1, <1>2, <1>3, QuietStep

LEMMA FailedReceipt ==
    ASSUME NEW r \in Receipts
    PROVE  LET q == [r EXCEPT !.clean = FALSE]
           IN  /\ q \in Receipts /\ q.result = r.result /\ q.transactions = r.transactions
               /\ q.topUp = r.topUp
BY DEF Receipts

LEMMA Fails ==
    ASSUME CampaignInv, stage \in Working, Fail, step' \in 0..(RESOLVE + 1),
           UNCHANGED <<asset, sent, purse, given, paid>>
    PROVE  CampaignInv'
<1> DEFINE q == [receipts[asset] EXCEPT !.clean = FALSE]
<1>1. stage # "idle" /\ stage' = "idle" /\ manifest' = Stopped
  BY DEF Fail, Stop, Stopped, Working
<1>2. receipts' = [receipts EXCEPT ![asset] = q]
  BY DEF Fail, Write, receipt
<1>3. asset \in Assets /\ receipts[asset] \in Receipts /\ receipts[asset].result = "running"
  BY ReceiptTypes DEF CampaignInv, ProcessInv, CampaignTypeOK
<1>4. Keeps(q)
  BY <1>3, FailedReceipt DEF Keeps, SignedOf
<1> HIDE DEF q
<1>5. PICK a \in Assets : a = asset
  BY <1>3
<1>6. receipts' = [receipts EXCEPT ![a] = q]
  BY <1>2, <1>5
<1>7. ReceiptsInv' /\ MoneyInv' /\ receipts' \in [Assets -> Receipts \cup {NONE}]
  BY <1>4, <1>5, <1>6, RewrittenReceipt
<1>8. ManifestInv'
  BY <1>1, ManifestInWork DEF CampaignInv, Accounting
<1>9. ProcessInv'
  <2>1. \A b \in Before(asset) : IsPassed(b) /\ b # asset /\ b \in Assets
    BY DEF CampaignInv, ProcessInv, Before, Assets
  <2>2. \A b \in Before(asset) : receipts'[b] = receipts[b]
    BY <1>2, <2>1 DEF CampaignInv, CampaignTypeOK
  <2>3. \A b \in Before(asset)' : IsPassed(b)'
    BY <2>1, <2>2 DEF IsPassed, Before
  <2> QED
    BY <1>1, <2>3 DEF ProcessInv, Working, Funded
<1>10. CampaignTypeOK'
  BY <1>1, <1>7 DEF CampaignInv, CampaignTypeOK
<1> QED
  BY <1>7, <1>8, <1>9, <1>10 DEF CampaignInv

LEMMA BeginKeeps == ASSUME CampaignInv, Begin PROVE CampaignInv'
<1>1. stage = "idle" /\ stage' = "locking" /\ asset' = "stx"
  BY DEF Begin, Enter
<1>2. UNCHANGED <<receipts, sent, given, paid, purse, step>>
  BY DEF Begin, chainVars
<1>3. CampaignTypeOK'
  BY <1>1, <1>2, TypesStay DEF CampaignInv, CampaignTypeOK, Assets
<1>4. ProcessInv'
  BY <1>1 DEF ProcessInv, Before, Working, Funded
<1>5. IsManifest(manifest)' /\ manifest'.result # "passed"
  <2>1. CASE manifest = NONE
    BY <2>1 DEF Begin, NewManifest, IsManifest
  <2>2. CASE manifest # NONE
    BY <2>2 DEF Begin, CampaignInv, ManifestInv, IsManifest
  <2> QED
    BY <2>1, <2>2
<1>6. ManifestInv'
  BY <1>1, <1>5 DEF ManifestInv, Accounting
<1> QED
  BY <1>2, <1>3, <1>4, <1>6, QuietStep

\* What the coordinator does besides accounting.
LEMMA CoordinatorKeeps ==
    ASSUME CampaignInv, TakeLock \/ MarkStarted \/ Complete \/ Release \/ Finish
    PROVE  CampaignInv'
<1>1. UNCHANGED <<receipts, sent, given, paid, purse, step, asset>>
  BY DEF TakeLock, MarkStarted, Complete, Release, Finish, chainVars
<1>2. stage' \notin Working /\ stage # "idle"
  BY DEF TakeLock, MarkStarted, Complete, Release, Finish, Enter, Stop, Working
<1>3. CampaignTypeOK'
  BY <1>1, <1>2, TypesStay DEF CampaignInv, CampaignTypeOK, Working
<1>4. ProcessInv'
  BY <1>1, <1>2, OutsideWork DEF CampaignInv
<1>5. IsManifest(manifest) /\ manifest.result # "passed"
  BY <1>2 DEF CampaignInv, ManifestInv
<1>6. ManifestInv'
  <2>1. CASE TakeLock
    BY <1>2, <2>1, ManifestInWork DEF TakeLock, Enter, Accounting, CampaignInv
  <2>2. CASE MarkStarted
    <3>1. stage' \notin Accounting
      BY <2>2 DEF MarkStarted, Enter, Stop, Accounting
    <3>2. CASE UNCHANGED manifest
      BY <1>2, <3>1, <3>2, ManifestInWork DEF CampaignInv
    <3>3. CASE Stop
      BY <1>2, <3>1, <3>3, ManifestInWork DEF CampaignInv, Stop, Stopped
    <3>4. CASE manifest' = [manifest EXCEPT !.assets[asset] = Started(asset)]
      <4> DEFINE assets == [manifest.assets EXCEPT ![asset] = Started(asset)]
      <4>1. manifest' = [result |-> manifest.result, assets |-> assets,
                         topUp |-> manifest.topUp, fees |-> manifest.fees]
        BY <1>5, <3>4 DEF IsManifest
      <4> HIDE DEF assets
      <4>2. IsManifest(manifest)' /\ manifest'.result # "passed"
        BY <1>5, <4>1 DEF IsManifest
      <4> QED
        BY <3>1, <4>2 DEF ManifestInv, Accounting
    <3> QED
      BY <2>2, <3>2, <3>3, <3>4 DEF MarkStarted
  <2>3. CASE Complete
    <3>1. manifest' = [result |-> "transactions-complete", assets |-> manifest.assets,
                       topUp |-> manifest.topUp, fees |-> manifest.fees]
      BY <1>5, <2>3 DEF Complete, IsManifest
    <3>2. Accounted /\ stage' = "releasing"
      BY <2>3 DEF Complete, Enter, CampaignInv, ManifestInv, Accounting
    <3> QED
      BY <1>1, <3>1, <3>2 DEF ManifestInv, Accounted, IsPassed, IsManifest
  <2>4. CASE Release
    BY <1>1, <1>5, <2>4
       DEF Release, Enter, CampaignInv, ManifestInv, Accounting, Accounted, IsPassed, IsManifest
  <2>5. CASE Finish
    <3>1. manifest' = [result |-> "passed", assets |-> manifest.assets,
                       topUp |-> manifest.topUp, fees |-> manifest.fees]
      BY <1>5, <2>5 DEF Finish, IsManifest
    <3>2. Accounted /\ ~locked /\ stage' = "idle" /\ UNCHANGED locked
      BY <2>5 DEF Finish, Enter, CampaignInv, ManifestInv, Accounting
    <3> QED
      BY <1>1, <3>1, <3>2 DEF ManifestInv, Accounted, IsPassed, IsManifest, Accounting
  <2> QED
    BY <2>1, <2>2, <2>3, <2>4, <2>5
<1> QED
  BY <1>1, <1>3, <1>4, <1>6, QuietStep

LEMMA CollectKeeps == ASSUME CampaignInv, Collect PROVE CampaignInv'
<1>1. UNCHANGED <<receipts, sent, given, paid, purse, step>> /\ IsPassed(asset) /\ stage # "idle"
  BY DEF Collect, chainVars
<1>2. CASE Stop /\ UNCHANGED asset
  <2>1. stage' = "idle" /\ manifest' = Stopped /\ step' \in 0..(RESOLVE + 1)
    BY <1>1, <1>2 DEF Stop, Stopped, CampaignInv, CampaignTypeOK
  <2> QED
    BY <1>1, <1>2, <2>1, Stops
<1>3. CASE Account(asset) /\ GoOn
  <2>1. stage' \notin Working \cup {"idle"} /\ asset' \in Assets
    BY <1>3 DEF GoOn, Enter, Working, Assets, CampaignInv, CampaignTypeOK
  <2>2. CampaignTypeOK'
    BY <1>1, <2>1, TypesStay DEF CampaignInv, CampaignTypeOK, Working
  <2>3. \A b \in Before(asset)' : IsPassed(b)'
    BY <1>1, <1>3 DEF GoOn, Before, IsPassed, CampaignInv, ProcessInv
  <2>4. ProcessInv'
    BY <2>1, <2>3 DEF ProcessInv, Working, Funded
  <2>5. IsManifest(manifest) /\ manifest.result # "passed"
    BY <1>1 DEF CampaignInv, ManifestInv
  <2> DEFINE assets == [manifest.assets EXCEPT ![asset] = Passed(asset)]
             sum == TopUps(Before(asset) \cup {asset})
             fees == Fees(Before(asset) \cup {asset})
  <2>6. manifest' = [result |-> manifest.result, assets |-> assets, topUp |-> sum, fees |-> fees]
    BY <1>3, <2>5 DEF Account, IsManifest
  <2>7. stage' \in Accounting => Accounted'
    <3> SUFFICES ASSUME stage' \in Accounting PROVE Accounted'
      OBVIOUS
    <3>1. asset = "sbtc"
      BY <1>3 DEF GoOn, Enter, Accounting, CampaignInv, CampaignTypeOK, Assets
    <3>2. IsPassed("stx") /\ IsPassed("sbtc") /\ Before(asset) \cup {asset} = {"stx"} \cup {"sbtc"}
      BY <1>1, <3>1 DEF CampaignInv, ProcessInv, Before
    <3>3. \A b \in Assets : PassedIsSettled(b) /\ receipts[b] # NONE
      BY <3>2 DEF CampaignInv, ReceiptsInv, ReceiptInv, Assets, IsPassed
    <3>4. \A b \in Assets : receipts[b].topUp \in Int /\ receipts[b].fees \in Int
      BY <3>3, ReceiptTypes, FeesBounded DEF PassedIsSettled, CampaignInv
    <3> DEFINE both == {"stx"} \cup {"sbtc"}
               t == [b \in both |-> receipts[b].topUp]
               f == [b \in both |-> receipts[b].fees]
    <3>5. /\ t["stx"] = receipts["stx"].topUp /\ t["sbtc"] = receipts["sbtc"].topUp
          /\ f["stx"] = receipts["stx"].fees /\ f["sbtc"] = receipts["sbtc"].fees
      OBVIOUS
    <3>6. sum = Total(t, both) /\ fees = Total(f, both)
      BY <3>2 DEF TopUps, Fees
    <3> HIDE DEF t, f, sum, fees
    <3>7. t["stx"] \in Int /\ t["sbtc"] \in Int /\ f["stx"] \in Int /\ f["sbtc"] \in Int
      BY <3>4, <3>5 DEF Assets
    <3>8. Total(t, both) = t["stx"] + t["sbtc"] /\ Total(f, both) = f["stx"] + f["sbtc"]
      BY <3>7, SumOfAssets
    <3>9. sum = receipts["stx"].topUp + receipts["sbtc"].topUp
          /\ fees = receipts["stx"].fees + receipts["sbtc"].fees
      BY <3>5, <3>6, <3>8
    <3> QED
      BY <1>1, <2>6, <3>2, <3>9 DEF Accounted, Assets, IsPassed
  <2> HIDE DEF assets, sum, fees
  <2>8. IsManifest(manifest)' /\ manifest'.result # "passed" /\ stage' # "finishing"
    BY <1>3, <2>5, <2>6 DEF IsManifest, GoOn, Enter
  <2>9. ManifestInv'
    BY <2>7, <2>8 DEF ManifestInv
  <2> QED
    BY <1>1, <2>2, <2>4, <2>9, QuietStep
<1> QED
  BY <1>2, <1>3 DEF Collect

-----------------------------------------------------------------------------
(* The money of a campaign: the executor before its transactions *)

LEMMA ProgressStays ==
    ASSUME UNCHANGED <<receipts, sent>>, NEW a
    PROVE  /\ Cap(a)' = Cap(a)
           /\ \A j : (HasMined(a, j)' <=> HasMined(a, j)) /\ (IsWanted(a, j)' <=> IsWanted(a, j))
BY DEF Cap, HasMined, IsWanted, SignedOf

LEMMA WorkingReceipt ==
    ASSUME CampaignInv, stage \in Working
    PROVE  /\ receipts[asset] \in Receipts /\ receipts[asset] # NONE
           /\ receipts[asset].result = "running" /\ receipts[asset].clean
           /\ SignedOf(asset) \subseteq Operations /\ ~IsPassed(asset)
           /\ SignedInOrder(asset) /\ asset \in Assets
           /\ \A b \in Before(asset) : IsPassed(b)
<1>1. receipts[asset] # NONE /\ receipts[asset].result = "running" /\ receipts[asset].clean
  BY DEF CampaignInv, ProcessInv
<1>2. asset \in Assets
  BY DEF CampaignInv, CampaignTypeOK
<1>3. receipts[asset] \in Receipts /\ SignedOf(asset) \subseteq Operations
  BY <1>1, <1>2, ReceiptTypes DEF CampaignInv
<1>4. SignedInOrder(asset)
  BY <1>1, <1>2 DEF CampaignInv, ReceiptsInv, ReceiptInv
<1>5. \A b \in Before(asset) : IsPassed(b)
  BY DEF CampaignInv, ProcessInv
<1>6. ~IsPassed(asset)
  BY <1>1 DEF IsPassed
<1> QED
  BY <1>1, <1>2, <1>3, <1>4, <1>5, <1>6

LEMMA RequiredIsNumber ==
    ASSUME NEW signer \in {"client", "provider", "evaluator", "authority"}
    PROVE  Required(signer) \in Int
<1> DEFINE own == {k \in Calls : Signers[k] = signer}
           todo == own \ receipt.transactions
<1>1. own \in SUBSET Nat /\ todo \in SUBSET Nat /\ RESOLVE \in Nat
      /\ (\A k \in own : k <= RESOLVE) /\ \A k \in todo : k <= RESOLVE
  BY DEF Calls, RESOLVE
<1> HIDE DEF own, todo
<1>2. IsFiniteSet(own) /\ IsFiniteSet(todo)
  BY <1>1, FS_BoundedSetOfNaturals
<1>3. Cardinality(own) \in Nat /\ Cardinality(todo) \in Nat
  BY <1>2, FS_CardinalityType
<1>4. remainingCalls(signer) = Cardinality(todo) + (IF asset = "stx" THEN Cardinality(own) ELSE 0)
  BY DEF remainingCalls, own, todo
<1>5. remainingCalls(signer) \in Nat
  BY <1>3, <1>4
<1>6. Reserve[signer] \in Int
  BY DEF Reserve
<1> HIDE DEF remainingCalls
<1> QED
  BY <1>5, <1>6 DEF Required, CALL_FEE

\* The manifest and the coordinator's part do not change in the executor's stages.
LEMMA ExecutorStays ==
    ASSUME CampaignInv, stage # "idle", stage' \notin Accounting, UNCHANGED manifest
    PROVE  ManifestInv'
BY ManifestInWork DEF CampaignInv

LEMMA ReadBalancesKeeps == ASSUME CampaignInv, ReadBalances PROVE CampaignInv'
<1>1. /\ stage = "reading" /\ stage' = "planning" /\ view' = purse
      /\ needed' = Required("provider")
      /\ UNCHANGED <<manifest, receipts, locked, asset, step, sent, purse, given, paid>>
  BY DEF ReadBalances, Enter, fileVars, chainVars
<1>2. ManifestInv'
  BY <1>1, ExecutorStays DEF Accounting
<1>3. ProcessInv'
  BY <1>1 DEF CampaignInv, ProcessInv, Working, Funded, IsPassed, Before
<1>4. CampaignTypeOK'
  BY <1>1, RequiredIsNumber DEF CampaignInv, CampaignTypeOK
<1> QED
  BY <1>1, <1>2, <1>3, <1>4, QuietStep

LEMMA ReceiptWithTopUp ==
    ASSUME NEW r \in Receipts, NEW n \in Nat
    PROVE  LET q == [r EXCEPT !.topUp = n]
           IN  /\ q \in Receipts /\ q.result = r.result /\ q.transactions = r.transactions
               /\ q.topUp = n /\ q.clean = r.clean
BY DEF Receipts

LEMMA ReceiptWithBalance ==
    ASSUME NEW r \in Receipts, NEW n \in Int
    PROVE  LET q == [r EXCEPT !.before = n]
           IN  /\ q \in Receipts /\ q.result = r.result /\ q.transactions = r.transactions
               /\ q.topUp = r.topUp /\ q.clean = r.clean
BY DEF Receipts

\* A receipt that is written while its executor goes on.
LEMMA WrittenStep ==
    ASSUME CampaignInv, stage \in Working, stage' \in Working, NEW q, Keeps(q), q.clean,
           receipts' = [receipts EXCEPT ![asset] = q], stage' # "planning",
           stage' \in Funded \cup {"checking"} => q.topUp \in Nat,
           stage' \in Funded => stage' = stage /\ q.topUp = receipts[asset].topUp,
           UNCHANGED <<manifest, asset, step, sent, purse, given, paid>>
    PROVE  CampaignInv'
<1>1. PICK a \in Assets : a = asset
  BY WorkingReceipt
<1>2. ReceiptsInv' /\ MoneyInv' /\ receipts' \in [Assets -> Receipts \cup {NONE}]
  BY <1>1, RewrittenReceipt
<1>3. ManifestInv'
  BY ExecutorStays DEF Working, Accounting
<1>4. CampaignTypeOK'
  BY <1>2 DEF CampaignInv, CampaignTypeOK
<1>5. receipts'[a] = q /\ \A b \in Assets : b # a => receipts'[b] = receipts[b]
  BY <1>1 DEF CampaignInv, CampaignTypeOK
<1>6. \A b \in Before(a) : IsPassed(b)'
  <2>1. \A b \in Before(a) : IsPassed(b) /\ b # a /\ b \in Assets
    BY <1>1, WorkingReceipt DEF Before, Assets
  <2> QED
    BY <1>5, <2>1 DEF IsPassed
<1>7. receipts'[a] # NONE /\ receipts'[a].result = "running" /\ receipts'[a].clean
  BY <1>5, NoneAssumption DEF Keeps
<1>8. ASSUME stage' \in Funded
      PROVE  /\ receipts'[a].topUp <= Cap(a)'
             /\ \A j \in Operations : j < step /\ IsWanted(a, j)' => HasMined(a, j)'
  <2>1. receipts[a].topUp <= Cap(a)
        /\ \A j \in Operations : j < step /\ IsWanted(a, j) => HasMined(a, j)
    BY <1>1, <1>8 DEF CampaignInv, ProcessInv
  <2>2. receipts'[a].topUp = receipts[a].topUp /\ SignedOf(a)' = SignedOf(a)
    BY <1>1, <1>5, <1>8 DEF Keeps, SignedOf
  <2>3. Cap(a)' = Cap(a)
    BY <1>5 DEF Cap, Assets
  <2>4. \A j : (HasMined(a, j)' <=> HasMined(a, j)) /\ (IsWanted(a, j)' <=> IsWanted(a, j))
    BY <2>2 DEF HasMined, IsWanted
  <2> QED
    BY <2>1, <2>2, <2>3, <2>4
<1>9. ProcessInv'
  <2>1. asset' = a /\ sent' = sent /\ step' = step
    BY <1>1
  <2>2. stage' \in {"operating", "signed", "waiting", "closing"} => stage' = stage
    BY DEF Funded
  <2> QED
    BY <1>1, <1>5, <1>6, <1>7, <1>8, <2>1, <2>2 DEF ProcessInv, CampaignInv, Before
<1> QED
  BY <1>2, <1>3, <1>4, <1>9 DEF CampaignInv

LEMMA PlanTopUpKeeps == ASSUME CampaignInv, PlanTopUp PROVE CampaignInv'
<1>1. /\ stage = "planning" /\ stage' = "checking"
      /\ UNCHANGED <<manifest, asset, step, sent, purse, given, paid>>
  BY DEF PlanTopUp, Enter, chainVars
<1>2. receipts[asset] \in Receipts /\ SignedInOrder(asset) /\ receipts[asset].clean
      /\ receipts[asset].result = "running"
  BY <1>1, WorkingReceipt DEF Working
<1>3. CASE receipts[asset].topUp # NONE /\ UNCHANGED receipts
  <2>1. receipts[asset].topUp \in Nat
    BY <1>2, <1>3 DEF Receipts
  <2>2. ManifestInv'
    BY <1>1, ExecutorStays DEF Accounting
  <2>3. ProcessInv'
    BY <1>1, <1>3, <2>1 DEF CampaignInv, ProcessInv, Working, Funded, IsPassed, Before
  <2>4. CampaignTypeOK'
    BY <1>1, <1>3, TypesStay DEF CampaignInv, CampaignTypeOK
  <2> QED
    BY <1>1, <1>3, <2>2, <2>3, <2>4, QuietStep
<1>4. CASE /\ receipts[asset].topUp = NONE
           /\ Write([receipt EXCEPT !.topUp =
                        IF view.provider < needed THEN needed - view.provider ELSE 0])
  <2>1. view.provider \in Int /\ needed \in Int
    BY <1>1 DEF CampaignInv, CampaignTypeOK, Holders
  <2> DEFINE n == IF view.provider < needed THEN needed - view.provider ELSE 0
             q == [receipts[asset] EXCEPT !.topUp = n]
  <2>2. n \in Nat
    BY <2>1
  <2>3. receipts' = [receipts EXCEPT ![asset] = q]
    BY <1>4 DEF Write, receipt
  <2>4. SignedOf(asset) = {}
    BY <1>2, <1>4, NoneAssumption DEF SignedInOrder
  <2> HIDE DEF n
  <2>5. q.clean = receipts[asset].clean /\ q.topUp = n /\ q \in Receipts
        /\ q.result = receipts[asset].result /\ q.transactions = receipts[asset].transactions
    BY <1>2, <2>2, ReceiptWithTopUp
  <2>6. Keeps(q)
    BY <1>2, <2>4, <2>5 DEF Keeps, SignedOf
  <2>7. q.clean /\ q.topUp \in Nat
    BY <1>2, <2>2, <2>5
  <2> HIDE DEF q
  <2> QED
    BY <1>1, <2>3, <2>6, <2>7, WrittenStep DEF Working, Funded
<1> QED
  BY <1>3, <1>4 DEF PlanTopUp, receipt

LEMMA CheckFundsKeeps == ASSUME CampaignInv, CheckFunds PROVE CampaignInv'
<1>1. stage = "checking" /\ step' = TOP_UP /\ UNCHANGED <<asset, sent, purse, given, paid>>
  BY DEF CheckFunds, chainVars
<1>2. step' \in 0..(RESOLVE + 1)
  BY <1>1 DEF TOP_UP, RESOLVE
<1>3. CASE Fail
  BY <1>1, <1>2, <1>3, Fails DEF Working
<1>4. CASE FundsSuffice /\ Proceed("operating")
  <2>1. stage' = "operating" /\ UNCHANGED <<manifest, receipts, locked>>
    BY <1>4 DEF Proceed, Enter, fileVars
  <2>2. receipts[asset].topUp <= Cap(asset)
    <3>1. receipts[asset].topUp <= Left(asset).topUp
      BY <1>4 DEF FundsSuffice, receipt
    <3> QED
      BY <1>1, <3>1, LeftIsCap, WorkingReceipt DEF CampaignInv, Working
  <2>3. ManifestInv'
    BY <1>1, <2>1, ExecutorStays DEF Accounting
  <2>4. ProcessInv'
    <3>1. PICK a \in Assets : a = asset /\ a = asset'
      BY <1>1, WorkingReceipt DEF Working
    <3>2. Cap(a)' = Cap(a)
      BY <1>1, <2>1, ProgressStays
    <3>3. \A j \in Operations : ~(j < step')
      BY <1>1 DEF Operations, TOP_UP
    <3>4. step' \in Operations
      BY <1>1 DEF TOP_UP, Operations, RESOLVE
    <3> QED
      BY <1>1, <2>1, <2>2, <3>1, <3>2, <3>3, <3>4
         DEF CampaignInv, ProcessInv, Working, Funded, IsPassed, Before
  <2>5. CampaignTypeOK'
    BY <1>1, <1>2, <2>1, TypesStay DEF CampaignInv, CampaignTypeOK
  <2> QED
    BY <1>1, <2>1, <2>3, <2>4, <2>5, QuietStep
<1> QED
  BY <1>3, <1>4 DEF CheckFunds

LEMMA SnapshotKeeps == ASSUME CampaignInv, Snapshot PROVE CampaignInv'
<1>1. stage = "operating" /\ UNCHANGED <<manifest, stage, asset, step, sent, purse, given, paid>>
  BY DEF Snapshot, IsDue, runVars, chainVars
<1>2. receipts[asset] \in Receipts /\ receipts[asset].clean
      /\ receipts[asset].result = "running"
  BY <1>1, WorkingReceipt DEF Working
<1> DEFINE q == [receipts[asset] EXCEPT !.before = purse.provider]
<1>3. receipts' = [receipts EXCEPT ![asset] = q]
  BY DEF Snapshot, Write, receipt
<1>4. purse.provider \in Int
  BY DEF CampaignInv, CampaignTypeOK, Holders
<1>5. /\ q \in Receipts /\ q.result = receipts[asset].result /\ q.clean = receipts[asset].clean
      /\ q.transactions = receipts[asset].transactions /\ q.topUp = receipts[asset].topUp
  BY <1>2, <1>4, ReceiptWithBalance
<1>6. Keeps(q)
  BY <1>2, <1>5 DEF Keeps, SignedOf
<1>7. q.clean /\ q.topUp \in Nat /\ q.topUp = receipts[asset].topUp
  BY <1>1, <1>2, <1>5 DEF CampaignInv, ProcessInv, Funded
<1> HIDE DEF q
<1> QED
  BY <1>1, <1>3, <1>6, <1>7, WrittenStep DEF Working, Funded

LEMMA OpenReceiptKeeps == ASSUME CampaignInv, OpenReceipt PROVE CampaignInv'
<1>1. stage = "spawned" /\ UNCHANGED <<locked, asset, step, sent, purse, given, paid>>
  BY DEF OpenReceipt, chainVars
<1>2. PICK a \in Assets : a = asset
  BY DEF CampaignInv, CampaignTypeOK
<1>3. \A b \in Before(a) : IsPassed(b) /\ b # a /\ b \in Assets
  BY <1>2 DEF CampaignInv, ProcessInv, Before, Assets
<1>4. CASE Stop /\ UNCHANGED receipts
  <2>1. stage' = "idle" /\ manifest' = Stopped /\ step' \in 0..(RESOLVE + 1)
    BY <1>1, <1>4 DEF Stop, Stopped, CampaignInv, CampaignTypeOK
  <2> QED
    BY <1>1, <1>4, <2>1, Stops
<1>5. ASSUME Enter("reading"), UNCHANGED manifest, ReceiptsInv', MoneyInv',
             receipts' \in [Assets -> Receipts \cup {NONE}],
             receipts'[a] # NONE /\ receipts'[a].result = "running" /\ receipts'[a].clean,
             \A b \in Assets : b # a => receipts'[b] = receipts[b]
      PROVE  CampaignInv'
  <2>1. stage' = "reading"
    BY <1>5 DEF Enter
  <2>2. ManifestInv'
    BY <1>1, <1>5, <2>1, ExecutorStays DEF Accounting
  <2>3. CampaignTypeOK'
    BY <1>1, <1>5, <2>1 DEF CampaignInv, CampaignTypeOK
  <2>4. \A b \in Before(a) : IsPassed(b)'
    BY <1>3, <1>5 DEF IsPassed
  <2>5. ProcessInv'
    BY <1>1, <1>2, <1>5, <2>1, <2>4 DEF ProcessInv, Working, Funded, Before
  <2> QED
    BY <1>5, <2>2, <2>3, <2>5 DEF CampaignInv
<1>6. CASE /\ receipt # NONE /\ UNCHANGED receipts /\ Reopens(receipt)
           /\ Enter("reading") /\ UNCHANGED manifest
  <2>1. receipts[a] \in Receipts /\ receipts[a].result # "passed" /\ receipts[a].clean
    BY <1>2, <1>6, ReceiptTypes DEF receipt, Reopens, CampaignInv
  <2>2. receipts[a].result = "running" /\ receipts[a] # NONE
    BY <1>2, <1>6, <2>1 DEF Receipts, receipt
  <2>3. ReceiptsInv' /\ MoneyInv'
    BY <1>1, <1>6, ReceiptsStay, MinedStays, MoneyStays DEF CampaignInv
  <2>4. receipts' \in [Assets -> Receipts \cup {NONE}]
    BY <1>6 DEF CampaignInv, CampaignTypeOK
  <2> QED
    BY <1>5, <1>6, <2>1, <2>2, <2>3, <2>4
<1>7. CASE receipt = NONE /\ Write(NewReceipt) /\ Enter("reading") /\ UNCHANGED manifest
  <2> DEFINE q == NewReceipt
  <2>1. Left(asset) \in [topUp : Int, fees : Int]
    BY <1>2, <1>3, LeftIsCap DEF CampaignInv
  <2>2. /\ q \in Receipts /\ q.result = "running" /\ q.clean /\ q.transactions = {}
        /\ q # NONE
    <3>1. q.result = "running" /\ q.clean /\ q.transactions = {}
      BY DEF NewReceipt
    <3>2. q \in Receipts
      <4> DEFINE l == Left(asset)
      <4>1. q = [result |-> "running", left |-> l, clean |-> TRUE, topUp |-> NONE,
                 transactions |-> {}, before |-> NONE, fees |-> NONE]
        BY DEF NewReceipt
      <4>2. l \in [topUp : Int, fees : Int]
        BY <2>1
      <4> HIDE DEF l, q
      <4> QED
        BY <4>1, <4>2 DEF Receipts
    <3> QED
      BY <3>1, <3>2, NoneAssumption
  <2>3. receipts' = [receipts EXCEPT ![asset] = q] /\ receipts[a] = NONE
    BY <1>2, <1>7 DEF Write, receipt
  <2> HIDE DEF q
  <2>4. /\ receipts'[a] = q /\ \A b \in Assets : b # a => receipts'[b] = receipts[b]
        /\ receipts' \in [Assets -> Receipts \cup {NONE}]
    BY <1>2, <2>2, <2>3 DEF CampaignInv, CampaignTypeOK
  <2>5. sent[a] = "nothing" /\ ~IsPassed(asset)
    BY <1>2, <2>3 DEF CampaignInv, ReceiptsInv, ReceiptInv, IsPassed
  <2>6. \A b \in Assets : b # a => ReceiptInv(b)' /\ MinedOf(b)' = MinedOf(b) /\ Gift(b)' = Gift(b)
    BY <1>1, <1>2, <2>3, <2>5, OtherStays DEF CampaignInv
  <2>7. MinedOf(a)' = MinedOf(a) /\ Gift(a)' = Gift(a)
    BY <1>1, <2>5 DEF MinedOf, Gift
  <2>8. ReceiptInv(a)'
    <3>1. SignedOf(a)' = {} /\ sent'[a] = "nothing" /\ ~IsPassed(a)'
      BY <1>1, <2>2, <2>4, <2>5 DEF SignedOf, IsPassed
    <3>2. SignedInOrder(a)'
      BY <3>1 DEF SignedInOrder
    <3>3. \A b \in Before(a) : IsPassed(b)'
      BY <1>3, <2>4 DEF IsPassed
    <3> QED
      BY <3>1, <3>2, <3>3 DEF ReceiptInv
  <2>9. ReceiptsInv' /\ MoneyInv'
    BY <1>1, <2>6, <2>7, <2>8, MoneyStays DEF ReceiptsInv, CampaignInv
  <2> QED
    BY <1>5, <1>7, <2>2, <2>4, <2>9
<1> QED
  BY <1>4, <1>6, <1>7 DEF OpenReceipt

-----------------------------------------------------------------------------
(* The money of a campaign: the executor and its transactions *)

\* An operation is done: nothing that was to be done before the next one is missing.
LEMMA GoesOn ==
    ASSUME CampaignInv, stage \in {"operating", "waiting"}, step \in Operations, step' = step + 1,
           IsWanted(asset, step) => HasMined(asset, step), Proceed(stage'),
           stage' = IF step = RESOLVE THEN "closing" ELSE "operating",
           UNCHANGED <<asset, sent, purse, given, paid>>
    PROVE  CampaignInv'
<1>1. stage' \in {"closing", "operating"} /\ UNCHANGED <<manifest, receipts, locked>>
  BY DEF Proceed, fileVars
<1>2. stage \in Working /\ stage \in Funded
  BY DEF Working, Funded
<1>3. ManifestInv'
  BY <1>1, <1>2, ExecutorStays DEF Accounting, Working
<1>4. step' \in 0..(RESOLVE + 1)
  BY DEF Operations, RESOLVE
<1>5. CampaignTypeOK'
  BY <1>1, <1>4, TypesStay DEF CampaignInv, CampaignTypeOK
<1>6. PICK a \in Assets : a = asset /\ a = asset'
  BY <1>2, WorkingReceipt
<1>7. Cap(a)' = Cap(a)
      /\ \A j : (HasMined(a, j)' <=> HasMined(a, j)) /\ (IsWanted(a, j)' <=> IsWanted(a, j))
  BY <1>1, ProgressStays
<1>8. \A j \in Operations : j < step' => j < step \/ j = step
  BY DEF Operations, RESOLVE
<1>9. \A j \in Operations : j < step' /\ IsWanted(a, j)' => HasMined(a, j)'
  BY <1>2, <1>6, <1>7, <1>8 DEF CampaignInv, ProcessInv
<1>10. /\ stage' = "operating" => step' \in Operations
       /\ stage' = "closing" => step' = RESOLVE + 1
  BY DEF Operations, RESOLVE
<1>11. /\ receipts[a].topUp \in Nat /\ receipts[a].topUp <= Cap(a)
       /\ receipts[a] # NONE /\ receipts[a].result = "running" /\ receipts[a].clean
  BY <1>2, <1>6 DEF CampaignInv, ProcessInv
<1>12. \A b \in Before(a) : IsPassed(b)'
  BY <1>1, <1>6 DEF CampaignInv, ProcessInv, IsPassed
<1>13. ProcessInv'
  BY <1>1, <1>6, <1>7, <1>9, <1>10, <1>11, <1>12 DEF ProcessInv, Before
<1> QED
  BY <1>1, <1>3, <1>5, <1>13, QuietStep

LEMMA SkipTopUpKeeps == ASSUME CampaignInv, SkipTopUp PROVE CampaignInv'
<1>1. /\ stage = "operating" /\ step = TOP_UP /\ receipts[asset].topUp = 0
      /\ UNCHANGED <<asset, sent, purse, given, paid>>
  BY DEF SkipTopUp, chainVars, receipt
<1>2. CASE Fail /\ UNCHANGED step
  <2>1. step' \in 0..(RESOLVE + 1)
    BY <1>2 DEF CampaignInv, CampaignTypeOK
  <2> QED
    BY <1>1, <1>2, <2>1, Fails DEF Working
<1>3. CASE Proceed("operating") /\ step' = step + 1
  <2>1. ~IsWanted(asset, step)
    BY <1>1 DEF IsWanted
  <2>2. step \in Operations /\ step # RESOLVE
    BY <1>1 DEF TOP_UP, Operations, RESOLVE
  <2>3. stage' = "operating"
    BY <1>3 DEF Proceed, Enter
  <2> QED
    BY <1>1, <1>3, <2>1, <2>2, <2>3, GoesOn
<1> QED
  BY <1>2, <1>3 DEF SkipTopUp

LEMMA ConfirmKeeps == ASSUME CampaignInv, Confirm PROVE CampaignInv'
<1>1. stage \in {"operating", "waiting"} /\ UNCHANGED <<asset, sent, purse, given, paid>>
  BY DEF Confirm, IsDue, chainVars
<1>2. stage \in Working /\ step \in Operations
  BY <1>1 DEF Working, CampaignInv, ProcessInv
<1>3. CASE Stop /\ UNCHANGED <<receipts, step>>
  <2>1. stage' = "idle" /\ manifest' = Stopped /\ step' \in 0..(RESOLVE + 1) /\ stage # "idle"
    BY <1>1, <1>3 DEF Stop, Stopped, CampaignInv, CampaignTypeOK
  <2> QED
    BY <1>1, <1>3, <2>1, Stops
<1>4. CASE Fail /\ UNCHANGED step
  <2>1. step' \in 0..(RESOLVE + 1)
    BY <1>4 DEF CampaignInv, CampaignTypeOK
  <2> QED
    BY <1>1, <1>2, <1>4, <2>1, Fails
<1>5. CASE /\ IsMined(step) /\ step' = step + 1
           /\ Proceed(IF step = RESOLVE THEN "closing" ELSE "operating")
  <2>1. HasMined(asset, step)
    BY <1>5 DEF IsMined, HasMined, hasTransaction, receipt, SignedOf
  <2>2. stage' = IF step = RESOLVE THEN "closing" ELSE "operating"
    BY <1>5 DEF Proceed, Enter
  <2>3. Proceed(stage')
    BY <1>5, <2>2 DEF Proceed, Enter
  <2> QED
    BY <1>1, <1>2, <1>5, <2>1, <2>2, <2>3, GoesOn
<1> QED
  <2>1. \/ Stop /\ UNCHANGED <<receipts, step>>
        \/ Fail /\ UNCHANGED step
        \/ /\ IsMined(step) /\ step' = step + 1
           /\ Proceed(IF step = RESOLVE THEN "closing" ELSE "operating")
    BY DEF Confirm
  <2> QED
    BY <1>3, <1>4, <1>5, <2>1

\* A receipt with one operation more, or with its fees and passed.
LEMMA ReceiptWithOperation ==
    ASSUME NEW r \in Receipts, NEW k \in Operations
    PROVE  LET q == [r EXCEPT !.transactions = @ \cup {k}]
           IN  /\ q \in Receipts /\ q.result = r.result /\ q.clean = r.clean
               /\ q.topUp = r.topUp /\ q.transactions = r.transactions \cup {k}
BY DEF Receipts

LEMMA ReceiptPassed ==
    ASSUME NEW r \in Receipts, NEW n \in Nat
    PROVE  LET q == [r EXCEPT !.fees = n, !.result = "passed"]
           IN  /\ q \in Receipts /\ q.result = "passed" /\ q.clean = r.clean
               /\ q.topUp = r.topUp /\ q.transactions = r.transactions /\ q.fees = n
BY DEF Receipts

\* What is signed next is the last, and the chain has executed what came before.
LEMMA NextIsLast ==
    ASSUME CampaignInv, IsDue, NEW a \in Assets, a = asset, step \notin SignedOf(a)
    PROVE  /\ \A x \in SignedOf(a) : x < step
           /\ SignedOf(a) = {} \/ sent[a] = "mined"
           /\ Max(SignedOf(a) \cup {step}) = step
<1>1. /\ SignedInOrder(a) /\ SignedOf(a) \subseteq Operations /\ step \in Operations
      /\ receipts[a] \in Receipts
  BY WorkingReceipt DEF IsDue, Working, CampaignInv, ProcessInv
<1>2. IsWanted(a, step)
  BY DEF IsDue, IsWanted, receipt
<1>3. \A x \in SignedOf(a) : x < step
  <2> SUFFICES ASSUME NEW x \in SignedOf(a), ~(x < step) PROVE FALSE
    OBVIOUS
  <2>1. x > step
    <3>1. x \in Operations /\ x # step
      BY <1>1
    <3> QED
      BY <1>1, <3>1 DEF Operations
  <2>2. step \in SignedOf(a)
    BY <1>1, <1>2, <2>1 DEF SignedInOrder
  <2> QED
    BY <2>2
<1>4. SignedOf(a) = {} \/ sent[a] = "mined"
  <2> SUFFICES ASSUME SignedOf(a) # {} PROVE sent[a] = "mined"
    OBVIOUS
  <2> DEFINE m == Max(SignedOf(a))
  <2>1. m \in SignedOf(a) /\ \A x \in SignedOf(a) : x <= m
    BY <1>1, Maximum
  <2> HIDE DEF m
  <2>2. m < step /\ m \in Operations /\ IsWanted(a, m)
    BY <1>1, <1>3, <2>1 DEF SignedInOrder, IsWanted
  <2>3. HasMined(a, m)
    BY <2>2 DEF CampaignInv, ProcessInv, IsDue, Funded
  <2>4. ~ \E j \in SignedOf(a) : j > m
    BY <1>1, <2>1, <2>2 DEF Operations
  <2> QED
    BY <2>3, <2>4 DEF HasMined
<1>5. Max(SignedOf(a) \cup {step}) = step
  <2> DEFINE S == SignedOf(a) \cup {step}
  <2>1. S \subseteq Operations /\ S # {}
    BY <1>1
  <2>2. \A x \in S : x <= step
    BY <1>1, <1>3 DEF Operations
  <2>3. step \in S
    OBVIOUS
  <2> HIDE DEF S
  <2>4. Max(S) \in S /\ step <= Max(S)
    BY <2>1, <2>3, Maximum
  <2>5. Max(S) <= step /\ Max(S) \in Operations
    BY <2>1, <2>2, <2>4
  <2>6. Max(S) = step
    BY <1>1, <2>4, <2>5 DEF Operations
  <2> QED
    BY <2>6 DEF S
<1> QED
  BY <1>3, <1>4, <1>5

LEMMA SignKeeps == ASSUME CampaignInv, Sign PROVE CampaignInv'
<1>1. /\ stage = "operating" /\ IsDue
      /\ UNCHANGED <<asset, step, purse, given, paid>>
  BY DEF Sign, IsDue
<1>2. stage \in Working /\ stage \in Funded /\ step \in Operations
  BY <1>1 DEF Working, Funded, CampaignInv, ProcessInv
<1>3. CASE Stop /\ UNCHANGED <<receipts, sent>>
  <2>1. stage' = "idle" /\ manifest' = Stopped /\ step' \in 0..(RESOLVE + 1) /\ stage # "idle"
    BY <1>1, <1>3 DEF Stop, Stopped, CampaignInv, CampaignTypeOK
  <2> QED
    BY <1>1, <1>3, <2>1, Stops
<1>4. CASE /\ Write([receipt EXCEPT !.transactions = @ \cup {step}])
           /\ sent' = [sent EXCEPT ![asset] = "signed"]
           /\ Enter("signed") /\ UNCHANGED manifest
  <2>1. PICK a \in Assets : a = asset /\ a = asset'
    BY <1>1, <1>2, WorkingReceipt
  <2> DEFINE q == [receipts[a] EXCEPT !.transactions = @ \cup {step}]
             T == SignedOf(a)
  <2>2. /\ receipts[a] \in Receipts /\ receipts[a].result = "running" /\ receipts[a].clean
        /\ SignedInOrder(a) /\ T \subseteq Operations /\ receipts[a] # NONE
        /\ \A b \in Before(a) : IsPassed(b) /\ b # a /\ b \in Assets
    BY <1>2, <2>1, WorkingReceipt DEF Before, Assets
  <2>3. /\ q \in Receipts /\ q.result = "running" /\ q.clean /\ q.topUp = receipts[a].topUp
        /\ q.transactions = T \cup {step}
    BY <1>2, <2>2, ReceiptWithOperation DEF SignedOf
  <2>4. q # NONE /\ stage' = "signed"
    BY <1>4, <2>3, NoneAssumption DEF Enter
  <2>5. receipts' = [receipts EXCEPT ![asset] = q]
    BY <1>4, <2>1 DEF Write, receipt
  <2> HIDE DEF q
  <2>6. /\ receipts'[a] = q /\ \A b \in Assets : b # a => receipts'[b] = receipts[b]
        /\ receipts' \in [Assets -> Receipts \cup {NONE}]
        /\ sent'[a] = "signed" /\ \A b \in Assets : b # a => sent'[b] = sent[b]
        /\ sent' \in [Assets -> SentStates]
    BY <1>4, <2>1, <2>3, <2>5 DEF CampaignInv, CampaignTypeOK, SentStates
  <2>7. step \notin T
    BY <2>1 DEF Sign, hasTransaction, receipt, SignedOf
  <2>8. /\ \A x \in T : x < step
        /\ T = {} \/ sent[a] = "mined"
        /\ Max(T \cup {step}) = step
    BY <1>1, <2>1, <2>7, NextIsLast
  <2>9. SignedOf(a)' = T \cup {step} /\ receipts'[a].topUp = receipts[a].topUp
    BY <2>3, <2>6 DEF SignedOf
  <2>10. MinedOf(a)' = T
    <3>1. Last(a)' = step
      BY <2>8, <2>9 DEF Last, SignedOf
    <3>2. MinedOf(a)' = SignedOf(a)' \ {Last(a)'}
      BY <2>6 DEF MinedOf
    <3> QED
      BY <2>7, <2>9, <3>1, <3>2
  <2>11. MinedOf(a) = T
    BY <2>2, <2>8 DEF MinedOf, SignedInOrder
  <2>12. Gift(a)' = Gift(a)
    BY <2>9, <2>10, <2>11 DEF Gift
  <2>13. ~IsPassed(asset)
    BY <2>1, <2>2 DEF IsPassed
  <2>14. \A b \in Assets : b # a => ReceiptInv(b)' /\ MinedOf(b)' = MinedOf(b) /\ Gift(b)' = Gift(b)
    BY <2>1, <2>5, <2>6, <2>13, OtherStays DEF CampaignInv
  <2>15. MoneyInv'
    BY <1>1, <2>10, <2>11, <2>12, <2>14, MoneyStays DEF CampaignInv
  <2>16. /\ receipts[a].topUp \in Nat /\ receipts[a].topUp <= Cap(a)
         /\ \A j \in Operations : j < step /\ IsWanted(a, j) => HasMined(a, j)
    BY <1>2, <2>1 DEF CampaignInv, ProcessInv
  <2>17. /\ Cap(a)' = Cap(a)
         /\ \A j : IsWanted(a, j)' <=> IsWanted(a, j)
    BY <2>6, <2>9 DEF Cap, IsWanted, Assets
  <2>18. SignedInOrder(a)'
    <3>1. \A k \in T \cup {step}, j \in Operations : j < k /\ IsWanted(a, j) => j \in T \cup {step}
      <4>1. \A k \in T, j \in Operations : j < k /\ IsWanted(a, j) => j \in T
        BY <2>2 DEF SignedInOrder
      <4>2. \A j \in Operations : j < step /\ IsWanted(a, j) => j \in T
        BY <2>16 DEF HasMined
      <4> QED
        BY <4>1, <4>2
    <3>2. TOP_UP \in T \cup {step} => receipts[a].topUp > 0
      BY <1>1, <2>1, <2>2 DEF SignedInOrder, IsDue, receipt
    <3> QED
      BY <2>6, <2>9, <2>16, <2>17, <3>1, <3>2 DEF SignedInOrder
  <2>19. \A b \in Before(a) : IsPassed(b)'
    BY <2>2, <2>6 DEF IsPassed
  <2>20. ReceiptInv(a)'
    <3>1. receipts'[a] # NONE /\ ~IsPassed(a)'
      BY <2>3, <2>4, <2>6 DEF IsPassed
    <3> QED
      BY <2>18, <2>19, <3>1 DEF ReceiptInv
  <2>21. ProcessInv'
    <3>1. \A j \in Operations : j < step /\ IsWanted(a, j)' => HasMined(a, j)'
      BY <1>2, <2>9, <2>16, <2>17 DEF HasMined, Operations
    <3>2. receipts'[a] # NONE /\ receipts'[a].result = "running" /\ receipts'[a].clean
      BY <2>3, <2>4, <2>6
    <3> QED
      BY <1>1, <1>2, <2>1, <2>4, <2>6, <2>9, <2>16, <2>17, <2>19, <3>1, <3>2
         DEF ProcessInv, Before
  <2>22. ManifestInv'
    BY <1>1, <1>4, <2>4, ExecutorStays DEF Accounting
  <2>23. CampaignTypeOK'
    BY <1>1, <2>4, <2>6 DEF CampaignInv, CampaignTypeOK
  <2> QED
    BY <2>14, <2>15, <2>20, <2>21, <2>22, <2>23 DEF CampaignInv, ReceiptsInv
<1> QED
  BY <1>3, <1>4 DEF Sign

LEMMA CloseReceiptKeeps == ASSUME CampaignInv, CloseReceipt PROVE CampaignInv'
<1>1. stage = "closing" /\ UNCHANGED <<locked, asset, step, sent, purse, given, paid>>
  BY DEF CloseReceipt, chainVars
<1>2. stage \in Working /\ stage \in Funded /\ stage # "idle" /\ step = RESOLVE + 1
  BY <1>1 DEF Working, Funded, CampaignInv, ProcessInv
<1>3. CASE Fail
  <2>1. step' \in 0..(RESOLVE + 1)
    BY <1>1 DEF CampaignInv, CampaignTypeOK
  <2> QED
    BY <1>1, <1>2, <1>3, <2>1, Fails
<1>4. CASE /\ Write([receipt EXCEPT !.fees = FeesFor(receipt.transactions), !.result = "passed"])
           /\ Enter("collecting") /\ UNCHANGED manifest
  <2>1. PICK a \in Assets : a = asset /\ a = asset'
    BY <1>1, <1>2, WorkingReceipt
  <2> DEFINE n == FeesFor(SignedOf(a))
             q == [receipts[a] EXCEPT !.fees = n, !.result = "passed"]
  <2>2. /\ receipts[a] \in Receipts /\ receipts[a].clean
        /\ SignedInOrder(a) /\ SignedOf(a) \subseteq Operations /\ receipts[a] # NONE
        /\ \A b \in Before(a) : IsPassed(b) /\ b # a /\ b \in Assets
    BY <1>2, <2>1, WorkingReceipt DEF Before, Assets
  <2>3. receipts' = [receipts EXCEPT ![asset] = q]
    BY <1>4, <2>1 DEF Write, receipt, SignedOf
  <2>4. n \in Nat
    BY <2>2, FeesBounded
  <2> HIDE DEF n
  <2>5. /\ q \in Receipts /\ q.result = "passed" /\ q.clean /\ q.topUp = receipts[a].topUp
        /\ q.transactions = SignedOf(a) /\ q.fees = n
    BY <2>2, <2>4, ReceiptPassed DEF SignedOf
  <2> HIDE DEF q
  <2>6. /\ receipts'[a] = q /\ \A b \in Assets : b # a => receipts'[b] = receipts[b]
        /\ receipts' \in [Assets -> Receipts \cup {NONE}]
    BY <2>1, <2>3, <2>5 DEF CampaignInv, CampaignTypeOK
  <2>7. SignedOf(a)' = SignedOf(a) /\ receipts'[a].topUp = receipts[a].topUp
    BY <2>5, <2>6 DEF SignedOf
  <2>8. MinedOf(a)' = MinedOf(a) /\ Gift(a)' = Gift(a)
    <3>1. MinedOf(a)' = MinedOf(a)
      BY <1>1, <2>7 DEF MinedOf, Last, SignedOf
    <3> QED
      BY <2>7, <3>1 DEF Gift
  <2>9. ~IsPassed(asset)
    BY <1>2, WorkingReceipt
  <2>10. \A b \in Assets : b # a => ReceiptInv(b)' /\ MinedOf(b)' = MinedOf(b) /\ Gift(b)' = Gift(b)
    BY <1>1, <2>1, <2>3, <2>9, OtherStays DEF CampaignInv
  <2>11. MoneyInv'
    BY <1>1, <2>8, <2>10, MoneyStays DEF CampaignInv
  <2>12. \A j \in Operations : j < step /\ IsWanted(a, j) => HasMined(a, j)
    BY <1>2, <2>1 DEF CampaignInv, ProcessInv
  <2>13. sent[a] = "mined" /\ receipts[a].topUp \in Nat
    <3>1. HasMined(a, RESOLVE)
      BY <1>2, <2>12 DEF IsWanted, TOP_UP, RESOLVE, Operations
    <3>2. ~ \E j \in SignedOf(a) : j > RESOLVE
      BY <2>2 DEF Operations, RESOLVE
    <3> QED
      BY <1>2, <2>1, <3>1, <3>2 DEF HasMined, CampaignInv, ProcessInv
  <2>14. receipts[a].topUp > 0 => TOP_UP \in SignedOf(a)
    BY <1>2, <2>12 DEF IsWanted, HasMined, TOP_UP, Operations, RESOLVE
  <2>15. SignedInOrder(a)'
    <3>1. Cap(a)' = Cap(a)
      BY <2>6, <2>7 DEF Cap, Assets
    <3>2. \A j : IsWanted(a, j)' <=> IsWanted(a, j)
      BY <2>7 DEF IsWanted
    <3> QED
      BY <1>1, <2>2, <2>7, <3>1, <3>2 DEF SignedInOrder
  <2>16. PassedIsSettled(a)'
    BY <1>1, <2>5, <2>6, <2>7, <2>13, <2>14 DEF PassedIsSettled, n
  <2>17. \A b \in Before(a) : IsPassed(b)'
    BY <2>2, <2>6 DEF IsPassed
  <2>18. ReceiptInv(a)'
    BY <2>5, <2>6, <2>15, <2>16, <2>17, NoneAssumption DEF ReceiptInv
  <2>19. stage' = "collecting"
    BY <1>4 DEF Enter
  <2>20. ProcessInv'
    BY <2>1, <2>17, <2>19 DEF ProcessInv, Before, Working, Funded
  <2>21. ManifestInv'
    BY <1>2, <1>4, <2>19, ExecutorStays DEF Accounting
  <2>22. CampaignTypeOK'
    BY <1>1, <2>6, <2>19 DEF CampaignInv, CampaignTypeOK
  <2> QED
    BY <2>10, <2>11, <2>18, <2>20, <2>21, <2>22 DEF CampaignInv, ReceiptsInv
<1> QED
  BY <1>3, <1>4 DEF CloseReceipt

-----------------------------------------------------------------------------
(* The money of a campaign: the chain *)

LEMMA SentGoesOn ==
    ASSUME CampaignInv, NEW a \in Assets, sent[a] \notin {"nothing", "mined"},
           NEW v \in {"pending", "lost", "mined"}, sent' = [sent EXCEPT ![a] = v],
           UNCHANGED receipts
    PROVE  /\ ReceiptsInv' /\ sent' \in [Assets -> SentStates]
           /\ sent'[a] = v
           /\ \A b \in Assets : b # a \/ v # "mined" =>
                  MinedOf(b)' = MinedOf(b) /\ Gift(b)' = Gift(b)
           /\ \A b \in Assets, j \in Operations : HasMined(b, j) => HasMined(b, j)'
<1>1. /\ sent'[a] = v /\ \A b \in Assets : b # a => sent'[b] = sent[b]
      /\ sent' \in [Assets -> SentStates]
  BY DEF CampaignInv, CampaignTypeOK, SentStates
<1>2. \A b \in Assets : SignedOf(b)' = SignedOf(b) /\ Last(b)' = Last(b)
  BY DEF SignedOf, Last
<1>3. \A b \in Assets : (sent'[b] = "nothing" <=> sent[b] = "nothing")
                        /\ (sent[b] = "mined" => sent'[b] = "mined")
  BY <1>1
<1>4. ASSUME NEW b \in Assets PROVE ReceiptInv(b)'
  <2>1. ReceiptInv(b)
    BY DEF CampaignInv, ReceiptsInv
  <2>2. Cap(b)' = Cap(b) /\ \A j : IsWanted(b, j)' <=> IsWanted(b, j)
    BY DEF Cap, IsWanted
  <2>3. SignedInOrder(b) => SignedInOrder(b)'
    BY <1>2, <1>3, <2>2 DEF SignedInOrder
  <2>4. PassedIsSettled(b) => PassedIsSettled(b)'
    BY <1>2, <1>3 DEF PassedIsSettled
  <2> QED
    BY <1>3, <2>1, <2>3, <2>4 DEF ReceiptInv, IsPassed
<1>5. ASSUME NEW b \in Assets, b # a \/ v # "mined"
      PROVE  MinedOf(b)' = MinedOf(b) /\ Gift(b)' = Gift(b)
  <2>1. MinedOf(b)' = MinedOf(b)
    BY <1>1, <1>2, <1>5 DEF MinedOf
  <2> QED
    BY <2>1 DEF Gift
<1>6. ASSUME NEW b \in Assets, NEW j \in Operations, HasMined(b, j) PROVE HasMined(b, j)'
  BY <1>2, <1>3, <1>6 DEF HasMined
<1> QED
  BY <1>1, <1>4, <1>5, <1>6 DEF ReceiptsInv

\* With the files unchanged, a transaction that goes on leaves the process where it is.
LEMMA ProcessGoesOn ==
    ASSUME CampaignInv, UNCHANGED <<manifest, receipts, locked, asset, step>>,
           \A b \in Assets, j \in Operations : HasMined(b, j) => HasMined(b, j)',
           \/ stage' = stage /\ sent'[asset] = sent[asset]
           \/ stage' = stage /\ stage # "signed"
           \/ stage = "signed" /\ stage' = "waiting"
    PROVE  ProcessInv' /\ ManifestInv'
<1>1. asset \in Assets
  BY DEF CampaignInv, CampaignTypeOK
<1>2. \A b \in Assets : Cap(b)' = Cap(b) /\ \A j : IsWanted(b, j)' <=> IsWanted(b, j)
  BY DEF Cap, IsWanted
<1>3. PICK b \in Assets : b = asset /\ b = asset'
  BY <1>1
<1>4. (stage' \in Working <=> stage \in Working) /\ (stage' \in Funded <=> stage \in Funded)
      /\ (stage' \in Accounting <=> stage \in Accounting)
  BY DEF Working, Funded, Accounting
<1>5. stage \in Funded =>
        /\ receipts[b].topUp <= Cap(b)'
        /\ \A j \in Operations : j < step /\ IsWanted(b, j)' => HasMined(b, j)'
  BY <1>2, <1>3 DEF CampaignInv, ProcessInv
<1>6. \A c \in Before(b) : IsPassed(c)'
  BY <1>3 DEF CampaignInv, ProcessInv, IsPassed
<1>7. ProcessInv'
  BY <1>3, <1>4, <1>5, <1>6 DEF CampaignInv, ProcessInv, Before
<1>8. ManifestInv'
  BY <1>4 DEF CampaignInv, ManifestInv, Accounted, IsPassed, IsManifest, Accounting
<1> QED
  BY <1>7, <1>8

LEMMA BroadcastKeeps == ASSUME CampaignInv, BroadcastTransaction PROVE CampaignInv'
<1>1. /\ stage = "signed" /\ stage' = "waiting" /\ sent' = [sent EXCEPT ![asset] = "pending"]
      /\ UNCHANGED <<manifest, receipts, locked, asset, step, purse, given, paid>>
  BY DEF BroadcastTransaction, Enter, fileVars
<1>2. PICK a \in Assets : a = asset
  BY DEF CampaignInv, CampaignTypeOK
<1>3. sent[a] \notin {"nothing", "mined"}
  BY <1>1, <1>2 DEF CampaignInv, ProcessInv
<1>4. /\ ReceiptsInv' /\ sent' \in [Assets -> SentStates]
      /\ \A b \in Assets : MinedOf(b)' = MinedOf(b) /\ Gift(b)' = Gift(b)
      /\ \A b \in Assets, j \in Operations : HasMined(b, j) => HasMined(b, j)'
  BY <1>1, <1>2, <1>3, SentGoesOn
<1>5. ProcessInv' /\ ManifestInv'
  BY <1>1, <1>4, ProcessGoesOn
<1>6. MoneyInv'
  BY <1>1, <1>4, MoneyStays DEF CampaignInv
<1>7. CampaignTypeOK'
  BY <1>1, <1>4 DEF CampaignInv, CampaignTypeOK
<1> QED
  BY <1>4, <1>5, <1>6, <1>7 DEF CampaignInv

LEMMA LoseKeeps == ASSUME CampaignInv, NEW a \in Assets, Lose(a) PROVE CampaignInv'
<1>1. /\ sent[a] = "pending" /\ sent' = [sent EXCEPT ![a] = "lost"]
      /\ UNCHANGED <<manifest, receipts, locked, stage, asset, view, needed, step, purse, given, paid>>
  BY DEF Lose, fileVars, runVars
<1>2. /\ ReceiptsInv' /\ sent' \in [Assets -> SentStates]
      /\ \A b \in Assets : MinedOf(b)' = MinedOf(b) /\ Gift(b)' = Gift(b)
      /\ \A b \in Assets, j \in Operations : HasMined(b, j) => HasMined(b, j)'
  BY <1>1, SentGoesOn
<1>3. stage = "signed" => sent'[asset] = sent[asset]
  <2>1. stage = "signed" => asset # a /\ asset \in Assets
    BY <1>1 DEF CampaignInv, ProcessInv, CampaignTypeOK
  <2> QED
    BY <1>1, <2>1 DEF CampaignInv, CampaignTypeOK
<1>4. ProcessInv' /\ ManifestInv'
  <2>1. \/ stage' = stage /\ sent'[asset] = sent[asset]
        \/ stage' = stage /\ stage # "signed"
    BY <1>1, <1>3
  <2>2. UNCHANGED <<manifest, receipts, locked, asset, step>>
    BY <1>1
  <2> QED
    BY <1>2, <2>1, <2>2, ProcessGoesOn
<1>5. MoneyInv'
  BY <1>1, <1>2, MoneyStays DEF CampaignInv
<1>6. CampaignTypeOK'
  BY <1>1, <1>2 DEF CampaignInv, CampaignTypeOK
<1> QED
  BY <1>2, <1>4, <1>5, <1>6 DEF CampaignInv

LEMMA MinedTypes ==
    ASSUME CampaignInv, NEW b \in Assets
    PROVE  MinedOf(b) \subseteq Operations /\ Gift(b) \in Nat /\ MinedOf(b) \subseteq SignedOf(b)
<1>1. CASE sent[b] = "nothing"
  BY <1>1 DEF MinedOf, Gift
<1>2. CASE sent[b] # "nothing"
  <2>1. receipts[b] # NONE
    BY <1>2 DEF CampaignInv, ReceiptsInv, ReceiptInv
  <2>2. SignedOf(b) \subseteq Operations /\ SignedInOrder(b)
    BY <2>1, ReceiptTypes DEF CampaignInv, ReceiptsInv, ReceiptInv
  <2>3. MinedOf(b) \subseteq SignedOf(b)
    BY DEF MinedOf
  <2>4. Gift(b) \in Nat
    BY <2>2, <2>3 DEF Gift, SignedInOrder
  <2> QED
    BY <2>2, <2>3, <2>4
<1> QED
  BY <1>1, <1>2

LEMMA MineKeeps == ASSUME CampaignInv, NEW a \in Assets, Mine(a) PROVE CampaignInv'
<1> DEFINE k == Last(a)
           S == SignedOf(a)
<1>1. /\ sent[a] = "pending" /\ sent' = [sent EXCEPT ![a] = "mined"]
      /\ UNCHANGED <<manifest, receipts, locked, stage, asset, view, needed, step>>
      /\ given' = given + (IF k = TOP_UP THEN receipts[a].topUp ELSE 0)
      /\ paid' = paid + FeeOf(k)
      /\ purse' = [who \in DOMAIN purse |-> purse[who] + Moves(a, k, who)]
  BY DEF Mine, fileVars, runVars
<1>2. /\ ReceiptsInv' /\ sent' \in [Assets -> SentStates] /\ sent'[a] = "mined"
      /\ \A b \in Assets : b # a => MinedOf(b)' = MinedOf(b) /\ Gift(b)' = Gift(b)
      /\ \A b \in Assets, j \in Operations : HasMined(b, j) => HasMined(b, j)'
  BY <1>1, SentGoesOn
<1>3. stage = "signed" => sent'[asset] = sent[asset]
  <2>1. stage = "signed" => asset # a /\ asset \in Assets
    BY <1>1 DEF CampaignInv, ProcessInv, CampaignTypeOK
  <2> QED
    BY <1>1, <2>1 DEF CampaignInv, CampaignTypeOK
<1>4. ProcessInv' /\ ManifestInv'
  <2>1. \/ stage' = stage /\ sent'[asset] = sent[asset]
        \/ stage' = stage /\ stage # "signed"
    BY <1>1, <1>3
  <2>2. UNCHANGED <<manifest, receipts, locked, asset, step>>
    BY <1>1
  <2> QED
    BY <1>2, <2>1, <2>2, ProcessGoesOn
<1>5. /\ SignedInOrder(a) /\ S \subseteq Operations /\ S # {}
      /\ receipts[a].topUp \in Nat
  <2>1. receipts[a] # NONE
    BY <1>1 DEF CampaignInv, ReceiptsInv, ReceiptInv
  <2> QED
    BY <1>1, <2>1, ReceiptTypes DEF CampaignInv, ReceiptsInv, ReceiptInv, SignedInOrder
<1>6. k \in S /\ k \in Operations
  BY <1>5, Maximum DEF Last, SignedOf
<1>7. MinedOf(a) = S \ {k} /\ MinedOf(a)' = (S \ {k}) \cup {k} /\ MinedOf(a)' = S
  <2>1. SignedOf(a)' = SignedOf(a)
    BY <1>1 DEF SignedOf
  <2> QED
    BY <1>1, <1>2, <1>6, <2>1 DEF MinedOf
<1> DEFINE top == IF k = TOP_UP THEN receipts[a].topUp ELSE 0
<1>8. Gift(a)' = Gift(a) + top /\ Gift(a) \in Int /\ top \in Int
  <2>1. CASE k = TOP_UP
    <3>1. Gift(a) = 0
      BY <1>7, <2>1 DEF Gift
    <3>2. Gift(a)' = receipts[a].topUp
      BY <1>1, <1>6, <1>7, <2>1 DEF Gift
    <3> QED
      BY <1>5, <2>1, <3>1, <3>2
  <2>2. CASE k # TOP_UP
    <3>1. TOP_UP \in MinedOf(a)' <=> TOP_UP \in MinedOf(a)
      BY <1>7, <2>2
    <3>2. Gift(a)' = Gift(a)
      BY <1>1, <3>1 DEF Gift
    <3>3. Gift(a) \in Int
      BY <1>5 DEF Gift
    <3> QED
      BY <2>2, <3>2, <3>3
  <2> QED
    BY <2>1, <2>2
<1>9. FeesFor(MinedOf(a))' = FeesFor(MinedOf(a)) + FeeOf(k) /\ FeesFor(MinedOf(a)) \in Int
      /\ FeeOf(k) \in Int
  <2> DEFINE M == S \ {k}
  <2>1. M \subseteq Operations /\ k \notin M
    BY <1>5
  <2>2. FeesFor(M) \in Int /\ FeesFor(M \cup {k}) = FeesFor(M) + FeeOf(k)
    BY <1>6, <2>1, FeesAdd
  <2>3. FeeOf(k) \in Int
    BY DEF FeeOf, CALL_FEE, TOP_UP_TRANSFER_FEE
  <2>4. FeesFor(MinedOf(a))' = FeesFor(MinedOf(a)')
    BY DEF FeesFor
  <2> QED
    BY <1>7, <2>2, <2>3, <2>4
<1>10. ASSUME NEW b \in Assets, b # a
       PROVE  /\ FeesFor(MinedOf(b))' = FeesFor(MinedOf(b)) /\ FeesFor(MinedOf(b)) \in Int
              /\ Gift(b)' = Gift(b) /\ Gift(b) \in Int
  <2>1. MinedOf(b)' = MinedOf(b) /\ Gift(b)' = Gift(b)
    BY <1>2, <1>10
  <2>2. MinedOf(b) \subseteq Operations /\ Gift(b) \in Int
    BY MinedTypes, <1>10 DEF CampaignInv
  <2>3. FeesFor(MinedOf(b)) \in Nat
    BY <2>2, FeesBounded
  <2>4. FeesFor(MinedOf(b))' = FeesFor(MinedOf(b)')
    BY DEF FeesFor
  <2> QED
    BY <2>1, <2>2, <2>3, <2>4
<1>11. MoneyInv'
  <2> HIDE DEF k, top
  <2>1. CASE a = "stx"
    <3>1. "sbtc" \in Assets /\ "sbtc" # a
      BY <2>1 DEF Assets
    <3> QED
      BY <1>1, <1>8, <1>9, <1>10, <2>1, <3>1 DEF MoneyInv, CampaignInv, top
  <2>2. CASE a = "sbtc"
    <3>1. "stx" \in Assets /\ "stx" # a
      BY <2>2 DEF Assets
    <3> QED
      BY <1>1, <1>8, <1>9, <1>10, <2>2, <3>1 DEF MoneyInv, CampaignInv, top
  <2> QED
    BY <2>1, <2>2 DEF Assets
<1>12. purse' \in [Holders -> Int]
  <2>1. \A who \in Holders : Moves(a, k, who) \in Int
    <3>1. FeeOf(k) \in Int
      BY DEF FeeOf, CALL_FEE, TOP_UP_TRANSFER_FEE
    <3> QED
      BY <1>5, <3>1 DEF Moves, BUDGET, NET, SATS
  <2>2. purse \in [Holders -> Int]
    BY DEF CampaignInv, CampaignTypeOK
  <2> HIDE DEF k
  <2> QED
    BY <1>1, <2>1, <2>2
<1>13. CampaignTypeOK'
  BY <1>1, <1>2, <1>12 DEF CampaignInv, CampaignTypeOK
<1> QED
  BY <1>2, <1>4, <1>11, <1>13 DEF CampaignInv

LEMMA PayElsewhereKeeps ==
    ASSUME CampaignInv, NEW amount \in Payments, PayElsewhere(amount)
    PROVE  CampaignInv'
<1>1. /\ purse' = [purse EXCEPT !.provider = @ - amount]
      /\ UNCHANGED <<manifest, receipts, locked, stage, asset, view, needed, step, sent, given, paid>>
  BY DEF PayElsewhere, fileVars, runVars
<1>2. purse' \in [Holders -> Int]
  <2>1. amount \in Int /\ purse \in [Holders -> Int]
    BY PaymentsAssumption DEF CampaignInv, CampaignTypeOK
  <2> QED
    BY <1>1, <2>1 DEF Holders
<1>3. CampaignTypeOK'
  BY <1>1, <1>2 DEF CampaignInv, CampaignTypeOK
<1>4. \A b \in Assets, j \in Operations : HasMined(b, j) => HasMined(b, j)'
  BY <1>1 DEF HasMined, SignedOf
<1>5. ProcessInv' /\ ManifestInv'
  BY <1>1, <1>4, ProcessGoesOn
<1> QED
  BY <1>1, <1>3, <1>5, QuietStep

LEMMA StutteringKeeps == ASSUME CampaignInv, UNCHANGED campaignVars PROVE CampaignInv'
<1>1. UNCHANGED <<manifest, receipts, locked, stage, asset, view, needed, step, sent, purse,
                  given, paid>>
  BY DEF campaignVars, fileVars, runVars, chainVars
<1>2. \A b \in Assets, j \in Operations : HasMined(b, j) => HasMined(b, j)'
  BY <1>1 DEF HasMined, SignedOf
<1>3. ProcessInv' /\ ManifestInv'
  BY <1>1, <1>2, ProcessGoesOn
<1>4. CampaignTypeOK'
  BY <1>1 DEF CampaignInv, CampaignTypeOK
<1> QED
  BY <1>1, <1>3, <1>4, QuietStep

\* Nothing is waited for, or the process is killed or refused.
LEMMA InterruptedKeeps == ASSUME CampaignInv, GiveUp \/ Killed \/ Refuse PROVE CampaignInv'
<1>1. /\ stage # "idle" /\ stage' = "idle"
      /\ manifest' = manifest \/ manifest' = Stopped
      /\ UNCHANGED <<receipts, asset, step, sent, purse, given, paid>>
  BY DEF GiveUp, Killed, Refuse, Stop, Stopped, InExecutor, fileVars, chainVars
<1>2. step' \in 0..(RESOLVE + 1) /\ (manifest' = manifest \/ manifest' = Stopped)
  BY <1>1 DEF CampaignInv, CampaignTypeOK
<1> QED
  BY <1>1, <1>2, Stops

-----------------------------------------------------------------------------
(* The money of a campaign: the theorems *)

LEMMA CampaignStarts == CampaignInit => CampaignInv
<1> SUFFICES ASSUME CampaignInit PROVE CampaignInv
  OBVIOUS
<1> USE DEF CampaignInit
<1>1. CampaignTypeOK
  BY PursesAssumption DEF CampaignTypeOK, SentStates, Assets, TOP_UP, RESOLVE
<1>2. \A a \in Assets : receipts[a] = NONE /\ sent[a] = "nothing"
  OBVIOUS
<1>3. ReceiptsInv
  BY <1>2 DEF ReceiptsInv, ReceiptInv, IsPassed
<1>4. MoneyInv
  <2>1. \A a \in Assets : MinedOf(a) = {} /\ Gift(a) = 0
    BY <1>2 DEF MinedOf, Gift
  <2> QED
    BY <2>1, FeesOfNone DEF MoneyInv, Assets
<1>5. ProcessInv
  BY DEF ProcessInv, Working, Funded, Before
<1>6. ManifestInv
  BY DEF ManifestInv, Accounting
<1> QED
  BY <1>1, <1>3, <1>4, <1>5, <1>6 DEF CampaignInv

LEMMA CampaignStep == CampaignInv /\ [CampaignNext]_campaignVars => CampaignInv'
<1> SUFFICES ASSUME CampaignInv, [CampaignNext]_campaignVars PROVE CampaignInv'
  OBVIOUS
<1>1. CASE Begin
  BY <1>1, BeginKeeps
<1>2. CASE Coordinate
  BY <1>2, CoordinatorKeeps, CollectKeeps DEF Coordinate
<1>3. CASE Execute
  BY <1>3, OpenReceiptKeeps, ReadBalancesKeeps, PlanTopUpKeeps, CheckFundsKeeps, SkipTopUpKeeps,
     SnapshotKeeps, SignKeeps, BroadcastKeeps, ConfirmKeeps, CloseReceiptKeeps, InterruptedKeeps
     DEF Execute
<1>4. CASE Killed \/ Refuse
  BY <1>4, InterruptedKeeps
<1>5. CASE \E a \in Assets : Mine(a) \/ Lose(a)
  BY <1>5, MineKeeps, LoseKeeps
<1>6. CASE \E amount \in Payments : PayElsewhere(amount)
  BY <1>6, PayElsewhereKeeps
<1>7. CASE UNCHANGED campaignVars
  BY <1>7, StutteringKeeps
<1> QED
  BY <1>1, <1>2, <1>3, <1>4, <1>5, <1>6, <1>7 DEF CampaignNext

LEMMA InvIsWithinCaps == CampaignInv => CampaignWithinCaps
<1> SUFFICES ASSUME CampaignInv PROVE CampaignWithinCaps
  OBVIOUS
<1>1. "stx" \in Assets /\ "sbtc" \in Assets
  BY DEF Assets
<1>2. paid <= MAX_CAMPAIGN_NETWORK_FEES
  <2>1. \A a \in Assets : FeesFor(MinedOf(a)) \in Nat /\ FeesFor(MinedOf(a)) <= FeesUpTo(RESOLVE)
    BY MinedTypes, FeesBounded
  <2>2. FeesUpTo(RESOLVE) + FeesUpTo(RESOLVE) = MAX_CAMPAIGN_NETWORK_FEES
        /\ FeesUpTo(RESOLVE) \in Nat /\ MAX_CAMPAIGN_NETWORK_FEES \in Nat
    BY DEF FeesUpTo, RESOLVE, TOP_UP_TRANSFER_FEE, CALL_FEE, MAX_CAMPAIGN_NETWORK_FEES
  <2>3. paid = FeesFor(MinedOf("stx")) + FeesFor(MinedOf("sbtc"))
    BY DEF CampaignInv, MoneyInv
  <2> QED
    BY <1>1, <2>1, <2>2, <2>3
<1>3. given <= MAX_CAMPAIGN_TOP_UP
  <2>1. ASSUME NEW a \in Assets, TOP_UP \in MinedOf(a)
        PROVE  /\ receipts[a] # NONE /\ receipts[a].topUp \in Nat /\ receipts[a].topUp <= Cap(a)
               /\ Gift(a) = receipts[a].topUp /\ sent[a] # "nothing"
    <3>1. sent[a] # "nothing" /\ TOP_UP \in SignedOf(a)
      BY <2>1 DEF MinedOf
    <3>2. receipts[a] # NONE
      BY <3>1 DEF CampaignInv, ReceiptsInv, ReceiptInv
    <3>3. SignedInOrder(a)
      BY <3>2 DEF CampaignInv, ReceiptsInv, ReceiptInv
    <3> QED
      BY <2>1, <3>1, <3>2, <3>3 DEF SignedInOrder, Gift
  <2>2. \A a \in Assets : TOP_UP \notin MinedOf(a) => Gift(a) = 0
    BY DEF Gift
  <2>3. given = Gift("stx") + Gift("sbtc")
    BY DEF CampaignInv, MoneyInv
  <2>4. Gift("stx") \in Nat /\ Gift("stx") <= MAX_CAMPAIGN_TOP_UP
    BY <1>1, <2>1, <2>2 DEF Cap, MAX_CAMPAIGN_TOP_UP
  <2>5. CASE TOP_UP \notin MinedOf("sbtc")
    BY <1>1, <2>2, <2>3, <2>4, <2>5 DEF MAX_CAMPAIGN_TOP_UP
  <2>6. CASE TOP_UP \in MinedOf("sbtc")
    <3>1. /\ receipts["sbtc"] # NONE /\ Gift("sbtc") = receipts["sbtc"].topUp
          /\ receipts["sbtc"].topUp \in Nat
          /\ receipts["sbtc"].topUp <= MAX_CAMPAIGN_TOP_UP - receipts["stx"].topUp
      BY <1>1, <2>1, <2>6 DEF Cap
    <3>2. IsPassed("stx")
      BY <1>1, <3>1 DEF CampaignInv, ReceiptsInv, ReceiptInv, Before
    <3>3. receipts["stx"].topUp \in Nat
      BY <1>1, <3>2 DEF CampaignInv, ReceiptsInv, ReceiptInv, PassedIsSettled
    <3>4. Gift("stx") <= receipts["stx"].topUp
      BY <1>1, <2>1, <2>2, <3>3
    <3> QED
      BY <2>3, <2>4, <3>1, <3>3, <3>4 DEF MAX_CAMPAIGN_TOP_UP
  <2> QED
    BY <2>5, <2>6
<1> QED
  BY <1>2, <1>3 DEF CampaignWithinCaps

LEMMA InvIsAccounted == CampaignInv => PassedIsAccounted
<1> SUFFICES ASSUME CampaignInv, manifest # NONE, manifest.result = "passed"
             PROVE  /\ \A a \in Assets : IsPassed(a) /\ receipts[a].clean /\ sent[a] = "mined"
                    /\ manifest.topUp = given /\ manifest.fees = paid
                    /\ ~locked
  BY DEF PassedIsAccounted
<1>1. Accounted /\ ~locked
  BY DEF CampaignInv, ManifestInv
<1>2. \A a \in Assets : IsPassed(a) /\ PassedIsSettled(a)
  BY <1>1 DEF Accounted, CampaignInv, ReceiptsInv, ReceiptInv
<1>3. ASSUME NEW a \in Assets
      PROVE  FeesFor(MinedOf(a)) = receipts[a].fees /\ Gift(a) = receipts[a].topUp
  <2>1. MinedOf(a) = SignedOf(a)
    BY <1>2 DEF PassedIsSettled, MinedOf
  <2>2. Gift(a) = receipts[a].topUp
    BY <1>2, <2>1 DEF PassedIsSettled, Gift
  <2> QED
    BY <1>2, <2>1, <2>2 DEF PassedIsSettled
<1>4. given = manifest.topUp /\ paid = manifest.fees
  BY <1>1, <1>3 DEF CampaignInv, MoneyInv, Accounted, Assets
<1> QED
  BY <1>1, <1>2, <1>4 DEF PassedIsSettled

\* However often the campaign stopped, was resumed or found the provider's account
\* emptied, it gave the provider no more than the cap of the whole campaign for gas
\* and paid no more than its cap in network fees (runCampaign's remaining caps, the
\* executor's funds check and the receipt that is resumed and never begun anew).
THEOREM CampaignStaysWithinCaps == CampaignSpec => []CampaignWithinCaps
<1>1. CampaignSpec => []CampaignInv
  BY CampaignStarts, CampaignStep, PTL DEF CampaignSpec
<1> QED
  BY <1>1, InvIsWithinCaps, PTL

\* A campaign whose manifest says passed has both receipts passed and clean and all
\* their transactions mined, and its sums are what the chain moved and took
\* (accountAsset, which counts a receipt once, and the order of the last writes).
THEOREM CampaignIsAccounted == CampaignSpec => []PassedIsAccounted
<1>1. CampaignSpec => []CampaignInv
  BY CampaignStarts, CampaignStep, PTL DEF CampaignSpec
<1> QED
  BY <1>1, InvIsAccounted, PTL

=============================================================================
