---------------------------- MODULE CampaignLock ----------------------------
(***************************************************************************)
(* The files that keep mainnet campaigns apart:                            *)
(* scripts/mainnet-e2e-campaign-lock.mjs and its two users, the            *)
(* coordinator (run-service-fee-mainnet-e2e-campaign.mjs), which spawns    *)
(* one executor after the other, and the executor                          *)
(* (e2e-service-fee-mainnet.mjs), which broadcasts transactions.           *)
(*                                                                         *)
(* Three files: the campaign lock, the executor lease and the recovery     *)
(* guard.  A process may die between any two file operations; the files    *)
(* stay.  Every file operation is a step of its own.                       *)
(*                                                                         *)
(* A process takes at most one lock in its life, so its identity stands    *)
(* for its pid, its random token and the hash of what it wrote.  Pids are  *)
(* not reused (a reused pid makes a dead owner look alive: a takeover is   *)
(* then refused).                                                          *)
(***************************************************************************)
EXTENDS CampaignFiles

VARIABLES
    lock,       \* the campaign lock: who created it, and whether it is written
    lease,      \* the executor lease, with the lock token it was taken under
    guard,      \* the recovery guard: who created it
    kind,       \* what a process runs
    token,      \* the lock token a process relies on
    seen,       \* the lock and the lease an operator confirmed for a takeover
    pc          \* where a process is

files == <<lock, lease, guard>>
vars == <<lock, lease, guard, kind, token, seen, pc>>

Coordinating == {"looking", "lookingForLease", "adopting", "rechecking",
                 "checkingOwner", "checkingLease", "checkingExecutor",
                 "removingLease", "rotating", "adopted", "waiting"}
Owning == {"acquiring", "writing", "owning", "unlinking"}
Executing == {"inheriting", "leasing", "validating", "creatingLease",
              "writingLease", "revalidating", "leased", "check1", "check2",
              "check3", "check4", "cleared", "broadcasting", "closing",
              "unlinkingLease"}
Labels == Coordinating \cup Owning \cup Executing
              \cup {"unborn", "failing", "stopped", "passed"}

\* process.kill(pid, 0) finds nobody.
Ended(p) == pc[p] \in {"stopped", "passed"}
Live(p) == pc[p] \notin {"unborn", "stopped", "passed"}

\* validateCampaignLock: the lock is there, complete, and bears the token.
LockIs(t) == lock = [by |-> t, written |-> TRUE]

Goto(p, label) == pc' = [pc EXCEPT ![p] = label]

\* A step that only looks at the files.
Check(p, from, condition, yes, no) ==
    /\ pc[p] = from
    /\ Goto(p, IF condition THEN yes ELSE no)
    /\ UNCHANGED <<files, kind, token, seen>>

-----------------------------------------------------------------------------
(* runCampaign, up to the lock *)

Start(p) ==
    /\ pc[p] = "unborn"
    /\ \/ kind' = [kind EXCEPT ![p] = "coordinator"] /\ Goto(p, "looking")
       \/ kind' = [kind EXCEPT ![p] = "single"] /\ Goto(p, "acquiring")
    /\ token' = [token EXCEPT ![p] = p]
    /\ UNCHANGED <<files, seen>>

\* An existing lock needs the operator's confirmation of its hash.
LookForLock(p) ==
    /\ pc[p] = "looking"
    /\ CarefulOperators /\ lock # NoFile => Ended(lock.by)
    /\ seen' = [seen EXCEPT ![p].lock = lock]
    /\ Goto(p, "lookingForLease")
    /\ UNCHANGED <<files, kind, token>>

LookForLease(p) ==
    /\ pc[p] = "lookingForLease"
    /\ seen' = [seen EXCEPT ![p].lease = lease]
    /\ Goto(p, CASE seen[p].lock # NoFile -> "adopting"
                 [] seen[p].lock = NoFile /\ lease = NoFile -> "acquiring"
                 [] OTHER -> "stopped")
    /\ UNCHANGED <<files, kind, token>>

-----------------------------------------------------------------------------
(* acquireCampaignLock *)

CreateLock(p) ==
    /\ pc[p] = "acquiring"
    /\ IF lock = NoFile
       THEN lock' = [by |-> p, written |-> FALSE] /\ Goto(p, "writing")
       ELSE UNCHANGED lock /\ Goto(p, "stopped")
    /\ UNCHANGED <<lease, guard, kind, token, seen>>

\* The write goes to the file that was created, wherever it is by now; what
\* follows needs only that some lock is there.
WriteLock(p) ==
    /\ pc[p] = "writing"
    /\ lock' = IF lock = [by |-> p, written |-> FALSE]
               THEN [by |-> p, written |-> TRUE] ELSE lock
    /\ Goto(p, IF lock = NoFile THEN "stopped"
               ELSE IF kind[p] = "single" THEN "leasing" ELSE "owning")
    /\ UNCHANGED <<lease, guard, kind, token, seen>>

\* releaseSuccess of the lock: validate, then unlink whatever bears the name.
BeginRelease(p) ==
    /\ kind[p] \in {"coordinator", "single"}
    /\ Check(p, "owning", LockIs(p), "unlinking", "stopped")

UnlinkLock(p) ==
    /\ pc[p] = "unlinking"
    /\ lock' = NoFile
    /\ Goto(p, IF lock = NoFile THEN "stopped" ELSE "passed")
    /\ UNCHANGED <<lease, guard, kind, token, seen>>

-----------------------------------------------------------------------------
(* acquireRecoveryGuard, and its release *)

TakeGuard_Waits(p) ==                                               \* mutant
    /\ pc[p] \in {"adopting", "leasing"} /\ guard = NoFile
    /\ guard' = p
    /\ Goto(p, IF pc[p] = "adopting" THEN "rechecking" ELSE "validating")
    /\ UNCHANGED <<lock, lease, kind, token, seen>>
TakeGuard(p) ==
    /\ pc[p] \in {"adopting", "leasing"}
    /\ IF guard = NoFile
       THEN /\ guard' = p
            /\ Goto(p, IF pc[p] = "adopting" THEN "rechecking" ELSE "validating")
       ELSE UNCHANGED guard /\ Goto(p, "stopped")
    /\ UNCHANGED <<lock, lease, kind, token, seen>>

ReleaseGuard(p) ==
    /\ pc[p] \in {"adopted", "leased", "failing"}
    /\ guard' = NoFile
    /\ Goto(p, CASE pc[p] = "adopted" /\ lock # NoFile -> "owning"
                 [] pc[p] = "leased" -> "check1"
                 [] OTHER -> "stopped")
    /\ UNCHANGED <<lock, lease, kind, token, seen>>

-----------------------------------------------------------------------------
(* adoptStoppedCampaignLock; every failure releases the guard *)

RecheckLock(p) ==
    Check(p, "rechecking",
          /\ lock # NoFile /\ lock = seen[p].lock
          /\ lock.written /\ kind[lock.by] = "coordinator",
          "checkingOwner", "failing")

IsDead_Assumed(p) == TRUE                                            \* mutant
IsDead(p) == Ended(p)

CheckOwner(p) ==
    Check(p, "checkingOwner", IsDead(seen[p].lock.by), "checkingLease", "failing")

CheckLease(p) ==
    \/ lease = NoFile /\ Check(p, "checkingLease", TRUE, "rotating", "failing")
    \/ /\ lease # NoFile
       /\ Check(p, "checkingLease",
                lease = seen[p].lease /\ lease.written /\ kind[lease.by] = "executor",
                "checkingExecutor", "failing")

CheckExecutor(p) ==
    Check(p, "checkingExecutor", IsDead(seen[p].lease.by), "removingLease", "failing")

RemoveLease(p) ==
    /\ pc[p] = "removingLease"
    /\ lease' = NoFile
    /\ Goto(p, IF lease = NoFile THEN "failing" ELSE "rotating")
    /\ UNCHANGED <<lock, guard, kind, token, seen>>

\* The rename replaces whatever bears the name of the lock.
RotateLock(p) ==
    /\ pc[p] = "rotating"
    /\ lock' = [by |-> p, written |-> TRUE]
    /\ Goto(p, "adopted")
    /\ UNCHANGED <<lease, guard, kind, token, seen>>

-----------------------------------------------------------------------------
(* The coordinator's campaign: one child after the other *)

Children(p) == {c \in Processes : kind[c] = "executor" /\ token[c] = p}

Spawn(p, c) ==
    /\ pc[p] = "owning" /\ kind[p] = "coordinator"
    /\ pc[c] = "unborn"
    /\ kind' = [kind EXCEPT ![c] = "executor"]
    /\ token' = [token EXCEPT ![c] = p]
    /\ pc' = [pc EXCEPT ![p] = "waiting", ![c] = "inheriting"]
    /\ UNCHANGED <<files, seen>>

\* A child that did not pass stops the campaign, which preserves the lock.
Reap_Early(p) == Check(p, "waiting", TRUE, "owning", "stopped")       \* mutant
Reap(p) ==
    /\ \A c \in Children(p) : Ended(c)
    /\ Check(p, "waiting", \A c \in Children(p) : pc[c] = "passed",
             "owning", "stopped")

-----------------------------------------------------------------------------
(* acquireExecutorLease and executionLock *)

Lease_Unbound(p, written) ==                                        \* mutant
    [by |-> p, token |-> NoFile, written |-> written]
Lease(p, written) == [by |-> p, token |-> token[p], written |-> written]

Inherit(p) == Check(p, "inheriting", LockIs(token[p]), "leasing", "stopped")

Validate(p) ==
    Check(p, "validating", LockIs(token[p]), "creatingLease", "failing")

CreateLease(p) ==
    /\ pc[p] = "creatingLease"
    /\ IF lease = NoFile
       THEN /\ lease' = Lease(p, FALSE)
            /\ Goto(p, "writingLease")
       ELSE UNCHANGED lease /\ Goto(p, "failing")
    /\ UNCHANGED <<lock, guard, kind, token, seen>>

\* A failed write releases the guard and leaves the lease as it is.
WriteLease(p) ==
    /\ pc[p] = "writingLease"
    /\ \/ lease' = Lease(p, TRUE)
          /\ Goto(p, "revalidating")
       \/ UNCHANGED lease /\ Goto(p, "failing")
    /\ UNCHANGED <<lock, guard, kind, token, seen>>

Revalidate(p) ==
    Check(p, "revalidating", LockIs(token[p]), "leased", "failing")

\* assertOwned: the guard, the lock, the lease, and the guard again.
AssertOwned(p) ==
    \/ Check(p, "check1", guard = NoFile, "check2", "stopped")
    \/ Check(p, "check2", LockIs(token[p]), "check3", "stopped")
    \/ Check(p, "check3", lease = Lease(p, TRUE),
             "check4", "stopped")
    \/ Check(p, "check4", guard = NoFile, "cleared", "stopped")

\* broadcastTransaction is under way; every broadcast is preceded by a check.
Broadcast(p) == Check(p, "cleared", TRUE, "broadcasting", "stopped")
Answered(p) == Check(p, "broadcasting", TRUE, "check1", "stopped")

\* close: assertOwned, then releaseSuccess of the lease, then of an own lock.
Close(p) ==
    \/ Check(p, "cleared", TRUE, "closing", "stopped")
    \/ Check(p, "closing", lease = Lease(p, TRUE),
             "unlinkingLease", "stopped")

UnlinkLease(p) ==
    /\ pc[p] = "unlinkingLease"
    /\ lease' = NoFile
    /\ Goto(p, IF lease = NoFile THEN "stopped"
               ELSE IF kind[p] = "single" THEN "owning" ELSE "passed")
    /\ UNCHANGED <<lock, guard, kind, token, seen>>

-----------------------------------------------------------------------------
(* Crashes, and the whole *)

\* A process dies at any point: killed, powered off, or by an error that no
\* handler turns into a file operation.
Crash(p) == Live(p) /\ Goto(p, "stopped") /\ UNCHANGED <<files, kind, token, seen>>

Init ==
    /\ lock = NoFile /\ lease = NoFile /\ guard = NoFile
    /\ kind = [p \in Processes |-> "coordinator"]
    /\ token = [p \in Processes |-> p]
    /\ seen = [p \in Processes |-> [lock |-> NoFile, lease |-> NoFile]]
    /\ pc = [p \in Processes |-> "unborn"]

Takeover(p) ==
    \/ RecheckLock(p) \/ CheckOwner(p) \/ CheckLease(p)
    \/ CheckExecutor(p) \/ RemoveLease(p) \/ RotateLock(p)

Campaign(p) ==
    \/ LookForLock(p) \/ LookForLease(p)
    \/ CreateLock(p) \/ WriteLock(p)
    \/ \E c \in Processes : Spawn(p, c)
    \/ Reap(p) \/ BeginRelease(p) \/ UnlinkLock(p)

Execution(p) ==
    \/ Inherit(p) \/ Validate(p) \/ CreateLease(p) \/ WriteLease(p)
    \/ Revalidate(p) \/ AssertOwned(p) \/ Broadcast(p) \/ Answered(p)
    \/ Close(p) \/ UnlinkLease(p)

Run(p) ==
    \/ Campaign(p) \/ TakeGuard(p) \/ Takeover(p) \/ ReleaseGuard(p)
    \/ Execution(p)

Next == \E p \in Processes : Start(p) \/ Run(p) \/ Crash(p)

Spec == Init /\ [][Next]_vars

TypeOK ==
    /\ lock \in LockFile \cup {NoFile}
    /\ lease \in LeaseFile \cup {NoFile}
    /\ guard \in Processes \cup {NoFile}
    /\ kind \in [Processes -> {"coordinator", "single", "executor"}]
    /\ token \in [Processes -> Processes]
    /\ seen \in [Processes -> [lock : LockFile \cup {NoFile},
                               lease : LeaseFile \cup {NoFile}]]
    /\ pc \in [Processes -> Labels]

-----------------------------------------------------------------------------
(* Properties *)

\* Two processes never broadcast at the same time, whoever died, took over or
\* released whatever in between.
OneBroadcaster ==
    \A p, q \in Processes :
        pc[p] = "broadcasting" /\ pc[q] = "broadcasting" => p = q

\* While a process broadcasts, its campaign's token is in the lock: a takeover
\* or a release never happens under a broadcast that passed its check before.
BroadcastUnderItsLock ==
    \A p \in Processes : pc[p] = "broadcasting" => LockIs(token[p])

\* A lock passes from one process to another only when the former owner is dead
\* and no live executor of its campaign may broadcast.
TakeoverFromTheDead ==
    [][lock # NoFile /\ lock' # NoFile /\ lock'.by # lock.by =>
           /\ Ended(lock.by)
           /\ \A p \in Processes : token[p] = lock.by =>
                 pc[p] \notin {"cleared", "broadcasting"}]_vars

\* Every process that is not killed takes its next step, and broadcasts only so
\* many transactions (the steps of e2e-service-fee-mainnet.mjs are fixed).
Fairness == \A p \in Processes : WF_vars(Run(p)) /\ SF_vars(Close(p))

\* Nobody waits for ever for a file that a dead process left, nor for a child
\* that waits for its parent: every run ends, passed or stopped.
EveryRunEnds == \A p \in Processes : Live(p) ~> Ended(p)

=============================================================================
