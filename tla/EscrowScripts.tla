--------------------------- MODULE EscrowScripts ---------------------------
(***************************************************************************)
(* The scripts that drive one job of a deployed escrow through its whole   *)
(* life, and the suite that starts the resumable one of them:              *)
(*                                                                         *)
(*   "auto-main"  scripts/e2e-autonomous-escrow-mainnet.mjs                *)
(*   "auto-test"  scripts/e2e-autonomous-escrow-testnet.mjs, started by    *)
(*                scripts/e2e-qa-suite.mjs                                 *)
(*   "v3-main"    scripts/e2e-versioned-escrow-mainnet.mjs                 *)
(*   "v4-test"    scripts/e2e-versioned-escrow-testnet.mjs                 *)
(*   "v2-test"    scripts/e2e-stx-v2-testnet.mjs                           *)
(*                                                                         *)
(* A script is a sequence of steps (a check, a transfer, a contract call   *)
(* that must succeed or must be refused) and a policy: what its waitFor    *)
(* returns, what stops it and what it writes to its receipt.  A run reads  *)
(* and sends one step after the other while blocks, strangers and crashes  *)
(* come in between.  A run starts in a world that is "sound" or has one    *)
(* defect; each script looks for some of the defects before it sends.      *)
(*                                                                         *)
(* Amounts are left out: an escrow is whole or empty.                      *)
(***************************************************************************)
EXTENDS Integers, Sequences, FiniteSets

CONSTANTS
    Cases,      \* the [script, scenario, asset, world] explored, each with a
                \* bound on its runs
    Window,     \* review and appeal windows, in burn blocks
    MaxBurn,    \* bound: burn blocks
    MaxJobs,    \* bound: jobs of the escrow
    MaxStray    \* bound: late transactions; a further one is dropped

Scripts == {"auto-main", "auto-test", "v3-main", "v4-test", "v2-test"}
Worlds == {"sound", "roles", "keys", "source", "config", "authority", "token",
           "caller", "funds"}
NoJob == 0

\* The scenarios a script knows; another one makes it stop before it starts.  The
\* scripts without a choice run the one scenario "complete", and "settle-timeout"
\* resumes the job "prepare-timeout" left.
ScenariosOf(script) ==
    CASE script = "auto-main" -> {"approve-appeal-resolve-reject",
                                  "reject-appeal-resolve-approve"}
      [] script = "auto-test" -> {"approve-no-appeal", "reject-no-appeal",
                                  "approve-appeal-resolve-reject",
                                  "reject-appeal-resolve-approve",
                                  "approve-appeal-timeout", "review-timeout"}
      [] script = "v4-test" -> {"complete", "prepare-timeout"}
      [] OTHER -> {"complete"}

ASSUME CasesAreRuns ==
    /\ \A c \in Cases : /\ c.script \in Scripts /\ c.world \in Worlds
                        /\ c.scenario \in ScenariosOf(c.script)
    /\ Window \in Nat /\ MaxBurn \in Nat

VARIABLES
    case,
    \* the chain
    jobs,       \* of the escrow, by id
    burn,       \* burn-block-height
    stray,      \* transactions whose run no longer waits for them
    funded,     \* the actors that can pay fees
    \* the file
    receipt,    \* [there, job, result]
    \* the process
    phase, mode, step, target, count, output, tx, sent,
    \* history
    runs, ended, told, mishap

chain == <<jobs, burn, stray, funded>>
process == <<phase, mode, step, target, count, output, tx, sent>>
history == <<runs, ended, told, mishap>>
vars == <<case, chain, receipt, process, history>>

Has(defect) == case.world = defect
Scenario(s) == case.scenario = s
OnlySbtc(steps) == IF case.asset = "sbtc" THEN steps ELSE <<>>

-----------------------------------------------------------------------------
(* Steps *)

Verify(defect) == [kind |-> "verify", what |-> defect]
Fund(actor) == [kind |-> "fund", fn |-> "transfer", by |-> "client", arg |-> actor]
Call(fn, by) == [kind |-> "call", fn |-> fn, by |-> by, arg |-> "none"]
Unchecked(fn, by) == [kind |-> "unchecked", fn |-> fn, by |-> by, arg |-> "none"]
Judge(fn, by, decision) ==
    [kind |-> "call", fn |-> fn, by |-> by, arg |-> decision]
Refused(fn, by) == [kind |-> "refused", fn |-> fn, by |-> by, arg |-> "none"]
Expect(status, escrow) ==
    [kind |-> "expect", status |-> status, escrow |-> escrow]
Terminal(status, final) ==
    [kind |-> "terminal", status |-> status, final |-> final]
CountJobs == [kind |-> "count"]
TakeLastJob == [kind |-> "last"]
NameJob == [kind |-> "name"]
JobsGrewByOne == [kind |-> "grew"]
Rated == [kind |-> "rated"]
Prepared == [kind |-> "prepared"]
Await == [kind |-> "await"]
WhenDue == [kind |-> "due"]
MustBeDue == [kind |-> "must be due"]

-----------------------------------------------------------------------------
(* e2e-autonomous-escrow-mainnet.mjs *)

AutoMainConfig == {"roles", "keys"}
AutoMainRelease ==
    <<Verify("source"), Verify("config"), Verify("authority")>>
        \o OnlySbtc(<<Verify("token")>>) \o <<Verify("caller")>>
AutoMainActors == <<Verify("funds"), Fund("provider"), Fund("evaluator"),
                    Fund("authority")>>
AutoMainHiring ==
    <<Call("create-job", "client"), Call("set-budget", "client"),
      Call("fund-job", "client"), Expect("funded", TRUE),
      Call("assign-provider", "client"), Call("submit-work", "provider"),
      Expect("submitted", TRUE)>>
AutoMainFirst ==
    IF Scenario("reject-appeal-resolve-approve") THEN "reject" ELSE "approve"
AutoMainJudging ==
    <<Judge("record-decision", "evaluator", AutoMainFirst), Expect("pending", TRUE),
      Call("appeal-decision",
           IF AutoMainFirst = "approve" THEN "client" ELSE "provider"),
      Expect("disputed", TRUE)>>
AutoMainFinal ==
    IF Scenario("approve-appeal-resolve-reject") THEN "reject" ELSE "approve"
AutoMainResolving == <<Judge("resolve-appeal", "authority", AutoMainFinal)>>
AutoMainTerminal(final) ==
    <<Terminal(IF final = "approve" THEN "completed" ELSE "rejected", final)>>
AutoMainSending ==
    [ends |-> {"success", "abort", "dropped"}, checksTransfers |-> TRUE,
     tolerant |-> FALSE]
AutoMainReceipt == [atStart |-> FALSE, saves |-> TRUE, savesId |-> TRUE, catches |-> TRUE]
AutoMainToppingUp == TRUE

AutoMain ==
    AutoMainRelease \o AutoMainActors \o AutoMainHiring \o AutoMainJudging
        \o AutoMainResolving \o AutoMainTerminal(AutoMainFinal)

-----------------------------------------------------------------------------
(* e2e-autonomous-escrow-testnet.mjs and e2e-qa-suite.mjs *)

AutoTestDelayed == {"approve-no-appeal", "reject-no-appeal",
                    "approve-appeal-timeout", "review-timeout"}
AutoTestConfig == {"roles", "keys"}
AutoTestRelease ==
    <<Verify("source"), Verify("config"), Verify("authority")>>
        \o OnlySbtc(<<Verify("token")>>) \o <<Verify("caller")>>
AutoTestActors == <<Verify("funds"), Fund("provider"), Fund("evaluator"),
                    Fund("authority")>>
AutoTestHiring ==
    <<Call("create-job", "client"), Call("set-budget", "client"),
      Call("fund-job", "client"), Expect("funded", TRUE),
      Call("assign-provider", "client"), Call("submit-work", "provider"),
      Expect("submitted", TRUE)>>
AutoTestFirst ==
    IF case.scenario \in {"reject-no-appeal", "reject-appeal-resolve-approve"}
    THEN "reject" ELSE "approve"
AutoTestJudging ==
    <<Judge("record-decision", "evaluator", AutoTestFirst), Expect("pending", TRUE)>>
AutoTestAppealing ==
    <<Call("appeal-decision",
           IF AutoTestFirst = "approve" THEN "client" ELSE "provider"),
      Expect("disputed", TRUE)>>
AutoTestFinal ==
    IF Scenario("approve-appeal-resolve-reject") THEN "reject" ELSE "approve"
AutoTestResolving == <<Judge("resolve-appeal", "authority", AutoTestFinal)>>
AutoTestTerminal(final) ==
    IF final = "none" THEN <<Terminal("timeout", "none")>>
    ELSE <<Terminal(IF final = "approve" THEN "completed" ELSE "rejected",
                    final)>>
AutoTestSending ==
    [ends |-> {"success", "abort", "dropped"}, checksTransfers |-> TRUE,
     tolerant |-> FALSE]
AutoTestReceipt == [atStart |-> FALSE, saves |-> TRUE, savesId |-> TRUE, catches |-> FALSE]
AutoTestToppingUp == TRUE

\* createScenarioJob ends where its scenario has to wait for a deadline.
AutoTestPrepare ==
    AutoTestRelease \o AutoTestActors \o AutoTestHiring \o
    CASE Scenario("review-timeout") -> <<Await>>
      [] case.scenario \in {"approve-no-appeal", "reject-no-appeal"} ->
            AutoTestJudging \o <<Await>>
      [] Scenario("approve-appeal-timeout") ->
            AutoTestJudging \o AutoTestAppealing \o <<Await>>
      [] OTHER ->
            AutoTestJudging \o AutoTestAppealing \o AutoTestResolving
                \o AutoTestTerminal(AutoTestFinal)

\* settleDelayedJob
AutoTestSettle ==
    AutoTestRelease \o
    CASE Scenario("review-timeout") ->
            <<Expect("submitted", TRUE), WhenDue,
              Call("settle-review-timeout", "client")>>
                \o AutoTestTerminal("none")
      [] Scenario("approve-appeal-timeout") ->
            <<Expect("disputed", TRUE), WhenDue,
              Call("settle-appeal-timeout", "client")>>
                \o AutoTestTerminal("approve")
      [] OTHER ->
            <<Expect("pending", TRUE), WhenDue,
              Call("finalize-decision", "client")>>
                \o AutoTestTerminal(AutoTestFirst)

\* contractCase of the suite: a case is prepared once and resumed by the job its
\* receipt names.
SuiteStarts(m) ==
    IF m = "run" THEN ~receipt.there
    ELSE /\ case.scenario \in AutoTestDelayed
         /\ receipt.there /\ receipt.job # NoJob

-----------------------------------------------------------------------------
(* e2e-versioned-escrow-mainnet.mjs *)

V3MainConfig == {}
V3MainRelease ==
    <<Verify("source"), Verify("config"), Verify("token"), Verify("caller")>>
V3MainPreflight == <<Verify("funds"), Verify("keys")>>
V3MainActors == <<Verify("roles"), Fund("provider"), Fund("evaluator")>>
V3MainHiring ==
    <<CountJobs, Call("create-job", "client"), Call("set-budget", "client"),
      Call("fund-job", "client"), Expect("funded", TRUE),
      Call("assign-provider", "client"), Call("submit-work", "provider"),
      Expect("submitted", TRUE)>>
V3MainCompleting ==
    <<Call("complete-job", "evaluator"), Expect("completed", FALSE),
      Terminal("completed", "approve")>>
V3MainRating == <<Call("rate-provider", "client"), Rated, JobsGrewByOne>>
V3MainSending ==
    [ends |-> {"success", "abort", "dropped"}, checksTransfers |-> TRUE,
     tolerant |-> FALSE]
V3MainReceipt == [atStart |-> TRUE, saves |-> TRUE, savesId |-> FALSE, catches |-> TRUE]

V3Main == V3MainRelease \o V3MainPreflight \o V3MainActors \o V3MainHiring
              \o V3MainCompleting \o V3MainRating

-----------------------------------------------------------------------------
(* e2e-versioned-escrow-testnet.mjs: nothing here asks the registry whether it *)
(* lists the escrow.                                                           *)

V4TestConfig == {"keys"}
V4TestRelease ==
    <<Verify("source"), Verify("config")>> \o OnlySbtc(<<Verify("token")>>)
V4TestActors == <<Verify("funds"), Fund("provider"), Fund("evaluator")>>
V4TestHiring ==
    <<Call("create-job", "client"), Call("set-budget", "client"),
      Call("fund-job", "client"), Expect("funded", TRUE),
      Call("assign-provider", "client")>>
V4TestSubmitting ==
    <<Call("submit-work", "provider"), Expect("submitted", TRUE),
      Refused("settle-review-timeout", "client"), Expect("submitted", TRUE)>>
V4TestCompleting ==
    IF Scenario("prepare-timeout") THEN <<Prepared>>
    ELSE <<Call("complete-job", "evaluator"), Expect("completed", FALSE),
           Terminal("completed", "approve")>>
V4TestRating ==
    IF Scenario("prepare-timeout") THEN <<>>
    ELSE <<Call("rate-provider", "client"), Rated>>
V4TestSettle ==
    V4TestRelease \o
    <<NameJob, Expect("submitted", TRUE), MustBeDue,
      Call("settle-review-timeout", "client"), Terminal("timeout", "none")>>
V4TestSending ==
    [ends |-> {"success", "abort", "dropped"}, checksTransfers |-> FALSE,
     tolerant |-> FALSE]
V4TestReceipt == [atStart |-> TRUE, saves |-> TRUE, savesId |-> FALSE, catches |-> TRUE]

V4Test == V4TestRelease \o V4TestActors \o V4TestHiring \o V4TestSubmitting
              \o V4TestCompleting \o V4TestRating

-----------------------------------------------------------------------------
(* e2e-stx-v2-testnet.mjs counts the checks that fail and goes on; it takes the *)
(* job from the escrow's counter, and does not look at the outcome of three of  *)
(* its calls: what it reads afterwards has to show it.                          *)

V2TestConfig == {"keys"}
V2TestHiring ==
    <<Fund("provider"), Fund("evaluator"), Call("create-job", "client"),
      TakeLastJob, Unchecked("set-budget", "client"), Call("fund-job", "client"),
      Expect("funded", TRUE), Unchecked("assign-provider", "client"),
      Unchecked("submit-work", "provider"), Expect("submitted", TRUE)>>
V2TestGuarding == <<Refused("reject-job", "client")>>
V2TestCompleting ==
    <<Call("complete-job", "evaluator"), Expect("completed", FALSE),
      Terminal("completed", "approve")>>
V2TestRating == <<Call("rate-provider", "client"),
                  Refused("rate-provider", "client")>>
V2TestSending == [ends |-> {"success", "abort"}, checksTransfers |-> FALSE,
                  tolerant |-> TRUE]
V2TestReceipt == [atStart |-> FALSE, saves |-> FALSE, savesId |-> FALSE, catches |-> FALSE]

V2Test == V2TestHiring \o V2TestGuarding \o V2TestCompleting \o V2TestRating

-----------------------------------------------------------------------------
(* The script of the case *)

Is(script) == case.script = script

Config == CASE Is("auto-main") -> AutoMainConfig
            [] Is("auto-test") -> AutoTestConfig
            [] Is("v3-main") -> V3MainConfig
            [] Is("v4-test") -> V4TestConfig
            [] Is("v2-test") -> V2TestConfig
Sending == CASE Is("auto-main") -> AutoMainSending
             [] Is("auto-test") -> AutoTestSending
             [] Is("v3-main") -> V3MainSending
             [] Is("v4-test") -> V4TestSending
             [] Is("v2-test") -> V2TestSending
Receipt == CASE Is("auto-main") -> AutoMainReceipt
             [] Is("auto-test") -> AutoTestReceipt
             [] Is("v3-main") -> V3MainReceipt
             [] Is("v4-test") -> V4TestReceipt
             [] Is("v2-test") -> V2TestReceipt
Steps == CASE Is("auto-main") -> AutoMain
           [] Is("auto-test") ->
                IF mode = "run" THEN AutoTestPrepare ELSE AutoTestSettle
           [] Is("v3-main") -> V3Main
           [] Is("v4-test") -> IF mode = "run" THEN V4Test ELSE V4TestSettle
           [] Is("v2-test") -> V2Test
TopsUp == \/ Is("auto-main") /\ AutoMainToppingUp
          \/ Is("auto-test") /\ AutoTestToppingUp
Starts(m) == CASE Is("auto-test") -> SuiteStarts(m)
               [] Is("v4-test") /\ m = "resume" -> told # NoJob
               [] OTHER -> m = "run"

-----------------------------------------------------------------------------
(* The escrow *)

NewJob(ours) ==
    [ours |-> ours, status |-> "open", escrow |-> FALSE, deadline |-> 0,
     first |-> "none", final |-> "none", sync |-> "none", payments |-> 0,
     rated |-> FALSE]

\* What a call does to the states a job goes through: "priced" is an open job with
\* a budget, "assigned" a funded one with a provider.
From(fn) ==
    CASE fn = "set-budget" -> "open"
      [] fn = "fund-job" -> "priced"
      [] fn = "assign-provider" -> "funded"
      [] fn = "submit-work" -> "assigned"
      [] fn \in {"record-decision", "complete-job", "reject-job",
                 "settle-review-timeout"} -> "submitted"
      [] fn \in {"appeal-decision", "finalize-decision"} -> "pending"
      [] fn \in {"resolve-appeal", "settle-appeal-timeout"} -> "disputed"
      [] fn = "rate-provider" -> "completed"
SignersOf(fn) ==
    CASE fn = "submit-work" -> {"provider"}
      [] fn \in {"record-decision", "complete-job", "reject-job"} -> {"evaluator"}
      [] fn = "resolve-appeal" -> {"authority"}
      [] fn = "appeal-decision" -> {"client", "provider"}
      [] OTHER -> {"client"}
InTime == {"record-decision", "appeal-decision", "resolve-appeal",
           "complete-job", "reject-job"}
AfterDeadline == {"finalize-decision", "settle-appeal-timeout",
                  "settle-review-timeout"}

\* The calls a defect of the world makes the escrow refuse.
Breaks(fn) ==
    \/ Has("source") /\ fn = "create-job"
    \/ Has("config") /\ fn = "create-job"
    \/ Has("roles") /\ fn = "assign-provider"
    \/ Has("authority") /\ fn = "resolve-appeal"
    \/ Has("token") /\ case.asset = "sbtc" /\ fn = "fund-job"
    \/ Has("funds") /\ fn = "fund-job"

Accepts(t) ==
    /\ ~Breaks(t.fn)
    /\ \/ t.fn \in {"transfer", "create-job"}
       \/ /\ t.job \in DOMAIN jobs
          /\ jobs[t.job].ours
          /\ jobs[t.job].status = From(t.fn)
          /\ t.by \in SignersOf(t.fn)
          /\ t.fn \in InTime => burn <= jobs[t.job].deadline
          /\ t.fn \in AfterDeadline => burn > jobs[t.job].deadline
          /\ t.fn = "rate-provider" => ~jobs[t.job].rated

Paid(j, status, final) ==
    [j EXCEPT !.status = status, !.final = final, !.escrow = FALSE,
              !.payments = @ + 1,
              !.sync = IF final = "none" THEN "none"
                       ELSE IF Has("caller") THEN "pending" ELSE "synced"]
StatusOf(decision) == IF decision = "approve" THEN "completed" ELSE "rejected"

After(j, t) ==
    CASE t.fn = "set-budget" -> [j EXCEPT !.status = "priced"]
      [] t.fn = "fund-job" -> [j EXCEPT !.status = "funded", !.escrow = TRUE]
      [] t.fn = "assign-provider" -> [j EXCEPT !.status = "assigned"]
      [] t.fn = "submit-work" ->
            [j EXCEPT !.status = "submitted", !.deadline = burn + Window]
      [] t.fn = "record-decision" ->
            [j EXCEPT !.status = "pending", !.first = t.arg,
                      !.deadline = burn + Window]
      [] t.fn = "appeal-decision" ->
            [j EXCEPT !.status = "disputed", !.deadline = burn + Window]
      [] t.fn = "resolve-appeal" -> Paid(j, StatusOf(t.arg), t.arg)
      [] t.fn = "complete-job" -> Paid(j, "completed", "approve")
      [] t.fn = "reject-job" -> Paid(j, "rejected", "reject")
      [] t.fn \in {"finalize-decision", "settle-appeal-timeout"} ->
            Paid(j, StatusOf(j.first), j.first)
      [] t.fn = "settle-review-timeout" -> Paid(j, "timeout", "none")
      [] t.fn = "rate-provider" -> [j EXCEPT !.rated = TRUE]

Executed(t) ==
    CASE t.fn = "create-job" ->
            jobs' = Append(jobs, NewJob(TRUE)) /\ UNCHANGED funded
      [] t.fn = "transfer" -> funded' = funded \cup {t.arg} /\ UNCHANGED jobs
      [] OTHER -> jobs' = [jobs EXCEPT ![t.job] = After(@, t)]
                  /\ UNCHANGED funded
Execute(t) == IF Accepts(t) THEN Executed(t) ELSE UNCHANGED <<jobs, funded>>

-----------------------------------------------------------------------------
(* Blocks and strangers *)

Ours == {i \in DOMAIN jobs : jobs[i].ours}
Running == phase # "idle"
NoTx == [fn |-> "none"]
\* Bound: nothing is explored before the first run and after the last.
Active == Running \/ runs \in 1..(case.runs - 1)
IsPending == tx # NoTx /\ tx.state = "pending"
Bytes(t) == [fn |-> t.fn, by |-> t.by, arg |-> t.arg, job |-> t.job]

\* A transaction of an account waits for the earlier ones of that account.
Mine ==
    /\ IsPending /\ \A t \in stray : t.by # tx.by
    /\ tx.fn = "create-job" => Len(jobs) < MaxJobs
    /\ Execute(tx)
    /\ tx' = [tx EXCEPT !.state = IF Accepts(tx) THEN "success" ELSE "abort",
                        !.id = IF tx.fn = "create-job" THEN Len(jobs) + 1 ELSE NoJob]
    /\ UNCHANGED <<case, burn, stray, receipt, phase, mode, step, target,
                   count, output, sent, history>>
Drop ==
    /\ IsPending
    /\ tx' = [tx EXCEPT !.state = "dropped"]
    /\ mishap' = TRUE
    /\ UNCHANGED <<case, chain, receipt, phase, mode, step, target, count,
                   output, sent, runs, ended, told>>
MineStray ==
    /\ Active
    /\ \E t \in stray :
        /\ t.fn = "create-job" => Len(jobs) < MaxJobs
        /\ Execute(t)
        /\ stray' = stray \ {t}
    /\ UNCHANGED <<case, burn, receipt, process, history>>
DropStray ==
    /\ Active
    /\ \E t \in stray : stray' = stray \ {t}
    /\ UNCHANGED <<case, jobs, burn, funded, receipt, process, history>>

\* Blocks that close a window of the job a run is still working on are a mishap.
AdvanceBurn ==
    /\ burn < MaxBurn /\ Active
    /\ burn' = burn + 1
    /\ mishap' = (mishap \/ (Running /\ mode = "run" /\ \E i \in Ours :
                                 jobs[i].escrow /\ jobs[i].deadline = burn))
    /\ UNCHANGED <<case, jobs, stray, funded, receipt, process, runs, ended,
                   told>>

\* A job of somebody else takes the next id.
StrangerCreates ==
    /\ Len(jobs) < MaxJobs /\ Active
    /\ jobs' = Append(jobs, NewJob(FALSE))
    /\ mishap' = (mishap \/ case.script \in {"v3-main", "v2-test"})
    /\ UNCHANGED <<case, burn, stray, funded, receipt, process, runs, ended,
                   told>>

\* Anybody may settle a job whose deadline has passed and expire one that nobody
\* delivered in time.
StrangerSettles ==
    /\ Active
    /\ \E i \in Ours, fn \in AfterDeadline :
        LET t == [fn |-> fn, by |-> "client", arg |-> "none", job |-> i]
        IN  Accepts(t) /\ jobs' = [jobs EXCEPT ![i] = After(@, t)]
    /\ mishap' = TRUE
    /\ UNCHANGED <<case, burn, stray, funded, receipt, process, runs, ended,
                   told>>
StrangerExpires ==
    /\ Active
    /\ \E i \in Ours :
        /\ jobs[i].status \in {"open", "priced", "funded", "assigned"}
        /\ jobs' = [jobs EXCEPT ![i].status = "expired", ![i].escrow = FALSE]
    /\ mishap' = TRUE
    /\ UNCHANGED <<case, burn, stray, funded, receipt, process, runs, ended,
                   told>>

-----------------------------------------------------------------------------
(* A run *)

AtStep(kinds) == phase = "step" /\ step <= Len(Steps) /\ Steps[step].kind \in kinds
This == Steps[step]

Written(o) == [there |-> TRUE, job |-> o.job, result |-> o.result]
Save(o) ==
    /\ output' = o
    /\ receipt' = IF Receipt.saves THEN Written(o) ELSE receipt
Keep(o) == output' = o /\ UNCHANGED receipt

\* Nobody waits any more for a transaction that is still in the mempool.
LeaveBehind ==
    stray' = IF IsPending /\ Cardinality(stray) < MaxStray
             THEN stray \cup {Bytes(tx)} ELSE stray

GoOn ==
    /\ phase' = "step" /\ step' = step + 1 /\ tx' = NoTx
    /\ UNCHANGED <<mode, sent, runs, ended>>
Leave(verdict) ==
    /\ phase' = "idle" /\ step' = 0 /\ target' = NoJob /\ count' = 0
    /\ tx' = NoTx
    /\ LeaveBehind
    /\ ended' = verdict
    /\ UNCHANGED <<mode, sent, runs>>

\* A thrown error: some scripts catch it, write "error" and rethrow it.
Throw ==
    /\ Leave("failed")
    /\ Save(IF Receipt.catches THEN [output EXCEPT !.result = "error"]
            ELSE output)
\* A check that does not hold.
Fail ==
    IF Sending.tolerant
    THEN /\ GoOn /\ Save([output EXCEPT !.result = "failing"])
         /\ LeaveBehind
         /\ UNCHANGED <<target, count>>
    ELSE Throw

Begin ==
    /\ ~Running /\ runs < case.runs /\ case.world \notin Config
    /\ \E m \in {"run", "resume"} :
        /\ Starts(m)
        /\ mode' = m
        /\ target' = CASE m = "run" -> NoJob
                       [] m = "resume" /\ Is("auto-test") -> receipt.job
                       [] OTHER -> told
    /\ phase' = "step" /\ step' = 1 /\ count' = 0 /\ tx' = NoTx
    /\ sent' = FALSE /\ ended' = "none" /\ runs' = runs + 1
    /\ LET o == [job |-> NoJob, result |-> "running"]
       IN  IF Receipt.atStart THEN Save(o) ELSE Keep(o)
    /\ UNCHANGED <<case, chain, told, mishap>>

Job == jobs[target]
Holds(s) ==
    \/ s.kind = "verify" /\ ~Has(s.what)
    \/ s.kind = "grew" /\ Len(jobs) = count + 1
    \/ /\ target \in DOMAIN jobs
       /\ CASE s.kind = "expect" ->
                Job.status = s.status /\ Job.escrow = s.escrow
            [] s.kind = "terminal" ->
                /\ Job.status = s.status /\ ~Job.escrow /\ Job.final = s.final
                /\ Job.sync = IF s.final = "none" THEN "none" ELSE "synced"
            [] s.kind = "rated" -> Job.rated
            [] s.kind = "must be due" -> burn > Job.deadline
            [] OTHER -> FALSE
Check ==
    /\ AtStep({"verify", "grew", "expect", "terminal", "rated", "must be due"})
    /\ IF Holds(This)
       THEN GoOn /\ Save(output) /\ UNCHANGED <<stray, target, count>>
       ELSE Fail
    /\ UNCHANGED <<case, jobs, burn, funded, told, mishap>>

\* Reading the counter, naming the job, telling the operator.
Note ==
    /\ AtStep({"count", "last", "name", "prepared"})
    /\ GoOn
    /\ count' = IF This.kind = "count" THEN Len(jobs) ELSE count
    /\ target' = IF This.kind = "last" THEN Len(jobs) ELSE target
    /\ told' = IF This.kind = "prepared" THEN target ELSE told
    /\ Keep(IF This.kind = "name" THEN [output EXCEPT !.job = target] ELSE output)
    /\ UNCHANGED <<case, chain, mishap>>

\* A delayed scenario stops until its deadline has passed.
StopAwaiting(o) == Leave("awaiting") /\ Save([o EXCEPT !.result = "awaiting"])
AwaitDeadline ==
    /\ AtStep({"await"})
    /\ StopAwaiting(output) /\ told' = target
    /\ UNCHANGED <<case, jobs, burn, funded, mishap>>
CompareDeadline ==
    /\ AtStep({"due"})
    /\ LET o == [output EXCEPT !.job = target]
       IN  IF burn <= Job.deadline THEN StopAwaiting(o)
           ELSE GoOn /\ Keep(o) /\ UNCHANGED <<stray, target, count>>
    /\ UNCHANGED <<case, jobs, burn, funded, told, mishap>>

Sendings == {"fund", "call", "unchecked", "refused"}
CanPay(actor) == actor = "client" \/ actor \in funded
Skip ==
    /\ AtStep({"fund"}) /\ TopsUp /\ This.arg \in funded
    /\ GoOn /\ Save(output)
    /\ UNCHANGED <<case, chain, target, count, told, mishap>>
Broadcast ==
    /\ AtStep(Sendings)
    /\ ~(This.kind = "fund" /\ TopsUp /\ This.arg \in funded)
    /\ CanPay(This.by)
    /\ tx' = [fn |-> This.fn, by |-> This.by, arg |-> This.arg,
              job |-> IF This.fn \in {"transfer", "create-job"} THEN NoJob
                      ELSE target,
              state |-> "pending", id |-> NoJob]
    /\ phase' = "wait" /\ sent' = TRUE
    /\ UNCHANGED <<case, chain, receipt, mode, step, target, count, output,
                   history>>
\* The node refuses a transaction: an account without money, or for its own reasons.
NodeRefuses ==
    /\ AtStep(Sendings)
    /\ Throw
    /\ mishap' = (mishap \/ CanPay(This.by))
    /\ UNCHANGED <<case, jobs, burn, funded, told>>

\* waitFor returns, the receipt is saved, and call judges what came back.
IsUnchecked(s) ==
    \/ s.kind = "unchecked"
    \/ s.kind = "fund" /\ ~Sending.checksTransfers
IsAsWanted(s, state) ==
    \/ state = IF s.kind = "refused" THEN "abort" ELSE "success"
    \/ IsUnchecked(s)
CreatedJob_Counted(t) == Len(jobs)                                  \* mutant
CreatedJob(t) == t.id
Named(o, id) == [o EXCEPT !.job = id]
Observe ==
    /\ phase = "wait" /\ tx.state \in Sending.ends
    /\ IF ~IsAsWanted(This, tx.state) THEN Fail
       ELSE /\ GoOn
            /\ IF tx.fn = "create-job" /\ ~Sending.tolerant
               THEN LET o == Named(output, CreatedJob(tx))
                    IN  /\ target' = CreatedJob(tx)
                        /\ IF Receipt.savesId THEN Save(o)
                           ELSE output' = o /\ receipt' = Written(output)
               ELSE UNCHANGED target /\ Save(output)
            /\ UNCHANGED <<stray, count>>
    /\ UNCHANGED <<case, jobs, burn, funded, told, mishap>>

\* The last poll found nothing.
GivesUp_OnPending == tx.state = "pending"                           \* mutant
GivesUp == TRUE
TimeOut ==
    /\ phase = "wait" /\ GivesUp
    /\ IF IsUnchecked(This) /\ Sending.tolerant
       THEN /\ GoOn /\ Keep(output) /\ UNCHANGED <<target, count>>
            /\ LeaveBehind
       ELSE Fail
    /\ mishap' = TRUE
    /\ UNCHANGED <<case, jobs, burn, funded, told>>

Verdict_Unread == "passed"                                          \* mutant
Verdict == IF output.result = "failing" THEN "failed" ELSE "passed"
Finish ==
    /\ phase = "step" /\ step > Len(Steps)
    /\ Leave(Verdict)
    /\ output' = [job |-> target, result |-> Verdict]
    /\ receipt' = Written(output')
    /\ UNCHANGED <<case, jobs, burn, funded, told, mishap>>

Crash ==
    /\ Running
    /\ Leave("crashed") /\ Keep(output)
    /\ mishap' = TRUE
    /\ UNCHANGED <<case, jobs, burn, funded, told>>

-----------------------------------------------------------------------------
Init ==
    /\ case \in Cases
    /\ jobs = <<>> /\ burn = 1 /\ stray = {}
    /\ funded \in {{}, {"provider", "evaluator", "authority"}}
    /\ receipt = [there |-> FALSE, job |-> NoJob, result |-> "none"]
    /\ phase = "idle" /\ mode = "run" /\ step = 0 /\ target = NoJob
    /\ count = 0 /\ output = [job |-> NoJob, result |-> "none"] /\ tx = NoTx
    /\ sent = FALSE
    /\ runs = 0 /\ ended = "none" /\ told = NoJob /\ mishap = FALSE

Run == \/ Check \/ Note \/ AwaitDeadline \/ CompareDeadline \/ Skip
       \/ Broadcast \/ NodeRefuses \/ Observe \/ TimeOut \/ Finish
Network == \/ Mine \/ Drop \/ MineStray \/ DropStray \/ AdvanceBurn
Strangers == StrangerCreates \/ StrangerSettles \/ StrangerExpires
Next == Begin \/ Run \/ Crash \/ Network \/ Strangers

\* A process that is not killed takes its next step.
Spec == Init /\ [][Next]_vars /\ WF_vars(Run)

-----------------------------------------------------------------------------
(* Properties *)

\* The end its scenario names for a job.
PromisedEnd ==
    CASE Scenario("review-timeout") -> <<"timeout", "none">>
      [] Scenario("prepare-timeout") ->
            IF mode = "run" THEN <<"submitted", "none">> ELSE <<"timeout", "none">>
      [] case.scenario \in {"reject-no-appeal", "approve-appeal-resolve-reject"} ->
            <<"rejected", "reject">>
      [] OTHER -> <<"completed", "approve">>

\* A receipt that says "passed" names a job this case created, whose money was
\* paid once, to the party the scenario names, and none is left in escrow; a
\* prepared job is the one exception.  Whatever blocks, strangers, lost and late
\* transactions came in between, and also for the script that counts failed
\* checks and goes on (lines 402 to 439 and 441 to 475 of the mainnet script).
PassedMeansSettled ==
    receipt.result = "passed" /\ ~Running =>
        /\ receipt.job \in Ours
        /\ PromisedEnd[1] = "submitted" \/
              LET j == jobs[receipt.job]
              IN  /\ <<j.status, j.final>> = PromisedEnd
                  /\ ~j.escrow /\ j.payments = 1

\* A script that takes the job from the result of its own create-job never sends
\* a call for the job of somebody else who created one at the same time.
OnlyOwnJobs ==
    /\ tx # NoTx /\ ~Sending.tolerant
    /\ tx.fn \notin {"transfer", "create-job"}
    => tx.job \in Ours

\* A first run that stops for any reason leaves no escrow full that its receipt
\* does not name.
FundedJobsAreNamed ==
    runs = 1 /\ ~Running /\ Receipt.saves =>
        \A i \in Ours : jobs[i].escrow => receipt.job = i

\* A run touches no job but its own and leaves none of its own out of sight.
KeepsToItsJobs == OnlyOwnJobs /\ FundedJobsAreNamed

\* Every run ends, whatever became of the transaction it waits for.
EveryRunEnds == Running ~> ~Running

\* The suite can resume a case as long as its prepared job waits: the receipt
\* still names that job (e2e-autonomous-escrow-testnet.mjs:5-6).
PreparedIsResumable ==
    Is("auto-test") /\ ~Running /\ told # NoJob /\ jobs[told].escrow =>
        receipt.job = told

=============================================================================
