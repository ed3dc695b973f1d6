--------------------------- MODULE ScriptsProofs ---------------------------
(***************************************************************************)
(* Theorems about EscrowScripts and Deployments, for every set of cases    *)
(* and every bound: a receipt that says "passed" names a job whose money   *)
(* was paid once to the party the scenario names, and a run keeps to its   *)
(* own job and names it before it funds it; a deployment that says         *)
(* "passed" has left everything in place, one that minds the mempool sends *)
(* nothing twice, and the fees it reviewed cover what it sends.            *)
(***************************************************************************)
EXTENDS EscrowScripts, Deployments, SequenceTheorems, TotalsProofs

-----------------------------------------------------------------------------
(* The steps of a script *)

Actors == {"client", "provider", "evaluator", "authority"}
Decisions == {"none", "approve", "reject"}
Args == Decisions \cup Actors
EscrowCalls ==
    {"set-budget", "fund-job", "assign-provider", "submit-work",
     "record-decision", "appeal-decision", "resolve-appeal", "complete-job",
     "reject-job", "finalize-decision", "settle-appeal-timeout",
     "settle-review-timeout", "rate-provider"}
Fns == EscrowCalls \cup {"transfer", "create-job"}
Statuses == {"open", "priced", "funded", "assigned", "submitted", "pending",
             "disputed", "completed", "rejected", "timeout", "expired"}
Settled == {"completed", "rejected", "timeout"}

Verifications == [kind : {"verify"}, what : Worlds]
Fundings == [kind : {"fund"}, fn : {"transfer"}, by : {"client"}, arg : Actors]
Calls == [kind : {"call", "unchecked", "refused"}, fn : EscrowCalls, by : Actors, arg : Args]
Expectations == [kind : {"expect"}, status : Statuses, escrow : BOOLEAN]
Endings == [kind : {"terminal"}, status : Settled, final : Decisions]
CreateJob == Call("create-job", "client")
SetBudget == Call("set-budget", "client")

\* The steps that need no job, and those that leave the job of the run alone.
Preliminary == Verifications \cup Fundings \cup {CountJobs}
Opening == Preliminary \cup {CreateJob, TakeLastJob}
OnJob == Verifications \cup Calls \cup Expectations \cup Endings
            \cup {NameJob, JobsGrewByOne, Rated, WhenDue, MustBeDue}
            \cup {s \in {Prepared} : Scenario("prepare-timeout")}
            \cup {s \in {Await} : case.scenario \in AutoTestDelayed}
AnyStep == Opening \cup OnJob

\* The steps s name their job at n: up to n none needs it, after n none changes it.
IsHiring(s, n) ==
    /\ s \in Seq(AnyStep) /\ n \in 0..Len(s)
    /\ \A i \in 1..Len(s) : i <= n => s[i] \in Opening
    /\ \A i \in 1..Len(s) : i > n => s[i] \in OnJob
\* ... by creating it, and give it a budget next.
IsNaming(s, n) ==
    /\ IsHiring(s, n)
    /\ n \in 1..(Len(s) - 1) /\ s[n] = CreateJob /\ s[n + 1] = SetBudget
    /\ \A i \in 1..Len(s) : i < n => s[i] \in Preliminary

\* What one sequence of steps after another is.
LEMMA Concatenated ==
    ASSUME NEW S, NEW a \in Seq(S), NEW b \in Seq(S)
    PROVE  /\ a \o b \in Seq(S)
           /\ Len(a \o b) = Len(a) + Len(b) /\ Len(a) \in Nat /\ Len(b) \in Nat
           /\ \A i \in 1..Len(a) : (a \o b)[i] = a[i]
           /\ \A i \in 1..Len(b) : (a \o b)[Len(a) + i] = b[i]
           /\ \A i \in (Len(a) + 1)..(Len(a) + Len(b)) :
                  (a \o b)[i] = b[i - Len(a)] /\ i - Len(a) \in 1..Len(b)
BY ConcatProperties

LEMMA Widen ==
    ASSUME NEW S, NEW T, S \subseteq T, NEW s \in Seq(S)
    PROVE  s \in Seq(T) /\ Len(s) \in Nat /\ \A i \in 1..Len(s) : s[i] \in S
<1>1. Len(s) \in Nat /\ s \in [1..Len(s) -> S]
  BY LenProperties
<1>2. s \in [1..Len(s) -> T]
  BY <1>1
<1>3. s \in Seq(T)
  BY <1>1, <1>2, SeqDef
<1> QED
  BY <1>1, <1>3

LEMMA StepSets ==
    /\ Preliminary \subseteq Opening /\ Opening \subseteq AnyStep
    /\ OnJob \subseteq AnyStep /\ Preliminary \subseteq AnyStep
BY DEF Opening, AnyStep

\* Checks before the steps that name the job.
LEMMA Prepended ==
    ASSUME NEW a \in Seq(Preliminary), NEW b, NEW n, IsNaming(b, n)
    PROVE  IsNaming(a \o b, Len(a) + n)
<1>1. a \in Seq(AnyStep) /\ Len(a) \in Nat
      /\ \A i \in 1..Len(a) : a[i] \in Preliminary
  BY StepSets, Widen
<1>2. /\ b \in Seq(AnyStep) /\ n \in 1..(Len(b) - 1)
      /\ \A i \in 1..Len(b) : i <= n => b[i] \in Opening
      /\ \A i \in 1..Len(b) : i > n => b[i] \in OnJob
      /\ \A i \in 1..Len(b) : i < n => b[i] \in Preliminary
      /\ b[n] = CreateJob /\ b[n + 1] = SetBudget
  BY DEF IsNaming, IsHiring
<1> DEFINE s == a \o b
<1>3. /\ s \in Seq(AnyStep) /\ Len(s) = Len(a) + Len(b)
      /\ Len(a) \in Nat /\ Len(b) \in Nat
      /\ \A i \in 1..Len(a) : s[i] = a[i]
      /\ \A i \in 1..Len(b) : s[Len(a) + i] = b[i]
      /\ \A i \in (Len(a) + 1)..(Len(a) + Len(b)) :
             s[i] = b[i - Len(a)] /\ i - Len(a) \in 1..Len(b)
  BY <1>1, <1>2, Concatenated
<1> HIDE DEF s
<1>4. ASSUME NEW i \in 1..Len(s)
      PROVE  /\ i <= Len(a) + n => s[i] \in Opening
             /\ i > Len(a) + n => s[i] \in OnJob
             /\ i < Len(a) + n => s[i] \in Preliminary
  <2>1. CASE i <= Len(a)
    BY <1>1, <1>2, <1>3, <2>1, StepSets
  <2>2. CASE i > Len(a)
    <3>1. i \in (Len(a) + 1)..(Len(a) + Len(b))
      BY <1>3, <2>2
    <3>2. s[i] = b[i - Len(a)] /\ i - Len(a) \in 1..Len(b)
      BY <1>3, <3>1
    <3> QED
      BY <1>2, <1>3, <3>2
  <2> QED
    BY <1>3, <2>1, <2>2
<1>5. s[Len(a) + n] = CreateJob /\ s[Len(a) + n + 1] = SetBudget
  <2>1. n \in 1..Len(b) /\ n + 1 \in 1..Len(b)
    BY <1>2, <1>3
  <2>2. Len(a) + n + 1 = Len(a) + (n + 1)
    BY <1>2, <1>3
  <2> QED
    BY <1>2, <1>3, <2>1, <2>2
<1> QED
  BY <1>2, <1>3, <1>4, <1>5 DEF IsNaming, IsHiring, s

\* Steps on the job after those that name it.
LEMMA HiringAppended ==
    ASSUME NEW a, NEW n, IsHiring(a, n), NEW b \in Seq(OnJob)
    PROVE  IsHiring(a \o b, n)
<1>1. b \in Seq(AnyStep) /\ Len(b) \in Nat /\ \A i \in 1..Len(b) : b[i] \in OnJob
  BY StepSets, Widen
<1>2. /\ a \in Seq(AnyStep) /\ n \in 0..Len(a)
      /\ \A i \in 1..Len(a) : i <= n => a[i] \in Opening
      /\ \A i \in 1..Len(a) : i > n => a[i] \in OnJob
  BY DEF IsHiring
<1> DEFINE s == a \o b
<1>3. /\ s \in Seq(AnyStep) /\ Len(s) = Len(a) + Len(b)
      /\ Len(a) \in Nat /\ Len(b) \in Nat
      /\ \A i \in 1..Len(a) : s[i] = a[i]
      /\ \A i \in (Len(a) + 1)..(Len(a) + Len(b)) :
             s[i] = b[i - Len(a)] /\ i - Len(a) \in 1..Len(b)
  BY <1>1, <1>2, Concatenated
<1> HIDE DEF s
<1>4. ASSUME NEW i \in 1..Len(s)
      PROVE  /\ i <= n => s[i] \in Opening
             /\ i > n => s[i] \in OnJob
  <2>1. CASE i <= Len(a)
    BY <1>2, <1>3, <2>1
  <2>2. CASE i > Len(a)
    BY <1>1, <1>2, <1>3, <2>2
  <2> QED
    BY <1>3, <2>1, <2>2
<1> QED
  BY <1>2, <1>3, <1>4 DEF IsHiring, s

LEMMA NamingAppended ==
    ASSUME NEW a, NEW n, IsNaming(a, n), NEW b \in Seq(OnJob)
    PROVE  IsNaming(a \o b, n)
<1>1. IsHiring(a, n) /\ IsHiring(a \o b, n)
  BY HiringAppended DEF IsNaming
<1>2. b \in Seq(AnyStep) /\ a \in Seq(AnyStep)
  BY <1>1, StepSets, Widen DEF IsHiring
<1>3. /\ Len(a \o b) = Len(a) + Len(b) /\ Len(a) \in Nat /\ Len(b) \in Nat
      /\ \A i \in 1..Len(a) : (a \o b)[i] = a[i]
  BY <1>2, Concatenated
<1>4. /\ n \in 1..(Len(a) - 1) /\ a[n] = CreateJob /\ a[n + 1] = SetBudget
      /\ \A i \in 1..Len(a) : i < n => a[i] \in Preliminary
  BY DEF IsNaming
<1>5. n \in 1..Len(a) /\ n + 1 \in 1..Len(a)
  BY <1>3, <1>4
<1>6. \A i \in 1..Len(a \o b) : i < n => (a \o b)[i] \in Preliminary
  BY <1>3, <1>4
<1> QED
  BY <1>1, <1>3, <1>4, <1>5, <1>6 DEF IsNaming

-----------------------------------------------------------------------------
(* The step that ends a scenario is among its steps *)

Holder(s, e) == s \in Seq(AnyStep) /\ \E i \in 1..Len(s) : s[i] = e

LEMMA HoldsItsOwn ==
    ASSUME NEW s \in Seq(AnyStep), NEW i \in 1..Len(s)
    PROVE  Holder(s, s[i])
BY DEF Holder

LEMMA HolderAppended ==
    ASSUME NEW a, NEW e, Holder(a, e), NEW b \in Seq(AnyStep)
    PROVE  Holder(a \o b, e)
<1>1. a \in Seq(AnyStep) /\ \E i \in 1..Len(a) : a[i] = e
  BY DEF Holder
<1>2. /\ a \o b \in Seq(AnyStep) /\ Len(a \o b) = Len(a) + Len(b)
      /\ Len(a) \in Nat /\ Len(b) \in Nat
      /\ \A i \in 1..Len(a) : (a \o b)[i] = a[i]
  BY <1>1, Concatenated
<1> QED
  BY <1>1, <1>2 DEF Holder

LEMMA HolderPrepended ==
    ASSUME NEW a \in Seq(AnyStep), NEW b, NEW e, Holder(b, e)
    PROVE  Holder(a \o b, e)
<1>1. b \in Seq(AnyStep)
  BY DEF Holder
<1>2. PICK i \in 1..Len(b) : b[i] = e
  BY DEF Holder
<1>3. /\ a \o b \in Seq(AnyStep) /\ Len(a \o b) = Len(a) + Len(b)
      /\ Len(a) \in Nat /\ Len(b) \in Nat
      /\ \A k \in 1..Len(b) : (a \o b)[Len(a) + k] = b[k]
  BY <1>1, Concatenated
<1>4. Len(a) + i \in 1..Len(a \o b) /\ (a \o b)[Len(a) + i] = e
  BY <1>2, <1>3
<1> QED
  BY <1>3, <1>4 DEF Holder

LEMMA Members ==
    /\ \A w \in Worlds : Verify(w) \in Preliminary /\ Verify(w) \in OnJob
    /\ \A x \in Actors : Fund(x) \in Preliminary
    /\ \A fn \in EscrowCalls, by \in Actors :
          /\ Call(fn, by) \in OnJob /\ Refused(fn, by) \in OnJob
          /\ Unchecked(fn, by) \in OnJob
    /\ \A fn \in EscrowCalls, by \in Actors, d \in Decisions :
          Judge(fn, by, d) \in OnJob
    /\ \A st \in Statuses, e \in BOOLEAN : Expect(st, e) \in OnJob
    /\ \A st \in Settled, d \in Decisions : Terminal(st, d) \in OnJob
    /\ CountJobs \in Preliminary /\ CreateJob \in Opening /\ TakeLastJob \in Opening
    /\ {NameJob, JobsGrewByOne, Rated, WhenDue, MustBeDue} \subseteq OnJob
    /\ Scenario("prepare-timeout") => Prepared \in OnJob
    /\ case.scenario \in AutoTestDelayed => Await \in OnJob
    /\ \A x \in Preliminary : x \in Opening
    /\ \A x \in Opening : x \in AnyStep
    /\ \A x \in OnJob : x \in AnyStep
<1>1. \A w \in Worlds : Verify(w) \in Verifications
  BY DEF Verify, Verifications
<1>2. \A x \in Actors : Fund(x) \in Fundings
  BY DEF Fund, Fundings
<1>3. \A fn \in EscrowCalls, by \in Actors :
          /\ Call(fn, by) \in Calls /\ Refused(fn, by) \in Calls
          /\ Unchecked(fn, by) \in Calls
  BY DEF Call, Refused, Unchecked, Calls, Args, Decisions
<1>4. \A fn \in EscrowCalls, by \in Actors, d \in Decisions :
          Judge(fn, by, d) \in Calls
  BY DEF Judge, Calls, Args
<1>5. \A st \in Statuses, e \in BOOLEAN : Expect(st, e) \in Expectations
  BY DEF Expect, Expectations
<1>6. \A st \in Settled, d \in Decisions : Terminal(st, d) \in Endings
  BY DEF Terminal, Endings
<1> QED
  BY <1>1, <1>2, <1>3, <1>4, <1>5, <1>6 DEF Preliminary, Opening, OnJob, AnyStep

LEMMA Names ==
    /\ {"roles", "keys", "source", "config", "authority", "token", "caller",
        "funds"} \subseteq Worlds
    /\ {"client", "provider", "evaluator", "authority"} = Actors
    /\ {"none", "approve", "reject"} = Decisions
    /\ {"funded", "submitted", "pending", "disputed", "completed"} \subseteq Statuses
    /\ {"completed", "rejected", "timeout"} = Settled
    /\ {"set-budget", "fund-job", "assign-provider", "submit-work",
        "record-decision", "appeal-decision", "resolve-appeal", "complete-job",
        "reject-job", "finalize-decision", "settle-appeal-timeout",
        "settle-review-timeout", "rate-provider"} = EscrowCalls
    /\ \A e \in {TRUE, FALSE} : e \in BOOLEAN
BY DEF Worlds, Actors, Decisions, Statuses, Settled, EscrowCalls

LEMMA SetBudgetOnJob == SetBudget \in OnJob
BY Members, Names DEF SetBudget

-----------------------------------------------------------------------------
(* The scripts *)

LEMMA SbtcOnly ==
    ASSUME NEW S, NEW s \in Seq(S)
    PROVE  OnlySbtc(s) \in Seq(S)
BY DEF OnlySbtc

LEMMA Releases ==
    /\ AutoMainRelease \in Seq(Preliminary) /\ AutoMainActors \in Seq(Preliminary)
    /\ AutoTestRelease \in Seq(Preliminary) /\ AutoTestActors \in Seq(Preliminary)
    /\ V3MainRelease \in Seq(Preliminary) /\ V3MainPreflight \in Seq(Preliminary)
    /\ V3MainActors \in Seq(Preliminary)
    /\ V4TestRelease \in Seq(Preliminary) /\ V4TestActors \in Seq(Preliminary)
    /\ AutoTestRelease \in Seq(OnJob) /\ V4TestRelease \in Seq(OnJob)
<1> DEFINE P == Preliminary
<1>1. \A w \in {"roles", "keys", "source", "config", "authority", "token",
                "caller", "funds"} : Verify(w) \in P /\ Verify(w) \in OnJob
  BY Members, Names
<1>2. \A x \in {"provider", "evaluator", "authority"} : Fund(x) \in P
  BY Members, Names
<1> HIDE DEF P
<1>3. /\ <<Verify("source"), Verify("config"), Verify("authority")>> \in Seq(P)
      /\ <<Verify("caller")>> \in Seq(P) /\ <<Verify("token")>> \in Seq(P)
      /\ <<Verify("source"), Verify("config")>> \in Seq(P)
      /\ <<Verify("source"), Verify("config"), Verify("token"),
           Verify("caller")>> \in Seq(P)
      /\ <<Verify("funds"), Verify("keys")>> \in Seq(P)
  BY <1>1
<1>4. /\ <<Verify("source"), Verify("config"), Verify("authority")>> \in Seq(OnJob)
      /\ <<Verify("caller")>> \in Seq(OnJob) /\ <<Verify("token")>> \in Seq(OnJob)
      /\ <<Verify("source"), Verify("config")>> \in Seq(OnJob)
  BY <1>1
<1>5. /\ <<Verify("funds"), Fund("provider"), Fund("evaluator"),
           Fund("authority")>> \in Seq(P)
      /\ <<Verify("funds"), Fund("provider"), Fund("evaluator")>> \in Seq(P)
      /\ <<Verify("roles"), Fund("provider"), Fund("evaluator")>> \in Seq(P)
  BY <1>1, <1>2
<1>6. /\ OnlySbtc(<<Verify("token")>>) \in Seq(P)
      /\ OnlySbtc(<<Verify("token")>>) \in Seq(OnJob)
  BY <1>3, <1>4, SbtcOnly
<1>7. /\ AutoMainRelease \in Seq(P) /\ AutoTestRelease \in Seq(P)
      /\ V4TestRelease \in Seq(P)
  BY <1>3, <1>6, ConcatProperties DEF AutoMainRelease, AutoTestRelease, V4TestRelease
<1>8. AutoTestRelease \in Seq(OnJob) /\ V4TestRelease \in Seq(OnJob)
  BY <1>4, <1>6, ConcatProperties DEF AutoTestRelease, V4TestRelease
<1> QED
  BY <1>3, <1>5, <1>7, <1>8
  DEF P, AutoMainActors, AutoTestActors, V3MainRelease, V3MainPreflight,
      V3MainActors, V4TestActors

\* A job that is created and given a budget, and what follows.
LEMMA Created ==
    ASSUME NEW c \in OnJob, NEW d \in OnJob, NEW e \in OnJob, NEW f \in OnJob,
           NEW g \in OnJob
    PROVE  /\ IsNaming(<<CreateJob, SetBudget, c, d, e>>, 1)
           /\ IsNaming(<<CreateJob, SetBudget, c, d, e, f, g>>, 1)
           /\ IsNaming(<<CountJobs, CreateJob, SetBudget, c, d, e, f, g>>, 2)
<1>1. /\ CreateJob \in Opening /\ CountJobs \in Preliminary /\ CountJobs \in Opening
      /\ SetBudget \in OnJob
  BY Members, SetBudgetOnJob
<1>2. \A x : x \in Opening \/ x \in OnJob => x \in AnyStep
  BY Members
<1>3. PICK p : p = CreateJob
  OBVIOUS
<1>4. PICK q : q = SetBudget
  OBVIOUS
<1>5. PICK r : r = CountJobs
  OBVIOUS
<1>6. /\ p \in Opening /\ q \in OnJob /\ r \in Opening /\ r \in Preliminary
      /\ p \in AnyStep /\ q \in AnyStep /\ r \in AnyStep /\ c \in AnyStep
      /\ d \in AnyStep /\ e \in AnyStep /\ f \in AnyStep /\ g \in AnyStep
  BY <1>1, <1>2, <1>3, <1>4, <1>5
<1>7. IsNaming(<<p, q, c, d, e>>, 1)
  <2> DEFINE s == <<p, q, c, d, e>>
  <2>1. s \in Seq(AnyStep) /\ Len(s) = 5
    BY <1>6
  <2>2. \A i \in 1..5 : i > 1 => s[i] \in OnJob
    BY <1>6
  <2>3. s[1] = p /\ s[2] = q
    OBVIOUS
  <2> QED
    BY <2>1, <2>2, <2>3, <1>3, <1>4, <1>6 DEF IsNaming, IsHiring
<1>8. IsNaming(<<p, q, c, d, e, f, g>>, 1)
  <2> DEFINE s == <<p, q, c, d, e, f, g>>
  <2>1. s \in Seq(AnyStep) /\ Len(s) = 7
    BY <1>6
  <2>2. \A i \in 1..7 : i > 1 => s[i] \in OnJob
    BY <1>6
  <2>3. s[1] = p /\ s[2] = q
    OBVIOUS
  <2> QED
    BY <2>1, <2>2, <2>3, <1>3, <1>4, <1>6 DEF IsNaming, IsHiring
<1>9. IsNaming(<<r, p, q, c, d, e, f, g>>, 2)
  <2> DEFINE s == <<r, p, q, c, d, e, f, g>>
  <2>1. s \in Seq(AnyStep) /\ Len(s) = 8
    BY <1>6
  <2>2. \A i \in 1..8 : i > 2 => s[i] \in OnJob
    BY <1>6
  <2>3. s[1] = r /\ s[2] = p /\ s[3] = q
    OBVIOUS
  <2>4. \A i \in 1..8 : (i <= 2 => s[i] \in Opening)
                        /\ (i < 2 => s[i] \in Preliminary)
    BY <2>3, <1>6
  <2> HIDE DEF s
  <2>5. IsNaming(s, 2)
    BY <2>1, <2>2, <2>3, <2>4, <1>3, <1>4 DEF IsNaming, IsHiring
  <2> QED
    BY <2>5 DEF s
<1> QED
  BY <1>3, <1>4, <1>5, <1>7, <1>8, <1>9

\* A job that is taken from the counter.
LEMMA TakenFromCounter ==
    ASSUME NEW a \in Opening, NEW b \in Opening, NEW c \in Opening,
           NEW d \in Opening, NEW e \in OnJob, NEW f \in OnJob, NEW g \in OnJob,
           NEW h \in OnJob, NEW i \in OnJob, NEW j \in OnJob
    PROVE  IsHiring(<<a, b, c, d, e, f, g, h, i, j>>, 4)
<1> DEFINE s == <<a, b, c, d, e, f, g, h, i, j>>
<1>1. /\ a \in AnyStep /\ b \in AnyStep /\ c \in AnyStep /\ d \in AnyStep
      /\ e \in AnyStep /\ f \in AnyStep /\ g \in AnyStep /\ h \in AnyStep
      /\ i \in AnyStep /\ j \in AnyStep
  BY Members
<1>2. s \in Seq(AnyStep) /\ Len(s) = 10
  BY <1>1
<1>3. \A k \in 1..10 : k > 4 => s[k] \in OnJob
  OBVIOUS
<1>4. \A k \in 1..10 : k <= 4 => s[k] \in Opening
  OBVIOUS
<1> HIDE DEF s
<1>5. IsHiring(s, 4)
  BY <1>2, <1>3, <1>4 DEF IsHiring
<1> QED
  BY <1>5 DEF s

LEMMA Hirings ==
    /\ IsNaming(AutoMainHiring, 1) /\ IsNaming(AutoTestHiring, 1)
    /\ IsNaming(V3MainHiring, 2) /\ IsNaming(V4TestHiring, 1)
    /\ IsHiring(V2TestHiring, 4)
<1>1. /\ "fund-job" \in EscrowCalls /\ "assign-provider" \in EscrowCalls
      /\ "submit-work" \in EscrowCalls /\ "client" \in Actors
      /\ "provider" \in Actors /\ "evaluator" \in Actors
      /\ "funded" \in Statuses /\ "submitted" \in Statuses
  BY Names
<1>2. /\ Call("fund-job", "client") \in OnJob
      /\ Call("assign-provider", "client") \in OnJob
      /\ Call("submit-work", "provider") \in OnJob
      /\ Expect("funded", TRUE) \in OnJob /\ Expect("submitted", TRUE) \in OnJob
  BY <1>1, Members
<1>3. CreateJob = Call("create-job", "client") /\ SetBudget = Call("set-budget", "client")
  BY DEF CreateJob, SetBudget
<1>4. IsNaming(AutoMainHiring, 1) /\ IsNaming(AutoTestHiring, 1)
      /\ IsNaming(V3MainHiring, 2)
  BY <1>2, <1>3, Created DEF AutoMainHiring, AutoTestHiring, V3MainHiring
<1>5. IsNaming(V4TestHiring, 1)
  BY <1>2, <1>3, Created DEF V4TestHiring
<1>6. IsHiring(V2TestHiring, 4)
  <2>1. /\ Fund("provider") \in Opening /\ Fund("evaluator") \in Opening
        /\ CreateJob \in Opening /\ TakeLastJob \in Opening
        /\ Unchecked("set-budget", "client") \in OnJob
        /\ Unchecked("assign-provider", "client") \in OnJob
        /\ Unchecked("submit-work", "provider") \in OnJob
    BY <1>1, Members, Names
  <2> QED
    BY <1>2, <1>3, <2>1, TakenFromCounter DEF V2TestHiring
<1> QED
  BY <1>4, <1>5, <1>6

\* What follows is about the job the run has.
LEMMA Later ==
    /\ AutoMainJudging \in Seq(OnJob) /\ AutoMainResolving \in Seq(OnJob)
    /\ AutoTestJudging \in Seq(OnJob) /\ AutoTestAppealing \in Seq(OnJob)
    /\ AutoTestResolving \in Seq(OnJob)
    /\ case.scenario \in AutoTestDelayed => <<Await>> \in Seq(OnJob)
    /\ \A d \in Decisions : /\ AutoMainTerminal(d) \in Seq(OnJob)
                            /\ AutoTestTerminal(d) \in Seq(OnJob)
    /\ \A st \in Statuses, fn \in EscrowCalls :
          <<Expect(st, TRUE), WhenDue, Call(fn, "client")>> \in Seq(OnJob)
    /\ V3MainCompleting \in Seq(OnJob) /\ V3MainRating \in Seq(OnJob)
    /\ V4TestSubmitting \in Seq(OnJob) /\ V4TestCompleting \in Seq(OnJob)
    /\ V4TestRating \in Seq(OnJob)
    /\ <<NameJob, Expect("submitted", TRUE), MustBeDue,
         Call("settle-review-timeout", "client"), Terminal("timeout", "none")>>
          \in Seq(OnJob)
    /\ V2TestGuarding \in Seq(OnJob) /\ V2TestCompleting \in Seq(OnJob)
    /\ V2TestRating \in Seq(OnJob)
<1>1. /\ {"client", "provider", "evaluator", "authority"} = Actors
      /\ {"none", "approve", "reject"} = Decisions
      /\ {"funded", "submitted", "pending", "disputed", "completed"} \subseteq Statuses
      /\ {"completed", "rejected", "timeout"} = Settled
      /\ {"record-decision", "appeal-decision", "resolve-appeal", "complete-job",
          "reject-job", "settle-review-timeout", "rate-provider",
          "submit-work"} \subseteq EscrowCalls
  BY Names
<1>2. /\ \A fn \in EscrowCalls, by \in Actors :
            Call(fn, by) \in OnJob /\ Refused(fn, by) \in OnJob
      /\ \A fn \in EscrowCalls, by \in Actors, d \in Decisions :
            Judge(fn, by, d) \in OnJob
      /\ \A st \in Statuses, e \in BOOLEAN : Expect(st, e) \in OnJob
      /\ \A st \in Settled, d \in Decisions : Terminal(st, d) \in OnJob
      /\ {NameJob, JobsGrewByOne, Rated, WhenDue, MustBeDue} \subseteq OnJob
      /\ Scenario("prepare-timeout") => Prepared \in OnJob
      /\ case.scenario \in AutoTestDelayed => Await \in OnJob
  BY Members
<1>3. /\ AutoMainFirst \in {"approve", "reject"} /\ AutoMainFinal \in {"approve", "reject"}
      /\ AutoTestFirst \in {"approve", "reject"} /\ AutoTestFinal \in {"approve", "reject"}
  BY DEF AutoMainFirst, AutoMainFinal, AutoTestFirst, AutoTestFinal
<1>4. \A a, b, c, d, e \in OnJob :
          /\ <<>> \in Seq(OnJob) /\ <<a>> \in Seq(OnJob) /\ <<a, b>> \in Seq(OnJob)
          /\ <<a, b, c>> \in Seq(OnJob) /\ <<a, b, c, d>> \in Seq(OnJob)
          /\ <<a, b, c, d, e>> \in Seq(OnJob)
  OBVIOUS
<1>5. AutoMainJudging \in Seq(OnJob)
  <2>1. /\ Judge("record-decision", "evaluator", AutoMainFirst) \in OnJob
        /\ Expect("pending", TRUE) \in OnJob /\ Expect("disputed", TRUE) \in OnJob
    BY <1>1, <1>2, <1>3
  <2>2. Call("appeal-decision",
             IF AutoMainFirst = "approve" THEN "client" ELSE "provider") \in OnJob
    BY <1>1, <1>2
  <2> QED
    BY <1>4, <2>1, <2>2 DEF AutoMainJudging
<1>6. AutoMainResolving \in Seq(OnJob) /\ AutoTestResolving \in Seq(OnJob)
  <2>1. /\ Judge("resolve-appeal", "authority", AutoMainFinal) \in OnJob
        /\ Judge("resolve-appeal", "authority", AutoTestFinal) \in OnJob
    BY <1>1, <1>2, <1>3
  <2> QED
    BY <1>4, <2>1 DEF AutoMainResolving, AutoTestResolving
<1>7. AutoTestJudging \in Seq(OnJob)
  <2>1. /\ Judge("record-decision", "evaluator", AutoTestFirst) \in OnJob
        /\ Expect("pending", TRUE) \in OnJob
    BY <1>1, <1>2, <1>3
  <2> QED
    BY <1>4, <2>1 DEF AutoTestJudging
<1>8. AutoTestAppealing \in Seq(OnJob)
  <2>1. Expect("disputed", TRUE) \in OnJob
    BY <1>1, <1>2
  <2>2. Call("appeal-decision",
             IF AutoTestFirst = "approve" THEN "client" ELSE "provider") \in OnJob
    BY <1>1, <1>2
  <2> QED
    BY <1>4, <2>1, <2>2 DEF AutoTestAppealing
<1>9. ASSUME NEW d \in Decisions
      PROVE  AutoMainTerminal(d) \in Seq(OnJob) /\ AutoTestTerminal(d) \in Seq(OnJob)
  <2>1. /\ Terminal("completed", d) \in OnJob /\ Terminal("rejected", d) \in OnJob
        /\ Terminal("timeout", "none") \in OnJob
    BY <1>1, <1>2
  <2> QED
    BY <1>4, <2>1 DEF AutoMainTerminal, AutoTestTerminal
<1>10. ASSUME NEW st \in Statuses, NEW fn \in EscrowCalls
       PROVE  <<Expect(st, TRUE), WhenDue, Call(fn, "client")>> \in Seq(OnJob)
  <2>1. Expect(st, TRUE) \in OnJob /\ Call(fn, "client") \in OnJob /\ WhenDue \in OnJob
    BY <1>1, <1>2
  <2> QED
    BY <1>4, <2>1
<1>11. /\ Call("complete-job", "evaluator") \in OnJob
       /\ Expect("completed", FALSE) \in OnJob /\ Terminal("completed", "approve") \in OnJob
       /\ Call("rate-provider", "client") \in OnJob /\ Rated \in OnJob
       /\ JobsGrewByOne \in OnJob
       /\ Call("submit-work", "provider") \in OnJob /\ Expect("submitted", TRUE) \in OnJob
       /\ Refused("settle-review-timeout", "client") \in OnJob
       /\ Call("settle-review-timeout", "client") \in OnJob
       /\ Terminal("timeout", "none") \in OnJob /\ NameJob \in OnJob
       /\ MustBeDue \in OnJob /\ Refused("reject-job", "client") \in OnJob
       /\ Refused("rate-provider", "client") \in OnJob
  BY <1>1, <1>2
<1>12. /\ V3MainCompleting \in Seq(OnJob) /\ V3MainRating \in Seq(OnJob)
       /\ V2TestGuarding \in Seq(OnJob) /\ V2TestCompleting \in Seq(OnJob)
       /\ V2TestRating \in Seq(OnJob)
  BY <1>4, <1>11 DEF V3MainCompleting, V3MainRating, V2TestGuarding,
                     V2TestCompleting, V2TestRating
<1>13. /\ V4TestSubmitting \in Seq(OnJob) /\ V4TestCompleting \in Seq(OnJob)
       /\ V4TestRating \in Seq(OnJob)
  <2>1. V4TestSubmitting \in Seq(OnJob) /\ V4TestRating \in Seq(OnJob)
    BY <1>4, <1>11 DEF V4TestSubmitting, V4TestRating
  <2>2. CASE Scenario("prepare-timeout")
    <3>1. <<Prepared>> \in Seq(OnJob)
      BY <1>2, <1>4, <2>2
    <3> QED
      BY <2>1, <2>2, <3>1 DEF V4TestCompleting
  <2>3. CASE ~Scenario("prepare-timeout")
    BY <1>4, <1>11, <2>1, <2>3 DEF V4TestCompleting
  <2> QED
    BY <2>2, <2>3
<1>14. case.scenario \in AutoTestDelayed => <<Await>> \in Seq(OnJob)
  BY <1>2, <1>4
<1>15. <<NameJob, Expect("submitted", TRUE), MustBeDue,
         Call("settle-review-timeout", "client"), Terminal("timeout", "none")>>
          \in Seq(OnJob)
  BY <1>4, <1>11
<1> QED
  BY <1>5, <1>6, <1>7, <1>8, <1>9, <1>10, <1>12, <1>13, <1>14, <1>15

LEMMA OnJobHires ==
    ASSUME NEW s \in Seq(OnJob)
    PROVE  IsHiring(s, 0) /\ s \in Seq(AnyStep)
BY StepSets, Widen DEF IsHiring

-----------------------------------------------------------------------------
(* ... as a whole *)

LEMMA AutoMainHires ==
    /\ \E n \in Nat : IsNaming(AutoMain, n)
    /\ \A e : Holder(AutoMainTerminal(AutoMainFinal), e) => Holder(AutoMain, e)
<1>1. AutoMainFinal \in Decisions
  BY DEF AutoMainFinal, Decisions
<1> DEFINE r == AutoMainRelease \o AutoMainActors
           h == r \o AutoMainHiring
           j == h \o AutoMainJudging \o AutoMainResolving
<1>2. r \in Seq(Preliminary)
  BY Releases, ConcatProperties
<1>3. IsNaming(h, Len(r) + 1)
  BY <1>2, Hirings, Prepended
<1>4. IsNaming(j, Len(r) + 1)
  BY <1>3, Later, NamingAppended
<1>5. IsNaming(j \o AutoMainTerminal(AutoMainFinal), Len(r) + 1)
  BY <1>1, <1>4, Later, NamingAppended
<1>6. j \in Seq(AnyStep) /\ Len(r) + 1 \in Nat
  BY <1>2, <1>4, LenProperties DEF IsNaming, IsHiring
<1>7. AutoMain = j \o AutoMainTerminal(AutoMainFinal)
  BY DEF AutoMain
<1> QED
  BY <1>5, <1>6, <1>7, HolderPrepended

LEMMA V3MainHires ==
    /\ \E n \in Nat : IsNaming(V3Main, n)
    /\ \A e : Holder(V3MainCompleting, e) => Holder(V3Main, e)
<1> DEFINE r == V3MainRelease \o V3MainPreflight \o V3MainActors
           h == r \o V3MainHiring
<1>1. r \in Seq(Preliminary)
  BY Releases, ConcatProperties
<1>2. IsNaming(h, Len(r) + 2)
  BY <1>1, Hirings, Prepended
<1>3. IsNaming((h \o V3MainCompleting) \o V3MainRating, Len(r) + 2)
  BY <1>2, Later, NamingAppended
<1>4. h \in Seq(AnyStep) /\ Len(r) + 2 \in Nat
  BY <1>1, <1>2, LenProperties DEF IsNaming, IsHiring
<1>5. V3MainRating \in Seq(AnyStep)
  BY Later, OnJobHires
<1>6. V3Main = (h \o V3MainCompleting) \o V3MainRating
  BY DEF V3Main
<1> HIDE DEF h
<1>7. \A e : Holder(V3MainCompleting, e) => Holder(V3Main, e)
  BY <1>4, <1>5, <1>6, HolderPrepended, HolderAppended
<1> QED
  BY <1>3, <1>4, <1>6, <1>7

LEMMA V4TestHires ==
    /\ \E n \in Nat : IsNaming(V4Test, n)
    /\ \A e : Holder(V4TestCompleting, e) => Holder(V4Test, e)
<1> DEFINE r == V4TestRelease \o V4TestActors
           h == (r \o V4TestHiring) \o V4TestSubmitting
<1>1. r \in Seq(Preliminary)
  BY Releases, ConcatProperties
<1>2. IsNaming(h, Len(r) + 1)
  BY <1>1, Hirings, Later, Prepended, NamingAppended
<1>3. IsNaming((h \o V4TestCompleting) \o V4TestRating, Len(r) + 1)
  BY <1>2, Later, NamingAppended
<1>4. h \in Seq(AnyStep) /\ Len(r) + 1 \in Nat
  BY <1>1, <1>2, LenProperties DEF IsNaming, IsHiring
<1>5. V4TestRating \in Seq(AnyStep)
  BY Later, OnJobHires
<1>6. V4Test = (h \o V4TestCompleting) \o V4TestRating
  BY DEF V4Test
<1> HIDE DEF h
<1>7. \A e : Holder(V4TestCompleting, e) => Holder(V4Test, e)
  BY <1>4, <1>5, <1>6, HolderPrepended, HolderAppended
<1> QED
  BY <1>3, <1>4, <1>6, <1>7

LEMMA V2TestHires ==
    /\ IsHiring(V2Test, 4)
    /\ \A e : Holder(V2TestCompleting, e) => Holder(V2Test, e)
<1> DEFINE h == V2TestHiring \o V2TestGuarding
<1>1. IsHiring(h, 4)
  BY Hirings, Later, HiringAppended
<1>2. IsHiring((h \o V2TestCompleting) \o V2TestRating, 4)
  BY <1>1, Later, HiringAppended
<1>3. h \in Seq(AnyStep)
  BY <1>1 DEF IsHiring
<1>4. V2TestRating \in Seq(AnyStep)
  BY Later, OnJobHires
<1>5. V2Test = (h \o V2TestCompleting) \o V2TestRating
  BY DEF V2Test
<1> HIDE DEF h
<1>6. \A e : Holder(V2TestCompleting, e) => Holder(V2Test, e)
  BY <1>3, <1>4, <1>5, HolderPrepended, HolderAppended
<1> QED
  BY <1>2, <1>5, <1>6

LEMMA V4TestSettles ==
    IsHiring(V4TestSettle, 0) /\ Holder(V4TestSettle, Terminal("timeout", "none"))
<1> DEFINE t == <<NameJob, Expect("submitted", TRUE), MustBeDue,
                  Call("settle-review-timeout", "client"),
                  Terminal("timeout", "none")>>
<1>1. V4TestRelease \in Seq(OnJob) /\ t \in Seq(OnJob)
  BY Releases, Later
<1>2. V4TestRelease \o t \in Seq(OnJob)
  BY <1>1, ConcatProperties
<1>3. t[5] = Terminal("timeout", "none") /\ 5 \in 1..Len(t)
  OBVIOUS
<1> HIDE DEF t
<1>4. Holder(t, Terminal("timeout", "none"))
  BY <1>1, <1>3, OnJobHires, HoldsItsOwn
<1>5. V4TestRelease \in Seq(AnyStep)
  BY <1>1, OnJobHires
<1>6. V4TestSettle = V4TestRelease \o t
  BY DEF V4TestSettle, t
<1> QED
  BY <1>2, <1>4, <1>5, <1>6, OnJobHires, HolderPrepended

\* The prepared case of the suite ends with Await, the immediate one with the end
\* of its scenario.
LEMMA AutoTestHires ==
    ASSUME case.scenario \in ScenariosOf("auto-test")
    PROVE  /\ \E n \in Nat : IsNaming(AutoTestPrepare, n)
           /\ IF case.scenario \in AutoTestDelayed
              THEN Holder(AutoTestPrepare, Await)
              ELSE \A e : Holder(AutoTestTerminal(AutoTestFinal), e)
                             => Holder(AutoTestPrepare, e)
<1> DEFINE r == AutoTestRelease \o AutoTestActors
           h == r \o AutoTestHiring
           hj == AutoTestJudging \o <<Await>>
           hja == AutoTestJudging \o AutoTestAppealing \o <<Await>>
           full == AutoTestJudging \o AutoTestAppealing \o AutoTestResolving
           t == AutoTestTerminal(AutoTestFinal)
<1>1. r \in Seq(Preliminary)
  BY Releases, ConcatProperties
<1>2. IsNaming(h, Len(r) + 1) /\ Len(r) + 1 \in Nat
  <2> HIDE DEF r
  <2>1. IsNaming(h, Len(r) + 1)
    BY <1>1, Hirings, Prepended
  <2> QED
    BY <2>1, <1>1, LenProperties
<1>3. /\ case.scenario \in AutoTestDelayed =>
            <<Await>> \in Seq(OnJob) /\ hj \in Seq(OnJob) /\ hja \in Seq(OnJob)
      /\ full \in Seq(OnJob) /\ t \in Seq(OnJob) /\ full \o t \in Seq(OnJob)
  <2>1. AutoTestFinal \in Decisions
    BY DEF AutoTestFinal, Decisions
  <2>2. /\ AutoTestJudging \in Seq(OnJob)
        /\ AutoTestAppealing \in Seq(OnJob) /\ AutoTestResolving \in Seq(OnJob)
        /\ t \in Seq(OnJob)
    BY <2>1, Later
  <2> HIDE DEF t
  <2>3. AutoTestJudging \o AutoTestAppealing \in Seq(OnJob)
    BY <2>2, ConcatProperties
  <2>4. full \in Seq(OnJob)
    BY <2>2, <2>3, ConcatProperties
  <2>6. ASSUME case.scenario \in AutoTestDelayed
        PROVE  <<Await>> \in Seq(OnJob) /\ hj \in Seq(OnJob) /\ hja \in Seq(OnJob)
    <3> DEFINE w == <<Await>>
    <3>1. w \in Seq(OnJob)
      BY <2>6, Later
    <3> HIDE DEF w
    <3>2. AutoTestJudging \o w \in Seq(OnJob)
          /\ (AutoTestJudging \o AutoTestAppealing) \o w \in Seq(OnJob)
      BY <2>2, <2>3, <3>1, ConcatProperties
    <3> QED
      BY <3>1, <3>2 DEF w
  <2> HIDE DEF full
  <2>5. full \o t \in Seq(OnJob)
    BY <2>2, <2>4, ConcatProperties
  <2> QED
    BY <2>2, <2>4, <2>5, <2>6
<1>4. h \in Seq(AnyStep)
  BY <1>2 DEF IsNaming, IsHiring
<1>5. case.scenario \in AutoTestDelayed => Holder(<<Await>>, Await)
  <2> SUFFICES ASSUME case.scenario \in AutoTestDelayed PROVE Holder(<<Await>>, Await)
    OBVIOUS
  <2> DEFINE w == <<Await>>
  <2>1. w[1] = Await /\ 1 \in 1..Len(w) /\ w \in Seq(OnJob)
    BY <1>3
  <2> HIDE DEF w
  <2>2. Holder(w, Await)
    BY <2>1, OnJobHires, HoldsItsOwn
  <2> QED
    BY <2>2 DEF w
<1>6. /\ AutoTestJudging \in Seq(AnyStep) /\ full \in Seq(AnyStep)
      /\ AutoTestJudging \o AutoTestAppealing \in Seq(AnyStep)
  BY <1>3, Later, OnJobHires, ConcatProperties
<1>7. case.scenario \in AutoTestDelayed => Holder(hj, Await) /\ Holder(hja, Await)
  BY <1>5, <1>6, HolderPrepended
<1> DEFINE c == CASE Scenario("review-timeout") -> <<Await>>
                  [] case.scenario \in {"approve-no-appeal", "reject-no-appeal"} -> hj
                  [] Scenario("approve-appeal-timeout") -> hja
                  [] OTHER -> full \o t
<1>8. AutoTestPrepare = h \o c
  BY DEF AutoTestPrepare
<1> HIDE DEF r, h
<1>9. /\ c \in Seq(OnJob)
      /\ case.scenario \in AutoTestDelayed => Holder(c, Await)
      /\ case.scenario \notin AutoTestDelayed => c = full \o t
  <2> HIDE DEF hj, hja, full, t
  <2>1. CASE Scenario("review-timeout")
    BY <1>3, <1>5, <2>1 DEF Scenario, AutoTestDelayed
  <2>2. CASE case.scenario \in {"approve-no-appeal", "reject-no-appeal"}
    BY <1>3, <1>7, <2>2 DEF Scenario, AutoTestDelayed
  <2>3. CASE Scenario("approve-appeal-timeout")
    BY <1>3, <1>7, <2>3 DEF Scenario, AutoTestDelayed
  <2>4. CASE case.scenario \in {"approve-appeal-resolve-reject",
                                "reject-appeal-resolve-approve"}
    BY <1>3, <2>4 DEF Scenario, AutoTestDelayed
  <2> QED
    BY <2>1, <2>2, <2>3, <2>4 DEF Scenario, ScenariosOf
<1> HIDE DEF c
<1>10. IsNaming(AutoTestPrepare, Len(r) + 1)
  BY <1>2, <1>8, <1>9, NamingAppended
<1>11. CASE case.scenario \in AutoTestDelayed
  BY <1>2, <1>4, <1>8, <1>9, <1>10, <1>11, HolderPrepended
<1>12. CASE case.scenario \notin AutoTestDelayed
  <2>1. ASSUME NEW e, Holder(t, e) PROVE Holder(AutoTestPrepare, e)
    <3>1. Holder(full \o t, e)
      BY <1>6, <2>1, HolderPrepended
    <3> QED
      BY <1>4, <1>8, <1>9, <1>12, <3>1, HolderPrepended
  <2> QED
    BY <1>2, <1>10, <1>12, <2>1
<1> QED
  BY <1>11, <1>12

LEMMA AutoTestSettles ==
    ASSUME case.scenario \in AutoTestDelayed
    PROVE  /\ IsHiring(AutoTestSettle, 0)
           /\ \A e : Holder(AutoTestTerminal(
                         CASE Scenario("review-timeout") -> "none"
                           [] Scenario("approve-appeal-timeout") -> "approve"
                           [] OTHER -> AutoTestFirst), e)
                     => Holder(AutoTestSettle, e)
<1> DEFINE a(st, fn) == <<Expect(st, TRUE), WhenDue, Call(fn, "client")>>
           d == CASE Scenario("review-timeout") -> "none"
                  [] Scenario("approve-appeal-timeout") -> "approve"
                  [] OTHER -> AutoTestFirst
           b == CASE Scenario("review-timeout") ->
                       a("submitted", "settle-review-timeout")
                  [] Scenario("approve-appeal-timeout") ->
                       a("disputed", "settle-appeal-timeout")
                  [] OTHER -> a("pending", "finalize-decision")
<1>1. \A st \in {"submitted", "disputed", "pending"},
         fn \in {"settle-review-timeout", "settle-appeal-timeout",
                 "finalize-decision"} : a(st, fn) \in Seq(OnJob)
  BY Later, Names
<1> DEFINE whole(x, y) == AutoTestRelease \o (x \o y)
<1>2. AutoTestSettle = whole(b, AutoTestTerminal(d))
  <2>1. CASE Scenario("review-timeout")
    BY <2>1 DEF AutoTestSettle
  <2>2. CASE ~Scenario("review-timeout") /\ Scenario("approve-appeal-timeout")
    BY <2>2 DEF AutoTestSettle
  <2>3. CASE ~Scenario("review-timeout") /\ ~Scenario("approve-appeal-timeout")
    BY <2>3 DEF AutoTestSettle
  <2> QED
    BY <2>1, <2>2, <2>3
<1> HIDE DEF a
<1>3. b \in Seq(OnJob)
  BY <1>1
<1>4. d \in Decisions
  BY DEF AutoTestFirst, Decisions
<1> HIDE DEF b, d
<1>5. AutoTestTerminal(d) \in Seq(OnJob)
  BY <1>4, Later
<1>6. /\ b \o AutoTestTerminal(d) \in Seq(OnJob) /\ AutoTestSettle \in Seq(OnJob)
  BY <1>2, <1>3, <1>5, Releases, ConcatProperties
<1>7. AutoTestRelease \in Seq(AnyStep) /\ b \in Seq(AnyStep)
  BY <1>3, Releases, OnJobHires
<1>8. ASSUME NEW e, Holder(AutoTestTerminal(d), e) PROVE Holder(AutoTestSettle, e)
  BY <1>2, <1>7, <1>8, HolderPrepended
<1> QED
  BY <1>6, <1>8, OnJobHires DEF d

-----------------------------------------------------------------------------
(* Every script, in every scenario *)

\* A run resumes a prepared job, and only a delayed scenario has one.
ModeFits ==
    /\ mode \in {"run", "resume"}
    /\ mode = "resume" =>
          \/ Is("auto-test") /\ case.scenario \in AutoTestDelayed
          \/ Is("v4-test") /\ Scenario("prepare-timeout")

CaseFits == case.script \in Scripts /\ case.world \in Worlds
                /\ case.scenario \in ScenariosOf(case.script)

LEMMA CaseOfCases == ASSUME case \in Cases PROVE CaseFits
BY CasesAreRuns DEF CaseFits

LEMMA Policies ==
    ASSUME CaseFits
    PROVE  /\ Sending.tolerant = Is("v2-test") /\ Receipt.saves = ~Is("v2-test")
           /\ Receipt.savesId \in BOOLEAN /\ Receipt.catches \in BOOLEAN
           /\ Receipt.atStart \in BOOLEAN
           /\ Is("v4-test") => Receipt.atStart
           /\ Sending.ends \subseteq {"success", "abort", "dropped"}
<1> USE DEF Is, CaseFits, Sending, Receipt
<1>1. CASE Is("auto-main")
  BY <1>1 DEF AutoMainSending, AutoMainReceipt
<1>2. CASE Is("auto-test")
  BY <1>2 DEF AutoTestSending, AutoTestReceipt
<1>3. CASE Is("v3-main")
  BY <1>3 DEF V3MainSending, V3MainReceipt
<1>4. CASE Is("v4-test")
  BY <1>4 DEF V4TestSending, V4TestReceipt
<1>5. CASE Is("v2-test")
  BY <1>5 DEF V2TestSending, V2TestReceipt
<1> QED
  BY <1>1, <1>2, <1>3, <1>4, <1>5 DEF Scripts

\* Where a run has its job from.
HiresAt(n) ==
    /\ n \in Nat /\ IsHiring(Steps, n)
    /\ mode = "run" /\ ~Is("v2-test") => IsNaming(Steps, n)
    /\ mode = "resume" => n = 0

LEMMA StepsHire ==
    ASSUME CaseFits, ModeFits
    PROVE  \E n : HiresAt(n)
<1> USE DEF Is, HiresAt
<1>1. CASE Is("auto-main")
  <2>1. Steps = AutoMain /\ mode = "run"
    BY <1>1 DEF Steps, ModeFits
  <2> QED
    BY <1>1, <2>1, AutoMainHires DEF IsNaming
<1>2. CASE Is("auto-test") /\ mode = "run"
  <2>1. Steps = AutoTestPrepare /\ case.scenario \in ScenariosOf("auto-test")
    BY <1>2 DEF Steps, CaseFits
  <2> QED
    BY <1>2, <2>1, AutoTestHires DEF IsNaming
<1>3. CASE Is("auto-test") /\ mode = "resume"
  <2>1. Steps = AutoTestSettle /\ case.scenario \in AutoTestDelayed
    BY <1>3 DEF Steps, ModeFits
  <2> QED
    BY <1>3, <2>1, AutoTestSettles
<1>4. CASE Is("v3-main")
  <2>1. Steps = V3Main /\ mode = "run"
    BY <1>4 DEF Steps, ModeFits
  <2> QED
    BY <1>4, <2>1, V3MainHires DEF IsNaming
<1>5. CASE Is("v4-test") /\ mode = "run"
  <2>1. Steps = V4Test
    BY <1>5 DEF Steps
  <2> QED
    BY <1>5, <2>1, V4TestHires DEF IsNaming
<1>6. CASE Is("v4-test") /\ mode = "resume"
  <2>1. Steps = V4TestSettle
    BY <1>6 DEF Steps
  <2> QED
    BY <1>6, <2>1, V4TestSettles
<1>7. CASE Is("v2-test")
  <2>1. Steps = V2Test /\ mode = "run"
    BY <1>7 DEF Steps, ModeFits
  <2> QED
    BY <1>7, <2>1, V2TestHires
<1> QED
  BY <1>1, <1>2, <1>3, <1>4, <1>5, <1>6, <1>7 DEF CaseFits, ModeFits, Scripts

\* A run that gets through all steps passes the end its scenario promises.
PromisedTerminal == Terminal(PromisedEnd[1], PromisedEnd[2])

LEMMA StepsEnd ==
    ASSUME CaseFits, ModeFits
    PROVE  \/ PromisedEnd[1] = "submitted"
           \/ Holder(Steps, Await)
           \/ Holder(Steps, PromisedTerminal) /\ PromisedEnd[1] \in Settled
<1> USE DEF Is, Scenario
<1>1. CASE Is("auto-main")
  <2>1. Steps = AutoMain /\ mode = "run"
        /\ case.scenario \in {"approve-appeal-resolve-reject",
                              "reject-appeal-resolve-approve"}
    BY <1>1 DEF Steps, ModeFits, CaseFits, ScenariosOf
  <2> DEFINE t == AutoMainTerminal(AutoMainFinal)
  <2>2. AutoMainFinal \in Decisions
    BY DEF AutoMainFinal, Decisions
  <2>3. t = <<PromisedTerminal>> /\ PromisedEnd[1] \in Settled
    BY <2>1 DEF AutoMainFinal, AutoMainTerminal, PromisedEnd, PromisedTerminal,
                Settled
  <2>4. t \in Seq(OnJob)
    BY <2>2, Later
  <2> HIDE DEF t
  <2>5. t[1] = PromisedTerminal /\ 1 \in 1..Len(t)
    BY <2>3
  <2>6. Holder(t, PromisedTerminal)
    BY <2>4, <2>5, OnJobHires, HoldsItsOwn
  <2> QED
    BY <2>1, <2>3, <2>6, AutoMainHires DEF t
<1>2. CASE Is("auto-test") /\ mode = "run"
  <2>1. Steps = AutoTestPrepare /\ case.scenario \in ScenariosOf("auto-test")
    BY <1>2 DEF Steps, CaseFits
  <2>2. CASE case.scenario \in AutoTestDelayed
    BY <2>1, <2>2, AutoTestHires
  <2>3. CASE case.scenario \notin AutoTestDelayed
    <3>1. case.scenario \in {"approve-appeal-resolve-reject",
                             "reject-appeal-resolve-approve"}
      BY <2>1, <2>3 DEF ScenariosOf, AutoTestDelayed
    <3> DEFINE t == AutoTestTerminal(AutoTestFinal)
    <3>2. AutoTestFinal \in Decisions
      BY DEF AutoTestFinal, Decisions
    <3>3. t = <<PromisedTerminal>> /\ PromisedEnd[1] \in Settled
      BY <3>1 DEF AutoTestFinal, AutoTestTerminal, PromisedEnd, PromisedTerminal,
                  Settled
    <3>4. t \in Seq(OnJob)
      BY <3>2, Later
    <3> HIDE DEF t
    <3>5. t[1] = PromisedTerminal /\ 1 \in 1..Len(t)
      BY <3>3
    <3>6. Holder(t, PromisedTerminal)
      BY <3>4, <3>5, OnJobHires, HoldsItsOwn
    <3> QED
      BY <2>1, <2>3, <3>3, <3>6, AutoTestHires DEF t
  <2> QED
    BY <2>2, <2>3
<1>3. CASE Is("auto-test") /\ mode = "resume"
  <2>1. Steps = AutoTestSettle /\ case.scenario \in AutoTestDelayed
    BY <1>3 DEF Steps, ModeFits
  <2> DEFINE d == CASE Scenario("review-timeout") -> "none"
                    [] Scenario("approve-appeal-timeout") -> "approve"
                    [] OTHER -> AutoTestFirst
             t == AutoTestTerminal(d)
  <2>2. d \in Decisions
    BY DEF AutoTestFirst, Decisions
  <2>3. t = <<PromisedTerminal>> /\ PromisedEnd[1] \in Settled
    <3>1. CASE Scenario("review-timeout")
      BY <3>1 DEF AutoTestTerminal, PromisedEnd, PromisedTerminal, Settled
    <3>2. CASE Scenario("approve-appeal-timeout")
      BY <3>2 DEF AutoTestTerminal, PromisedEnd, PromisedTerminal, Settled
    <3>3. CASE Scenario("approve-no-appeal")
      BY <3>3 DEF AutoTestTerminal, AutoTestFirst, PromisedEnd, PromisedTerminal,
                  Settled
    <3>4. CASE Scenario("reject-no-appeal")
      BY <3>4 DEF AutoTestTerminal, AutoTestFirst, PromisedEnd, PromisedTerminal,
                  Settled
    <3> QED
      BY <2>1, <3>1, <3>2, <3>3, <3>4 DEF AutoTestDelayed
  <2> HIDE DEF d
  <2>4. t \in Seq(OnJob)
    BY <2>2, Later
  <2>5. \A e : Holder(t, e) => Holder(AutoTestSettle, e)
    BY <2>1, AutoTestSettles DEF d
  <2> HIDE DEF t
  <2>6. t[1] = PromisedTerminal /\ 1 \in 1..Len(t)
    BY <2>3
  <2>7. Holder(t, PromisedTerminal)
    BY <2>4, <2>6, OnJobHires, HoldsItsOwn
  <2> QED
    BY <2>1, <2>3, <2>5, <2>7
<1> DEFINE c == <<Call("complete-job", "evaluator"), Expect("completed", FALSE),
                  Terminal("completed", "approve")>>
<1>4. c[3] = Terminal("completed", "approve") /\ 3 \in 1..Len(c)
  OBVIOUS
<1>5. c = V3MainCompleting /\ c = V2TestCompleting
      /\ (~Scenario("prepare-timeout") => c = V4TestCompleting)
  BY DEF V3MainCompleting, V2TestCompleting, V4TestCompleting
<1> HIDE DEF c
<1>6. c \in Seq(OnJob)
  BY <1>5, Later
<1>7. Holder(c, Terminal("completed", "approve"))
  BY <1>4, <1>6, OnJobHires, HoldsItsOwn
<1>8. case.scenario = "complete" =>
          PromisedTerminal = Terminal("completed", "approve")
          /\ PromisedEnd[1] \in Settled
  BY DEF PromisedEnd, PromisedTerminal, Settled
<1>9. CASE Is("v3-main")
  <2>1. Steps = V3Main /\ case.scenario = "complete"
    BY <1>9 DEF Steps, CaseFits, ScenariosOf
  <2> QED
    BY <1>5, <1>7, <1>8, <2>1, V3MainHires
<1>10. CASE Is("v2-test")
  <2>1. Steps = V2Test /\ case.scenario = "complete"
    BY <1>10 DEF Steps, CaseFits, ScenariosOf
  <2> QED
    BY <1>5, <1>7, <1>8, <2>1, V2TestHires
<1>11. CASE Is("v4-test") /\ mode = "run"
  <2>1. Steps = V4Test /\ case.scenario \in {"complete", "prepare-timeout"}
    BY <1>11 DEF Steps, CaseFits, ScenariosOf
  <2>2. CASE case.scenario = "complete"
    BY <1>5, <1>7, <1>8, <2>1, <2>2, V4TestHires
  <2>3. CASE case.scenario = "prepare-timeout"
    BY <1>11, <2>3 DEF PromisedEnd
  <2> QED
    BY <2>1, <2>2, <2>3
<1>12. CASE Is("v4-test") /\ mode = "resume"
  <2>1. Steps = V4TestSettle /\ case.scenario = "prepare-timeout"
    BY <1>12 DEF Steps, ModeFits
  <2>2. PromisedTerminal = Terminal("timeout", "none") /\ PromisedEnd[1] \in Settled
    BY <1>12, <2>1 DEF PromisedEnd, PromisedTerminal, Settled
  <2> QED
    BY <2>1, <2>2, V4TestSettles
<1> QED
  BY <1>1, <1>2, <1>3, <1>9, <1>10, <1>11, <1>12 DEF CaseFits, ModeFits, Scripts

\* The steps, the policies and the promise are those of the case and the mode.
LEMMA StepsStay ==
    ASSUME UNCHANGED <<case, mode>>
    PROVE  /\ Steps' = Steps /\ Sending' = Sending /\ Receipt' = Receipt
           /\ PromisedEnd' = PromisedEnd /\ OnJob' = OnJob
<1> USE DEF Is, Scenario, Has
<1>2. /\ AutoMainFirst' = AutoMainFirst /\ AutoMainFinal' = AutoMainFinal
      /\ AutoTestFirst' = AutoTestFirst /\ AutoTestFinal' = AutoTestFinal
  BY DEF AutoMainFirst, AutoMainFinal, AutoTestFirst, AutoTestFinal
<1>3. /\ AutoMainRelease' = AutoMainRelease /\ AutoTestRelease' = AutoTestRelease
      /\ V4TestRelease' = V4TestRelease
  BY DEF AutoMainRelease, AutoTestRelease, V4TestRelease, OnlySbtc
<1>4. AutoMain' = AutoMain
  BY <1>2, <1>3
  DEF AutoMain, AutoMainActors, AutoMainHiring, AutoMainJudging,
      AutoMainResolving, AutoMainTerminal
<1>5. AutoTestPrepare' = AutoTestPrepare
  BY <1>2, <1>3
  DEF AutoTestPrepare, AutoTestActors, AutoTestHiring, AutoTestJudging,
      AutoTestAppealing, AutoTestResolving, AutoTestTerminal
<1>6. AutoTestSettle' = AutoTestSettle
  BY <1>2, <1>3 DEF AutoTestSettle, AutoTestTerminal
<1>7. V4Test' = V4Test /\ V4TestSettle' = V4TestSettle
  BY <1>3 DEF V4Test, V4TestSettle, V4TestActors, V4TestHiring, V4TestSubmitting,
              V4TestCompleting, V4TestRating
<1>8. Steps' = Steps
  BY <1>4, <1>5, <1>6, <1>7 DEF Steps
<1>9. Sending' = Sending /\ Receipt' = Receipt
  BY DEF Sending, Receipt
<1>10. PromisedEnd' = PromisedEnd
  BY DEF PromisedEnd
<1>11. OnJob' = OnJob
  BY DEF OnJob
<1> QED
  BY <1>8, <1>9, <1>10, <1>11

-----------------------------------------------------------------------------
(* The invariant *)

Results == {"none", "running", "failing", "error", "awaiting", "passed", "failed"}
JobSet == [ours : BOOLEAN, status : Statuses, escrow : BOOLEAN, deadline : Int,
           first : Args, final : Args, sync : {"none", "pending", "synced"},
           payments : Nat, rated : BOOLEAN]
Orders == [fn : Fns, by : Actors, arg : Args, job : Nat]
Txs == [fn : Fns, by : Actors, arg : Args, job : Nat,
        state : {"pending", "success", "abort", "dropped"}, id : Nat]

\* A job is paid once, when it is settled; nobody touches a stranger's job.
JobInv(j) ==
    /\ j \in JobSet
    /\ ~j.ours => j.status = "open" /\ ~j.escrow
    /\ j.payments = IF j.status \in Settled THEN 1 ELSE 0
    /\ j.status \in Settled => ~j.escrow
ChainInv ==
    /\ burn \in Nat /\ jobs \in Seq(JobSet)
    /\ \A i \in DOMAIN jobs : JobInv(jobs[i])
    /\ stray \subseteq Orders

ProcessInv ==
    /\ case \in Cases /\ ModeFits
    /\ phase \in {"idle", "step", "wait"}
    /\ step \in Nat /\ (Running => step >= 1)
    /\ output \in [job : Nat, result : Results]
    /\ receipt \in [there : BOOLEAN, job : Nat, result : Results]
    /\ target \in Nat /\ told \in Nat /\ runs \in Nat
    /\ phase # "wait" => tx = NoTx

\* What a run waits for is the call of its step, and names its job.
WaitInv ==
    phase = "wait" =>
        /\ step <= Len(Steps) /\ This.kind \in Sendings
        /\ tx \in Txs /\ tx.fn = This.fn
        /\ tx.fn \notin {"transfer", "create-job"} => tx.job = target
        /\ tx.fn = "create-job" /\ tx.state = "success" => tx.id \in Ours

HireAt == CHOOSE n \in 0..Len(Steps) : HiresAt(n)

OwnOrNone(i) == i = NoJob \/ i \in Ours
\* The jobs that the run, its file and the operator know are its own.
KnownInv ==
    /\ told # NoJob =>
          Scenario("prepare-timeout") \/ case.scenario \in AutoTestDelayed
    /\ ~Is("v2-test") =>
          /\ OwnOrNone(target) /\ OwnOrNone(output.job)
          /\ OwnOrNone(receipt.job) /\ OwnOrNone(told)
          /\ Running /\ step > HireAt => target \in Ours

\* What the steps that a run has behind it have found.
Found(s) ==
    /\ s.kind # "await"
    /\ s.kind = "terminal" =>
          /\ target \in DOMAIN jobs
          /\ jobs[target].status = s.status /\ jobs[target].final = s.final
FoundInv ==
    /\ Running => output.result # "passed"
    /\ Running /\ output.result # "failing" =>
          \A i \in 1..Len(Steps) : i < step => Found(Steps[i])

PaidAsPromised(i) ==
    /\ i \in Ours
    /\ PromisedEnd[1] = "submitted" \/
          /\ jobs[i].status = PromisedEnd[1] /\ jobs[i].final = PromisedEnd[2]
          /\ ~jobs[i].escrow /\ jobs[i].payments = 1
PassedInv == receipt.result = "passed" => PaidAsPromised(receipt.job)

\* A first run has named its job before it sends the call that funds it.
Funding(t) == t.fn = "fund-job"
NamedInv ==
    /\ \A i \in DOMAIN jobs : jobs[i].escrow => receipt.job = i
    /\ \A t \in stray : Funding(t) => receipt.job = t.job
    /\ phase = "wait" /\ Funding(tx) => receipt.job = tx.job
    /\ Running /\ step > HireAt => output.job = target
    /\ Running /\ step > HireAt + 1 => receipt.job = target
    /\ Running /\ step <= HireAt + 1 =>
          /\ \A i \in DOMAIN jobs : ~jobs[i].escrow
          /\ \A t \in stray : ~Funding(t)
FirstInv ==
    /\ runs = 0 => /\ jobs = <<>> /\ stray = {} /\ ~Running /\ told = NoJob
                   /\ ~receipt.there /\ receipt.job = NoJob
    /\ runs = 1 => mode = "run"
    /\ runs = 1 /\ ~Is("v2-test") => NamedInv

Inv == /\ ChainInv /\ ProcessInv /\ WaitInv /\ KnownInv /\ FoundInv
       /\ PassedInv /\ FirstInv

-----------------------------------------------------------------------------
(* What the steps of a run are, by their position *)

Sends(s) == s.kind \in Sendings

LEMMA PreliminaryFacts ==
    ASSUME NEW s \in Preliminary
    PROVE  /\ s.kind \in {"verify", "fund", "count"}
           /\ Sends(s) => s.fn = "transfer" /\ s.by \in Actors /\ s.arg \in Args
BY DEF Preliminary, Verifications, Fundings, CountJobs, Sends, Sendings, Actors, Args

LEMMA OpeningFacts ==
    ASSUME NEW s \in Opening
    PROVE  /\ s.kind \in {"verify", "fund", "count", "call", "last"}
           /\ Sends(s) => /\ s.fn \in {"transfer", "create-job"}
                          /\ s.by \in Actors /\ s.arg \in Args
<1>1. CASE s \in Preliminary
  BY <1>1, PreliminaryFacts
<1>2. CASE s = CreateJob \/ s = TakeLastJob
  BY <1>2 DEF CreateJob, TakeLastJob, Call, Sends, Sendings, Actors, Args, Decisions
<1> QED
  BY <1>1, <1>2 DEF Opening

LEMMA OnJobFacts ==
    ASSUME NEW s \in OnJob
    PROVE  /\ s.kind \notin {"fund", "last", "count"}
           /\ Sends(s) => s.fn \in EscrowCalls /\ s.by \in Actors /\ s.arg \in Args
           /\ s.kind = "terminal" => s.status \in Settled
           /\ s.kind = "await" => case.scenario \in AutoTestDelayed
           /\ s.kind = "prepared" => Scenario("prepare-timeout")
<1>1. CASE s \in Verifications
  BY <1>1 DEF Verifications, Sends, Sendings
<1>2. CASE s \in Calls
  BY <1>2 DEF Calls, Sends, Sendings
<1>3. CASE s \in Expectations \cup Endings
  BY <1>3 DEF Expectations, Endings, Sends, Sendings
<1>4. CASE s \in {NameJob, JobsGrewByOne, Rated, WhenDue, MustBeDue}
  <2>1. s.kind \in {"name", "grew", "rated", "due", "must be due"}
    <3>1. /\ NameJob.kind = "name" /\ JobsGrewByOne.kind = "grew"
          /\ Rated.kind = "rated" /\ WhenDue.kind = "due"
          /\ MustBeDue.kind = "must be due"
      BY DEF NameJob, JobsGrewByOne, Rated, WhenDue, MustBeDue
    <3> QED
      BY <1>4, <3>1
  <2> QED
    BY <2>1 DEF Sends, Sendings
<1>5. CASE s = Prepared /\ Scenario("prepare-timeout")
  BY <1>5 DEF Prepared, Sends, Sendings
<1>6. CASE s = Await /\ case.scenario \in AutoTestDelayed
  BY <1>6 DEF Await, Sends, Sendings
<1> QED
  BY <1>1, <1>2, <1>3, <1>4, <1>5, <1>6 DEF OnJob

LEMMA StepFacts ==
    ASSUME ProcessInv
    PROVE  /\ CaseFits /\ ModeFits /\ Len(Steps) \in Nat /\ HireAt \in 0..Len(Steps)
           /\ \A i \in 1..Len(Steps) :
                /\ Sends(Steps[i]) => /\ Steps[i].fn \in Fns /\ Steps[i].by \in Actors
                                      /\ Steps[i].arg \in Args
                /\ Steps[i].kind = "await" => case.scenario \in AutoTestDelayed
                /\ Steps[i].kind = "prepared" => Scenario("prepare-timeout")
                /\ i <= HireAt =>
                     /\ Steps[i].kind \in {"verify", "fund", "count", "call", "last"}
                     /\ Sends(Steps[i]) => Steps[i].fn \in {"transfer", "create-job"}
                /\ i > HireAt =>
                     /\ Steps[i].kind \notin {"fund", "last", "count"}
                     /\ Sends(Steps[i]) => Steps[i].fn \in EscrowCalls
                     /\ Steps[i].kind = "terminal" => Steps[i].status \in Settled
           /\ mode = "run" /\ ~Is("v2-test") =>
                /\ HireAt >= 1 /\ HireAt + 1 <= Len(Steps)
                /\ Steps[HireAt] = CreateJob /\ Steps[HireAt + 1] = SetBudget
                /\ \A i \in 1..Len(Steps) : i < HireAt =>
                     /\ Steps[i].kind \in {"verify", "fund", "count"}
                     /\ Sends(Steps[i]) => Steps[i].fn = "transfer"
           /\ mode = "resume" => HireAt = 0 /\ ~Is("v2-test")
<1>1. CaseFits /\ ModeFits
  BY CaseOfCases DEF ProcessInv
<1>2. \E n \in 0..Len(Steps) : HiresAt(n)
  BY <1>1, StepsHire DEF HiresAt, IsHiring
<1>3. HireAt \in 0..Len(Steps) /\ HiresAt(HireAt)
  BY <1>2 DEF HireAt
<1> DEFINE n == HireAt
<1>4. /\ IsHiring(Steps, n) /\ (mode = "run" /\ ~Is("v2-test") => IsNaming(Steps, n))
      /\ mode = "resume" => n = 0
  BY <1>3 DEF HiresAt
<1>5. mode = "resume" => ~Is("v2-test")
  BY <1>1 DEF ModeFits, Is
<1>6. /\ Steps \in Seq(AnyStep)
      /\ \A i \in 1..Len(Steps) : i <= n => Steps[i] \in Opening
      /\ \A i \in 1..Len(Steps) : i > n => Steps[i] \in OnJob
  BY <1>4 DEF IsHiring
<1>7. mode = "run" /\ ~Is("v2-test") =>
          /\ n \in 1..(Len(Steps) - 1) /\ Steps[n] = CreateJob
          /\ Steps[n + 1] = SetBudget
          /\ \A i \in 1..Len(Steps) : i < n => Steps[i] \in Preliminary
  BY <1>4 DEF IsNaming
<1>8. Len(Steps) \in Nat
  BY <1>6, LenProperties
<1> HIDE DEF n
<1>9. ASSUME NEW i \in 1..Len(Steps)
      PROVE  /\ Sends(Steps[i]) => /\ Steps[i].fn \in Fns /\ Steps[i].by \in Actors
                                   /\ Steps[i].arg \in Args
             /\ Steps[i].kind = "await" => case.scenario \in AutoTestDelayed
             /\ Steps[i].kind = "prepared" => Scenario("prepare-timeout")
             /\ i <= n =>
                  /\ Steps[i].kind \in {"verify", "fund", "count", "call", "last"}
                  /\ Sends(Steps[i]) => Steps[i].fn \in {"transfer", "create-job"}
             /\ i > n =>
                  /\ Steps[i].kind \notin {"fund", "last", "count"}
                  /\ Sends(Steps[i]) => Steps[i].fn \in EscrowCalls
                  /\ Steps[i].kind = "terminal" => Steps[i].status \in Settled
  <2>1. CASE i <= n
    BY <1>6, <2>1, OpeningFacts, <1>3, <1>8 DEF Fns, n
  <2>2. CASE i > n
    BY <1>6, <2>2, OnJobFacts, <1>3, <1>8 DEF Fns, n
  <2> QED
    BY <1>3, <1>8, <2>1, <2>2 DEF n
<1>10. ASSUME mode = "run", ~Is("v2-test")
       PROVE  /\ n >= 1 /\ n + 1 <= Len(Steps)
              /\ Steps[n] = CreateJob /\ Steps[n + 1] = SetBudget
              /\ \A i \in 1..Len(Steps) : i < n =>
                   /\ Steps[i].kind \in {"verify", "fund", "count"}
                   /\ Sends(Steps[i]) => Steps[i].fn = "transfer"
  BY <1>7, <1>8, <1>10, PreliminaryFacts
<1> QED
  BY <1>1, <1>3, <1>4, <1>5, <1>8, <1>9, <1>10 DEF n

LEMMA HireStays ==
    ASSUME UNCHANGED <<case, mode>>
    PROVE  HireAt' = HireAt
<1>1. Steps' = Steps /\ OnJob' = OnJob
  BY StepsStay
<1>2. \A n : HiresAt(n)' <=> HiresAt(n)
  BY <1>1 DEF HiresAt, IsHiring, IsNaming, AnyStep, Is
<1> QED
  BY <1>1, <1>2 DEF HireAt

-----------------------------------------------------------------------------
(* The escrow *)

\* What no transaction undoes: whose a job is, and how a settled one ended.
Keeps ==
    /\ DOMAIN jobs \subseteq DOMAIN jobs'
    /\ \A i \in DOMAIN jobs :
          /\ jobs'[i].ours = jobs[i].ours
          /\ jobs[i].status \in Settled =>
                /\ jobs'[i].status = jobs[i].status
                /\ jobs'[i].final = jobs[i].final
                /\ jobs'[i].escrow = jobs[i].escrow
                /\ jobs'[i].payments = jobs[i].payments
FundsOnly(i) ==
    \A k \in DOMAIN jobs' : jobs'[k].escrow =>
        (k \in DOMAIN jobs /\ jobs[k].escrow) \/ k = i

LEMMA PaidInv ==
    ASSUME NEW j, JobInv(j), j.ours,
           j.status \in {"submitted", "pending", "disputed"},
           NEW st \in Settled, NEW f \in Args
    PROVE  JobInv(Paid(j, st, f)) /\ Paid(j, st, f).ours /\ ~Paid(j, st, f).escrow
<1>1. j.status \notin Settled
  BY DEF Settled
<1>2. j \in JobSet /\ j.payments = 0
  BY <1>1 DEF JobInv
<1>3. PICK y : y = IF f = "none" THEN "none"
                   ELSE IF Has("caller") THEN "pending" ELSE "synced"
  OBVIOUS
<1>4. y \in {"none", "pending", "synced"} /\ st \in Statuses
  BY <1>3 DEF Settled, Statuses
<1> DEFINE p == [j EXCEPT !.status = st, !.final = f, !.escrow = FALSE,
                          !.payments = 1, !.sync = y]
<1>5. p = Paid(j, st, f)
  <2>1. j.payments + 1 = 1
    BY <1>2
  <2> QED
    BY <1>3, <2>1 DEF Paid
<1>6. /\ p \in JobSet /\ p.ours = j.ours /\ p.status = st /\ p.escrow = FALSE
      /\ p.payments = 1
  BY <1>2, <1>4 DEF JobSet
<1> HIDE DEF p
<1>7. JobInv(p)
  BY <1>6 DEF JobInv
<1> QED
  BY <1>5, <1>6, <1>7

LEMMA AfterInv ==
    ASSUME NEW j, JobInv(j), j.ours, burn \in Nat, NEW t, t.fn \in EscrowCalls,
           t.arg \in Args, j.status = From(t.fn)
    PROVE  /\ JobInv(After(j, t)) /\ After(j, t).ours
           /\ j.status \in Settled =>
                 /\ After(j, t).status = j.status /\ After(j, t).final = j.final
                 /\ After(j, t).escrow = j.escrow
                 /\ After(j, t).payments = j.payments
           /\ After(j, t).escrow => j.escrow \/ Funding(t)
<1> USE DEF JobInv, JobSet, Statuses, Settled, After, From, Funding
<1>0. j \in JobSet /\ burn + Window \in Int
  BY CasesAreRuns
<1>1. CASE t.fn = "set-budget"
  BY <1>0, <1>1
<1>2. CASE t.fn = "fund-job"
  BY <1>0, <1>2
<1>3. CASE t.fn = "assign-provider"
  BY <1>0, <1>3
<1>4. CASE t.fn = "submit-work"
  BY <1>0, <1>4
<1>5. CASE t.fn = "record-decision"
  BY <1>0, <1>5
<1>6. CASE t.fn = "appeal-decision"
  BY <1>0, <1>6
<1>7. CASE t.fn = "rate-provider"
  BY <1>0, <1>7
<1> HIDE DEF JobInv, JobSet, After, From
<1>8. ASSUME j.status \in {"submitted", "pending", "disputed"},
             NEW st \in Settled, NEW f \in Args
      PROVE  JobInv(Paid(j, st, f)) /\ Paid(j, st, f).ours /\ ~Paid(j, st, f).escrow
  BY <1>8, PaidInv
<1>9. StatusOf(t.arg) \in Settled /\ StatusOf(j.first) \in Settled
  BY DEF StatusOf
<1>10. {"none", "approve", "reject"} \subseteq Args /\ j.first \in Args
  BY <1>0 DEF Args, Decisions, JobSet
<1>11. CASE t.fn = "resolve-appeal"
  <2>1. After(j, t) = Paid(j, StatusOf(t.arg), t.arg) /\ j.status = "disputed"
    BY <1>11 DEF After, From
  <2> QED
    BY <1>8, <1>9, <2>1 DEF Settled
<1>12. CASE t.fn = "complete-job"
  <2>1. After(j, t) = Paid(j, "completed", "approve") /\ j.status = "submitted"
    BY <1>12 DEF After, From
  <2> QED
    BY <1>8, <1>10, <2>1 DEF Settled
<1>13. CASE t.fn = "reject-job"
  <2>1. After(j, t) = Paid(j, "rejected", "reject") /\ j.status = "submitted"
    BY <1>13 DEF After, From
  <2> QED
    BY <1>8, <1>10, <2>1 DEF Settled
<1>14. CASE t.fn \in {"finalize-decision", "settle-appeal-timeout"}
  <2>1. After(j, t) = Paid(j, StatusOf(j.first), j.first)
        /\ j.status \in {"pending", "disputed"}
    BY <1>14 DEF After, From
  <2> QED
    BY <1>8, <1>9, <1>10, <2>1 DEF Settled
<1>15. CASE t.fn = "settle-review-timeout"
  <2>1. After(j, t) = Paid(j, "timeout", "none") /\ j.status = "submitted"
    BY <1>15 DEF After, From
  <2> QED
    BY <1>8, <1>10, <2>1 DEF Settled
<1> QED
  BY <1>1, <1>2, <1>3, <1>4, <1>5, <1>6, <1>7, <1>11, <1>12, <1>13, <1>14, <1>15
  DEF EscrowCalls

\* One job changes, or a new one is appended.
LEMMA JobChanges ==
    ASSUME ChainInv, NEW i \in DOMAIN jobs, NEW j, JobInv(j),
           jobs' = [jobs EXCEPT ![i] = j],
           j.ours = jobs[i].ours,
           jobs[i].status \in Settled =>
               /\ j.status = jobs[i].status /\ j.final = jobs[i].final
               /\ j.escrow = jobs[i].escrow /\ j.payments = jobs[i].payments
    PROVE  /\ jobs' \in Seq(JobSet) /\ \A k \in DOMAIN jobs' : JobInv(jobs'[k])
           /\ Keeps /\ (j.escrow => jobs[i].escrow) => FundsOnly(NoJob)
           /\ Keeps /\ FundsOnly(i)
<1>1. jobs \in Seq(JobSet) /\ j \in JobSet /\ \A k \in DOMAIN jobs : JobInv(jobs[k])
  BY DEF ChainInv, JobInv
<1>2. jobs' \in Seq(JobSet) /\ DOMAIN jobs' = DOMAIN jobs
  BY <1>1, ExceptSeq
<1>3. \A k \in DOMAIN jobs : jobs'[k] = IF k = i THEN j ELSE jobs[k]
  OBVIOUS
<1> QED
  BY <1>1, <1>2, <1>3 DEF Keeps, FundsOnly

LEMMA JobAppended ==
    ASSUME ChainInv, NEW o \in BOOLEAN, jobs' = Append(jobs, NewJob(o))
    PROVE  /\ jobs' \in Seq(JobSet) /\ \A k \in DOMAIN jobs' : JobInv(jobs'[k])
           /\ Keeps /\ FundsOnly(NoJob)
           /\ o => Len(jobs) + 1 \in Ours'
<1>1. jobs \in Seq(JobSet) /\ \A k \in DOMAIN jobs : JobInv(jobs[k])
  BY DEF ChainInv
<1>2. JobInv(NewJob(o)) /\ NewJob(o) \in JobSet /\ ~NewJob(o).escrow
      /\ NewJob(o).ours = o
  BY DEF JobInv, NewJob, JobSet, Statuses, Settled, Args, Decisions
<1>3. /\ jobs' \in Seq(JobSet) /\ Len(jobs') = Len(jobs) + 1 /\ Len(jobs) \in Nat
      /\ DOMAIN jobs = 1..Len(jobs) /\ DOMAIN jobs' = 1..Len(jobs')
      /\ \A k \in 1..Len(jobs) : jobs'[k] = jobs[k]
      /\ jobs'[Len(jobs) + 1] = NewJob(o)
  BY <1>1, <1>2, AppendProperties, LenProperties
<1> QED
  BY <1>1, <1>2, <1>3 DEF Keeps, FundsOnly, Ours

LEMMA NothingChanges ==
    ASSUME ChainInv, UNCHANGED jobs
    PROVE  /\ jobs' \in Seq(JobSet) /\ \A k \in DOMAIN jobs' : JobInv(jobs'[k])
           /\ Keeps /\ FundsOnly(NoJob)
BY DEF ChainInv, Keeps, FundsOnly

LEMMA ExecuteKeeps ==
    ASSUME ChainInv, NEW t, t.fn \in Fns, t.arg \in Args, Execute(t)
    PROVE  /\ jobs' \in Seq(JobSet) /\ \A k \in DOMAIN jobs' : JobInv(jobs'[k])
           /\ Keeps /\ FundsOnly(IF Funding(t) THEN t.job ELSE NoJob)
           /\ t.fn = "create-job" /\ Accepts(t) => Len(jobs) + 1 \in Ours'
<1>1. CASE ~Accepts(t)
  BY <1>1, NothingChanges DEF Execute, FundsOnly
<1>2. CASE Accepts(t) /\ t.fn = "create-job"
  BY <1>2, JobAppended DEF Execute, Executed, Funding
<1>3. CASE Accepts(t) /\ t.fn = "transfer"
  BY <1>3, NothingChanges DEF Execute, Executed, Funding
<1>4. CASE Accepts(t) /\ t.fn \in EscrowCalls
  <2>1. t.fn \notin {"transfer", "create-job"}
    BY <1>4 DEF EscrowCalls
  <2>2. /\ t.job \in DOMAIN jobs /\ jobs[t.job].ours
        /\ jobs[t.job].status = From(t.fn)
    BY <1>4, <2>1 DEF Accepts
  <2>3. jobs' = [jobs EXCEPT ![t.job] = After(jobs[t.job], t)]
    BY <1>4, <2>1 DEF Execute, Executed
  <2>4. JobInv(jobs[t.job]) /\ burn \in Nat
    BY <2>2 DEF ChainInv
  <2> DEFINE j == After(jobs[t.job], t)
  <2>5. /\ JobInv(j) /\ j.ours
        /\ jobs[t.job].status \in Settled =>
              /\ j.status = jobs[t.job].status /\ j.final = jobs[t.job].final
              /\ j.escrow = jobs[t.job].escrow /\ j.payments = jobs[t.job].payments
        /\ j.escrow => jobs[t.job].escrow \/ Funding(t)
    BY <1>4, <2>2, <2>4, AfterInv
  <2> HIDE DEF j
  <2>6. jobs[t.job].ours = TRUE /\ j.ours = TRUE
    BY <2>2, <2>4, <2>5 DEF JobInv, JobSet
  <2> QED
    BY <2>1, <2>2, <2>3, <2>5, <2>6, JobChanges DEF j
<1> QED
  BY <1>1, <1>2, <1>3, <1>4 DEF Fns

-----------------------------------------------------------------------------
(* Jobs may change under a run *)

LEMMA InvFacts ==
    ASSUME Inv
    PROVE  /\ ChainInv /\ ProcessInv /\ WaitInv /\ KnownInv /\ FoundInv
           /\ PassedInv /\ FirstInv /\ CaseFits /\ ModeFits
           /\ HireAt \in 0..Len(Steps) /\ Len(Steps) \in Nat /\ HireAt \in Nat
           /\ step \in Nat
BY StepFacts DEF Inv, ProcessInv

LEMMA OursStay ==
    ASSUME Keeps, ChainInv, \A k \in DOMAIN jobs' : JobInv(jobs'[k])
    PROVE  Ours \subseteq Ours'
BY DEF Keeps, Ours

\* A job that is paid as promised stays so, and what the steps found stays true.
LEMMA FoundStays ==
    ASSUME Inv, Keeps, UNCHANGED <<case, mode>>,
           \A k \in DOMAIN jobs' : JobInv(jobs'[k])
    PROVE  /\ \A i : PaidAsPromised(i) => PaidAsPromised(i)'
           /\ \A i \in 1..Len(Steps) : Found(Steps[i]) /\ target' = target
                 => Found(Steps[i])'
<1>1. PromisedEnd' = PromisedEnd /\ Steps' = Steps
  BY StepsStay
<1>2. ASSUME NEW i, PaidAsPromised(i) PROVE PaidAsPromised(i)'
  <2>1. i \in Ours' /\ i \in DOMAIN jobs
    BY <1>2, OursStay, InvFacts DEF PaidAsPromised, Ours
  <2>2. CASE PromisedEnd[1] = "submitted"
    BY <1>1, <2>1, <2>2 DEF PaidAsPromised
  <2>3. CASE PromisedEnd[1] # "submitted"
    <3>1. jobs[i].payments = 1 /\ JobInv(jobs[i])
      BY <1>2, <2>1, <2>3, InvFacts DEF PaidAsPromised, ChainInv
    <3>2. jobs[i].status \in Settled
      BY <3>1 DEF JobInv
    <3> QED
      BY <1>1, <1>2, <2>1, <2>3, <3>2 DEF PaidAsPromised, Keeps
  <2> QED
    BY <2>2, <2>3
<1>3. ASSUME NEW i \in 1..Len(Steps), Found(Steps[i]), target' = target
      PROVE  Found(Steps[i])'
  <2>1. CASE Steps[i].kind = "terminal"
    <3>1. Steps[i].status \in Settled
      <4>1. i > HireAt
        BY <2>1, InvFacts, StepFacts
      <4> QED
        BY <2>1, <4>1, InvFacts, StepFacts
    <3> QED
      BY <1>1, <1>3, <2>1, <3>1 DEF Found, Keeps
  <2>2. CASE Steps[i].kind # "terminal"
    BY <1>1, <1>3, <2>2 DEF Found
  <2> QED
    BY <2>1, <2>2
<1> QED
  BY <1>2, <1>3

\* Blocks and strangers, and the transactions that nobody waits for: a run and
\* its file stay as they are.
LEMMA WorldMoves ==
    ASSUME Inv, Keeps, UNCHANGED <<case, mode, phase, step, target, output,
                                   receipt, told, runs>>,
           jobs' \in Seq(JobSet), \A k \in DOMAIN jobs' : JobInv(jobs'[k]),
           burn' \in Nat, stray' \subseteq stray,
           phase # "wait" => tx' = tx,
           phase = "wait" => /\ tx' \in Txs /\ tx'.fn = tx.fn /\ tx'.job = tx.job
                             /\ tx'.fn = "create-job" /\ tx'.state = "success"
                                   => tx'.id \in Ours',
           NEW i, FundsOnly(i), runs = 0 => jobs' = <<>>,
           \/ i = NoJob
           \/ \E t \in stray : Funding(t) /\ i = t.job
           \/ phase = "wait" /\ Funding(tx) /\ i = tx.job
    PROVE  Inv'
<1>1. /\ Steps' = Steps /\ HireAt' = HireAt /\ PromisedEnd' = PromisedEnd
      /\ Receipt' = Receipt
  BY StepsStay, HireStays
<1>2. Ours \subseteq Ours' /\ ChainInv'
  BY OursStay, InvFacts DEF ChainInv
<1>3. ProcessInv'
  BY InvFacts DEF ProcessInv, ModeFits, Is, Running, Scenario
<1>4. WaitInv'
  <2> SUFFICES ASSUME phase = "wait" PROVE WaitInv'
    BY DEF WaitInv
  <2> QED
    BY <1>1, InvFacts DEF WaitInv, This
<1>5. KnownInv'
  BY <1>1, <1>2, InvFacts DEF KnownInv, OwnOrNone, Is, Running, Scenario
<1>6. FoundInv'
  BY <1>1, InvFacts, FoundStays DEF FoundInv, Running
<1>7. PassedInv'
  BY InvFacts, FoundStays DEF PassedInv
<1>8. ASSUME NamedInv, ~Is("v2-test"), mode = "run" PROVE NamedInv'
  <2> DEFINE early == Running /\ step <= HireAt + 1
  <2>0. \A k \in DOMAIN jobs' : k # NoJob
    <3>1. DOMAIN jobs' = 1..Len(jobs') /\ Len(jobs') \in Nat
      BY LenProperties
    <3> QED
      BY <3>1 DEF NoJob
  <2>1. \A k \in DOMAIN jobs' : jobs'[k].escrow =>
            \/ k \in DOMAIN jobs /\ jobs[k].escrow
            \/ \E t \in stray : Funding(t) /\ k = t.job
            \/ phase = "wait" /\ Funding(tx) /\ k = tx.job
    <3>1. \A k \in DOMAIN jobs' : jobs'[k].escrow =>
              (k \in DOMAIN jobs /\ jobs[k].escrow) \/ k = i
      BY DEF FundsOnly
    <3>2. i # NoJob => \/ \E t \in stray : Funding(t) /\ i = t.job
                       \/ phase = "wait" /\ Funding(tx) /\ i = tx.job
      OBVIOUS
    <3> QED
      BY <2>0, <3>1, <3>2
  <2>2. \A k \in DOMAIN jobs' : jobs'[k].escrow => receipt.job = k
    BY <1>8, <2>1 DEF NamedInv
  <2>3. phase = "wait" => tx'.fn = tx.fn /\ tx'.job = tx.job
    OBVIOUS
  <2>4. early => ~(phase = "wait" /\ Funding(tx))
    <3> SUFFICES ASSUME early, phase = "wait", Funding(tx) PROVE FALSE
      OBVIOUS
    <3>1. /\ step \in 1..Len(Steps) /\ Sends(Steps[step])
          /\ Steps[step].fn = "fund-job"
      BY InvFacts DEF WaitInv, Funding, This, Sends, ProcessInv
    <3>2. HireAt >= 1 /\ Steps[HireAt + 1].fn = "set-budget"
      BY <1>8, InvFacts, StepFacts DEF SetBudget, Call
    <3>3. step # HireAt + 1
      BY <3>1, <3>2
    <3>4. step <= HireAt
      BY <3>3, InvFacts
    <3>5. Steps[step].fn \in {"transfer", "create-job"}
      BY <3>1, <3>4, InvFacts, StepFacts
    <3> QED
      BY <3>1, <3>5
  <2>5. early => \A k \in DOMAIN jobs' : ~jobs'[k].escrow
    BY <1>8, <2>1, <2>4 DEF NamedInv
  <2>6. /\ \A t \in stray' : Funding(t) => receipt.job = t.job
        /\ early => \A t \in stray' : ~Funding(t)
    BY <1>8 DEF NamedInv
  <2>7. phase = "wait" /\ Funding(tx)' => receipt.job = tx'.job
    BY <1>8, <2>3 DEF NamedInv, Funding
  <2> QED
    BY <1>1, <1>8, <2>2, <2>5, <2>6, <2>7 DEF NamedInv, Running, Funding
<1>9. FirstInv'
  BY <1>8, InvFacts DEF FirstInv, Running, Is
<1> QED
  BY <1>2, <1>3, <1>4, <1>5, <1>6, <1>7, <1>9 DEF Inv

LEMMA MineInv == ASSUME Inv, Mine PROVE Inv'
<1>1. phase = "wait" /\ tx \in Txs /\ runs # 0
  BY InvFacts DEF Mine, IsPending, ProcessInv, WaitInv, FirstInv, Running
<1>2. Execute(tx) /\ tx.fn \in Fns /\ tx.arg \in Args
  BY <1>1 DEF Mine, Txs
<1> DEFINE i == IF Funding(tx) THEN tx.job ELSE NoJob
<1>3. /\ jobs' \in Seq(JobSet) /\ \A k \in DOMAIN jobs' : JobInv(jobs'[k])
      /\ Keeps /\ FundsOnly(i)
      /\ tx.fn = "create-job" /\ Accepts(tx) => Len(jobs) + 1 \in Ours'
  BY <1>2, InvFacts, ExecuteKeeps
<1>4. /\ tx'.fn = tx.fn /\ tx'.job = tx.job
      /\ tx'.state = IF Accepts(tx) THEN "success" ELSE "abort"
      /\ tx'.id = IF tx.fn = "create-job" THEN Len(jobs) + 1 ELSE NoJob
  BY <1>1 DEF Mine, Txs
<1>5. tx' \in Txs
  <2>1. Len(jobs) + 1 \in Nat /\ NoJob \in Nat
    BY InvFacts, LenProperties DEF ChainInv, NoJob
  <2> QED
    BY <1>1, <2>1 DEF Mine, Txs
<1>6. UNCHANGED <<case, mode, phase, step, target, output, receipt, told, runs,
                  burn, stray>>
  BY DEF Mine, history
<1> HIDE DEF i
<1> QED
  BY <1>1, <1>3, <1>4, <1>5, <1>6, InvFacts, WorldMoves DEF ChainInv, i

LEMMA DropInv == ASSUME Inv, Drop PROVE Inv'
<1>1. phase = "wait" /\ tx \in Txs /\ runs # 0
  BY InvFacts DEF Drop, IsPending, ProcessInv, WaitInv, FirstInv, Running
<1>2. UNCHANGED <<case, mode, phase, step, target, output, receipt, told, runs,
                  jobs, burn, stray>>
  BY DEF Drop, chain
<1>3. tx' \in Txs /\ tx'.fn = tx.fn /\ tx'.job = tx.job /\ tx'.state = "dropped"
  BY <1>1 DEF Drop, Txs
<1> QED
  BY <1>1, <1>2, <1>3, InvFacts, NothingChanges, WorldMoves DEF ChainInv

LEMMA MineStrayInv == ASSUME Inv, MineStray PROVE Inv'
<1>1. PICK t \in stray : Execute(t) /\ stray' = stray \ {t}
  BY DEF MineStray
<1>2. t \in Orders /\ t.fn \in Fns /\ t.arg \in Args
  BY InvFacts DEF ChainInv, Orders
<1> DEFINE i == IF Funding(t) THEN t.job ELSE NoJob
<1>3. /\ jobs' \in Seq(JobSet) /\ \A k \in DOMAIN jobs' : JobInv(jobs'[k])
      /\ Keeps /\ FundsOnly(i)
  BY <1>1, <1>2, InvFacts, ExecuteKeeps
<1>4. UNCHANGED <<case, mode, phase, step, target, output, receipt, told, runs,
                  burn, tx>>
  BY DEF MineStray, history, process
<1>5. phase = "wait" => /\ tx' \in Txs
                        /\ tx'.fn = "create-job" /\ tx'.state = "success"
                              => tx'.id \in Ours'
  BY <1>3, <1>4, OursStay, InvFacts DEF WaitInv
<1>6. runs # 0
  BY <1>1, InvFacts DEF FirstInv
<1> HIDE DEF i
<1> QED
  BY <1>1, <1>3, <1>4, <1>5, <1>6, InvFacts, WorldMoves DEF ChainInv, i

\* Moves of the world that send nothing of the run's.
LEMMA OtherMoves ==
    ASSUME Inv, Keeps, FundsOnly(NoJob),
           UNCHANGED <<case, mode, phase, step, target, output, receipt, told,
                       runs, tx>>,
           jobs' \in Seq(JobSet), \A k \in DOMAIN jobs' : JobInv(jobs'[k]),
           burn' \in Nat, stray' \subseteq stray, runs = 0 => jobs' = <<>>
    PROVE  Inv'
<1>1. phase = "wait" => /\ tx' \in Txs
                        /\ tx'.fn = "create-job" /\ tx'.state = "success"
                              => tx'.id \in Ours'
  BY OursStay, InvFacts DEF WaitInv
<1> QED
  BY <1>1, WorldMoves

LEMMA ActiveRuns == ASSUME Inv, Active PROVE runs # 0
BY InvFacts DEF Active, FirstInv

LEMMA StrangersInv ==
    ASSUME Inv, DropStray \/ AdvanceBurn \/ Strangers
    PROVE  Inv'
<1>1. CASE DropStray
  <2>1. UNCHANGED <<case, mode, phase, step, target, output, receipt, told, runs,
                    burn, tx, jobs>> /\ stray' \subseteq stray
    BY <1>1 DEF DropStray, history, process
  <2> QED
    BY <1>1, <2>1, InvFacts, NothingChanges, OtherMoves, ActiveRuns
    DEF DropStray, ChainInv
<1>2. CASE AdvanceBurn
  <2>1. UNCHANGED <<case, mode, phase, step, target, output, receipt, told, runs,
                    stray, tx, jobs>> /\ burn' \in Nat
    BY <1>2, InvFacts DEF AdvanceBurn, history, process, ChainInv
  <2> QED
    BY <1>2, <2>1, InvFacts, NothingChanges, OtherMoves, ActiveRuns
    DEF AdvanceBurn
<1>3. CASE StrangerCreates
  <2>1. UNCHANGED <<case, mode, phase, step, target, output, receipt, told, runs,
                    burn, stray, tx>> /\ jobs' = Append(jobs, NewJob(FALSE))
    BY <1>3 DEF StrangerCreates, process
  <2>2. runs # 0
    BY <1>3, ActiveRuns DEF StrangerCreates
  <2>3. /\ jobs' \in Seq(JobSet) /\ \A k \in DOMAIN jobs' : JobInv(jobs'[k])
        /\ Keeps /\ FundsOnly(NoJob)
    BY <2>1, InvFacts, JobAppended
  <2> QED
    BY <2>1, <2>2, <2>3, InvFacts, OtherMoves DEF ChainInv
<1>4. CASE StrangerSettles
  <2>1. PICK i \in Ours, fn \in AfterDeadline :
            LET t == [fn |-> fn, by |-> "client", arg |-> "none", job |-> i]
            IN  Accepts(t) /\ jobs' = [jobs EXCEPT ![i] = After(@, t)]
    BY <1>4 DEF StrangerSettles
  <2> DEFINE t == [fn |-> fn, by |-> "client", arg |-> "none", job |-> i]
             j == After(jobs[i], t)
  <2>2. /\ t.fn \in EscrowCalls /\ t.arg \in Args /\ ~Funding(t) /\ i \in DOMAIN jobs
        /\ jobs[i].ours /\ jobs[i].status = From(t.fn)
    BY <2>1 DEF AfterDeadline, EscrowCalls, Args, Decisions, Funding, Ours, Accepts
  <2>3. JobInv(jobs[i]) /\ burn \in Nat
    BY <2>2, InvFacts DEF ChainInv
  <2>4. jobs' = [jobs EXCEPT ![i] = j]
    BY <2>1, <2>2
  <2> HIDE DEF t
  <2>5. /\ JobInv(j) /\ j.ours /\ ~Funding(t)
        /\ jobs[i].status \in Settled =>
              /\ j.status = jobs[i].status /\ j.final = jobs[i].final
              /\ j.escrow = jobs[i].escrow /\ j.payments = jobs[i].payments
        /\ j.escrow => jobs[i].escrow
    BY <2>2, <2>3, AfterInv
  <2> HIDE DEF j
  <2>6. jobs[i].ours = TRUE /\ j.ours = TRUE
    BY <2>2, <2>3, <2>5 DEF JobInv, JobSet
  <2>7. /\ jobs' \in Seq(JobSet) /\ \A k \in DOMAIN jobs' : JobInv(jobs'[k])
        /\ Keeps /\ FundsOnly(NoJob)
    BY <2>2, <2>4, <2>5, <2>6, InvFacts, JobChanges
  <2>8. UNCHANGED <<case, mode, phase, step, target, output, receipt, told, runs,
                    burn, stray, tx>> /\ runs # 0
    BY <1>4, ActiveRuns DEF StrangerSettles, process
  <2> QED
    BY <2>7, <2>8, InvFacts, OtherMoves DEF ChainInv
<1>5. CASE StrangerExpires
  <2>1. PICK i \in Ours :
            /\ jobs[i].status \in {"open", "priced", "funded", "assigned"}
            /\ jobs' = [jobs EXCEPT ![i].status = "expired", ![i].escrow = FALSE]
    BY <1>5 DEF StrangerExpires
  <2> DEFINE j == [jobs[i] EXCEPT !.status = "expired", !.escrow = FALSE]
  <2>2. i \in DOMAIN jobs /\ jobs[i].ours /\ JobInv(jobs[i]) /\ jobs[i] \in JobSet
    BY <2>1, InvFacts DEF Ours, ChainInv, JobInv
  <2>3. jobs' = [jobs EXCEPT ![i] = j]
    BY <2>1, <2>2
  <2>4. /\ j \in JobSet /\ j.ours = jobs[i].ours /\ j.status = "expired"
        /\ j.escrow = FALSE /\ j.payments = jobs[i].payments
    BY <2>2 DEF JobSet, Statuses
  <2> HIDE DEF j
  <2>5. jobs[i].status \notin Settled
    BY <2>1 DEF Settled
  <2>6. JobInv(j)
    BY <2>2, <2>4, <2>5 DEF JobInv, Settled
  <2>7. /\ jobs' \in Seq(JobSet) /\ \A k \in DOMAIN jobs' : JobInv(jobs'[k])
        /\ Keeps /\ FundsOnly(NoJob)
    BY <2>2, <2>3, <2>4, <2>5, <2>6, InvFacts, JobChanges
  <2>8. UNCHANGED <<case, mode, phase, step, target, output, receipt, told, runs,
                    burn, stray, tx>> /\ runs # 0
    BY <1>5, ActiveRuns DEF StrangerExpires, process
  <2> QED
    BY <2>7, <2>8, InvFacts, OtherMoves DEF ChainInv
<1> QED
  BY <1>1, <1>2, <1>3, <1>4, <1>5 DEF Strangers

-----------------------------------------------------------------------------
(* A run takes a step *)

LEMMA WrittenType ==
    ASSUME NEW o \in [job : Nat, result : Results]
    PROVE  /\ Written(o) \in [there : BOOLEAN, job : Nat, result : Results]
           /\ Written(o).job = o.job /\ Written(o).result = o.result
BY DEF Written

\* What a step of a run that goes on leaves behind.
LEMMA RunGoesOn ==
    ASSUME Inv, Running, step \in 1..Len(Steps), GoOn,
           UNCHANGED <<case, jobs, burn>>,
           stray' \subseteq Orders, Is("v2-test") \/ stray' = stray,
           told' \in {told, target},
           told' # told => Scenario("prepare-timeout"),
           target' \in Nat,
           target' = target \/ (step <= HireAt /\ (Is("v2-test") \/ target' \in Ours)),
           mode = "run" /\ ~Is("v2-test") /\ step = HireAt =>
               target' \in Ours /\ output'.job = target',
           output' \in [job : Nat, result : Results],
           output'.job \in {output.job, target'},
           output'.result \in {output.result, "failing"},
           output'.result = "failing" \/ target' # target \/ Found(This),
           \/ receipt' = receipt \/ receipt' = Written(output)
           \/ receipt' = Written(output'),
           mode = "run" /\ ~Is("v2-test") /\ step = HireAt + 1 =>
               receipt' = Written(output')
    PROVE  Inv'
<1>1. /\ Steps' = Steps /\ HireAt' = HireAt /\ PromisedEnd' = PromisedEnd
      /\ UNCHANGED <<mode, runs>> /\ phase' = "step" /\ step' = step + 1
      /\ tx' = NoTx /\ HireAt \in Nat /\ step \in Nat /\ Running'
  BY StepsStay, HireStays, InvFacts DEF GoOn, Running
<1>2. Ours' = Ours /\ ChainInv'
  BY InvFacts DEF ChainInv, Ours
<1>3. /\ output \in [job : Nat, result : Results]
      /\ receipt \in [there : BOOLEAN, job : Nat, result : Results]
      /\ told \in Nat /\ target \in Nat
  BY InvFacts DEF ProcessInv
<1>4. /\ receipt' \in [there : BOOLEAN, job : Nat, result : Results]
      /\ receipt' = receipt \/ receipt'.result \in {output.result, "failing"}
      /\ receipt'.job \in {receipt.job, output.job, target'}
  BY <1>3, WrittenType
<1>5. ProcessInv'
  BY <1>1, <1>3, <1>4, InvFacts DEF ProcessInv, ModeFits, Is, Running, Scenario
<1>6. WaitInv'
  BY <1>1 DEF WaitInv
<1>7. KnownInv'
  <2>1. told' # NoJob =>
            Scenario("prepare-timeout") \/ case.scenario \in AutoTestDelayed
    BY InvFacts DEF KnownInv
  <2>2. ASSUME ~Is("v2-test")
        PROVE  /\ OwnOrNone(target') /\ OwnOrNone(output'.job)
               /\ OwnOrNone(receipt'.job) /\ OwnOrNone(told')
    BY <1>3, <1>4, <2>2, InvFacts DEF KnownInv, OwnOrNone
  <2>3. ASSUME ~Is("v2-test"), step + 1 > HireAt PROVE target' \in Ours
    <3>1. CASE step > HireAt
      BY <1>1, <2>3, <3>1, InvFacts DEF KnownInv
    <3>2. CASE step = HireAt
      <4>1. mode = "run"
        BY <3>2, InvFacts, StepFacts DEF ModeFits
      <4> QED
        BY <2>3, <3>2, <4>1
    <3> QED
      BY <1>1, <2>3, <3>1, <3>2
  <2> QED
    BY <1>1, <1>2, <2>1, <2>2, <2>3 DEF KnownInv, OwnOrNone, Is, Scenario
<1>8. FoundInv'
  <2>1. output'.result # "passed"
    BY InvFacts DEF FoundInv
  <2>2. ASSUME output'.result # "failing", NEW i \in 1..Len(Steps), i < step + 1
        PROVE  Found(Steps[i])'
    <3>1. Steps[i]' = Steps[i]
      BY <1>1
    <3>2. CASE i <= HireAt
      <4>1. Steps[i].kind \in {"verify", "fund", "count", "call", "last"}
        BY <3>2, InvFacts, StepFacts
      <4> QED
        BY <3>1, <4>1 DEF Found
    <3>3. CASE i > HireAt
      <4>1. target' = target /\ Found(Steps[i])
        <5>1. CASE i = step
          BY <1>1, <2>2, <3>3, <5>1 DEF This
        <5>2. CASE i < step
          BY <1>1, <2>2, <3>3, <5>2, InvFacts DEF FoundInv
        <5> QED
          BY <1>1, <2>2, <5>1, <5>2
      <4> QED
        BY <3>1, <4>1 DEF Found
    <3> QED
      BY <1>1, <3>2, <3>3
  <2> QED
    BY <1>1, <2>1, <2>2 DEF FoundInv
<1>9. PassedInv'
  BY <1>1, <1>2, <1>4, InvFacts DEF PassedInv, PaidAsPromised, FoundInv
<1>10. ASSUME NamedInv, ~Is("v2-test"), mode = "run" PROVE NamedInv'
  <2>1. CASE step <= HireAt
    <3>1. /\ \A i \in DOMAIN jobs : ~jobs[i].escrow
          /\ \A t \in stray : ~Funding(t)
      BY <1>1, <1>10, <2>1 DEF NamedInv
    <3>2. step + 1 > HireAt => output'.job = target'
      BY <1>1, <1>10, <2>1
    <3>3. stray' = stray /\ ~(step + 1 > HireAt + 1)
      BY <1>1, <1>10, <2>1
    <3> QED
      BY <1>1, <3>1, <3>2, <3>3 DEF NamedInv
  <2>2. CASE step = HireAt + 1
    <3>1. /\ \A i \in DOMAIN jobs : ~jobs[i].escrow
          /\ \A t \in stray : ~Funding(t)
      BY <1>1, <1>10, <2>2 DEF NamedInv
    <3>2. target' = target /\ output.job = target /\ output'.job = target
      BY <1>1, <1>10, <2>2 DEF NamedInv
    <3>3. receipt'.job = target
      BY <1>10, <2>2, <3>2, WrittenType
    <3> QED
      BY <1>1, <1>10, <2>2, <3>1, <3>2, <3>3 DEF NamedInv
  <2>3. CASE step > HireAt + 1
    <3>1. /\ target' = target /\ output.job = target /\ output'.job = target
          /\ receipt.job = target /\ receipt'.job = receipt.job
      BY <1>1, <1>4, <1>10, <2>3 DEF NamedInv
    <3> QED
      BY <1>1, <1>10, <2>3, <3>1 DEF NamedInv
  <2> QED
    BY <1>1, <2>1, <2>2, <2>3
<1>11. FirstInv'
  BY <1>1, <1>10, InvFacts DEF FirstInv, Is
<1> QED
  BY <1>2, <1>5, <1>6, <1>7, <1>8, <1>9, <1>11 DEF Inv

-----------------------------------------------------------------------------
(* A run ends *)

LEMMA RunLeaves ==
    ASSUME Inv, Running, UNCHANGED <<case, mode, jobs, burn, runs>>,
           phase' = "idle", step' = 0, target' = NoJob, tx' = NoTx,
           \/ stray' = stray
           \/ phase = "wait" /\ stray' = stray \cup {Bytes(tx)},
           told' \in {told, target},
           told' # told => case.scenario \in AutoTestDelayed,
           output' \in [job : Nat, result : Results],
           output'.job \in {output.job, target},
           receipt' = receipt \/ receipt' = Written(output'),
           receipt' # receipt /\ receipt'.result = "passed" =>
               PaidAsPromised(receipt'.job)
    PROVE  Inv'
<1>1. /\ Steps' = Steps /\ HireAt' = HireAt /\ PromisedEnd' = PromisedEnd
      /\ HireAt \in Nat /\ step \in Nat /\ ~Running' /\ NoJob \in Nat
  BY StepsStay, HireStays, InvFacts DEF Running, NoJob
<1>2. Ours' = Ours
  BY DEF Ours
<1>3. /\ output \in [job : Nat, result : Results]
      /\ receipt \in [there : BOOLEAN, job : Nat, result : Results]
      /\ told \in Nat /\ target \in Nat
  BY InvFacts DEF ProcessInv
<1>4. /\ receipt' \in [there : BOOLEAN, job : Nat, result : Results]
      /\ receipt'.job \in {receipt.job, output.job, target}
      /\ receipt' = receipt \/ receipt'.job \in {output.job, target}
  BY <1>3, WrittenType
<1>5. phase = "wait" => tx \in Txs /\ Bytes(tx) \in Orders
                        /\ Bytes(tx).fn = tx.fn /\ Bytes(tx).job = tx.job
  BY InvFacts DEF WaitInv, Txs, Bytes, Orders
<1>6. ChainInv'
  BY <1>5, InvFacts DEF ChainInv
<1>7. ProcessInv'
  BY <1>1, <1>3, <1>4, InvFacts DEF ProcessInv, ModeFits, Is, Running, Scenario
<1>8. WaitInv' /\ FoundInv'
  BY <1>1 DEF WaitInv, FoundInv
<1>9. KnownInv'
  <2>1. told' # NoJob =>
            Scenario("prepare-timeout") \/ case.scenario \in AutoTestDelayed
    BY InvFacts DEF KnownInv
  <2>2. ASSUME ~Is("v2-test")
        PROVE  /\ OwnOrNone(target') /\ OwnOrNone(output'.job)
               /\ OwnOrNone(receipt'.job) /\ OwnOrNone(told')
    BY <1>3, <1>4, <2>2, InvFacts DEF KnownInv, OwnOrNone
  <2> QED
    BY <1>1, <1>2, <2>1, <2>2 DEF KnownInv, OwnOrNone, Is, Scenario
<1>10. PassedInv'
  BY <1>1, <1>2, InvFacts DEF PassedInv, PaidAsPromised
<1>11. ASSUME NamedInv, ~Is("v2-test"), mode = "run" PROVE NamedInv'
  <2>1. CASE step <= HireAt + 1
    <3>1. /\ \A i \in DOMAIN jobs : ~jobs[i].escrow
          /\ \A t \in stray : ~Funding(t)
      BY <1>1, <1>11, <2>1 DEF NamedInv
    <3>2. phase = "wait" => ~Funding(Bytes(tx))
      <4> SUFFICES ASSUME phase = "wait", Funding(tx) PROVE FALSE
        BY <1>5 DEF Funding
      <4>1. /\ step \in 1..Len(Steps) /\ Sends(Steps[step])
            /\ Steps[step].fn = "fund-job"
        BY <1>1, InvFacts DEF WaitInv, Funding, This, Sends, ProcessInv
      <4>2. HireAt >= 1 /\ Steps[HireAt + 1].fn = "set-budget"
        BY <1>11, InvFacts, StepFacts DEF SetBudget, Call
      <4>3. step # HireAt + 1
        BY <4>1, <4>2
      <4>4. step <= HireAt
        BY <1>1, <2>1, <4>3
      <4>5. Steps[step].fn \in {"transfer", "create-job"}
        BY <4>1, <4>4, InvFacts, StepFacts
      <4> QED
        BY <4>1, <4>5
    <3>3. \A t \in stray' : ~Funding(t)
      BY <3>1, <3>2
    <3> QED
      BY <1>1, <3>1, <3>3 DEF NamedInv
  <2>2. CASE step > HireAt + 1
    <3>1. /\ output.job = target /\ receipt.job = target /\ receipt'.job = receipt.job
      BY <1>1, <1>4, <1>11, <2>2 DEF NamedInv
    <3>2. \A t \in stray' : Funding(t) => receipt.job = t.job
      BY <1>5, <1>11 DEF NamedInv, Funding
    <3> QED
      BY <1>1, <1>11, <3>1, <3>2 DEF NamedInv
  <2> QED
    BY <1>1, <2>1, <2>2
<1>12. FirstInv'
  BY <1>1, <1>11, InvFacts DEF FirstInv, Is
<1> QED
  BY <1>6, <1>7, <1>8, <1>9, <1>10, <1>12 DEF Inv

-----------------------------------------------------------------------------
(* The steps of a run, one by one *)

LEMMA SaveFacts ==
    ASSUME Inv, NEW o \in [job : Nat, result : Results], Save(o)
    PROVE  /\ output' = o /\ (receipt' = receipt \/ receipt' = Written(o))
           /\ ~Is("v2-test") => receipt' = Written(o)
           /\ Is("v2-test") => receipt' = receipt
BY InvFacts, Policies DEF Save

LEMMA LeaveFacts ==
    ASSUME Inv, LeaveBehind
    PROVE  /\ \/ stray' = stray
              \/ phase = "wait" /\ stray' = stray \cup {Bytes(tx)}
           /\ stray' \subseteq Orders
           /\ phase # "wait" => stray' = stray
<1>1. IsPending => phase = "wait"
  BY InvFacts DEF IsPending, ProcessInv
<1>2. phase = "wait" => Bytes(tx) \in Orders
  BY InvFacts DEF WaitInv, Txs, Bytes, Orders
<1> QED
  BY <1>1, <1>2, InvFacts DEF LeaveBehind, ChainInv

LEMMA Outputs ==
    ASSUME Inv
    PROVE  /\ output \in [job : Nat, result : Results]
           /\ output.job \in Nat /\ target \in Nat /\ NoJob \in Nat
           /\ \A r \in Results :
                 /\ [output EXCEPT !.result = r] \in [job : Nat, result : Results]
                 /\ [output EXCEPT !.result = r].job = output.job
                 /\ [output EXCEPT !.result = r].result = r
           /\ \A i \in Nat :
                 /\ [output EXCEPT !.job = i] \in [job : Nat, result : Results]
                 /\ [output EXCEPT !.job = i].job = i
                 /\ [output EXCEPT !.job = i].result = output.result
           /\ \A r \in Results, i \in Nat :
                 /\ [job |-> i, result |-> r] \in [job : Nat, result : Results]
           /\ {"none", "running", "failing", "error", "awaiting", "passed",
               "failed"} = Results
<1>1. output \in [job : Nat, result : Results] /\ target \in Nat /\ NoJob \in Nat
  BY InvFacts DEF ProcessInv, NoJob
<1> QED
  BY <1>1 DEF Results

LEMMA ThrowInv ==
    ASSUME Inv, Running, Throw, UNCHANGED <<case, jobs, burn, told>>
    PROVE  Inv'
<1> DEFINE o == IF Receipt.catches THEN [output EXCEPT !.result = "error"] ELSE output
<1>1. /\ o \in [job : Nat, result : Results] /\ o.job = output.job
      /\ o.result \in {output.result, "error"}
  BY Outputs
<1>2. Leave("failed") /\ Save(o)
  BY DEF Throw
<1> HIDE DEF o
<1>3. output' = o /\ (receipt' = receipt \/ receipt' = Written(o))
  BY <1>1, <1>2, SaveFacts
<1>4. /\ UNCHANGED <<mode, runs>> /\ phase' = "idle" /\ step' = 0
      /\ target' = NoJob /\ tx' = NoTx
      /\ \/ stray' = stray
         \/ phase = "wait" /\ stray' = stray \cup {Bytes(tx)}
  BY <1>2, LeaveFacts DEF Leave
<1>5. receipt' # receipt => receipt'.result # "passed"
  BY <1>1, <1>3, WrittenType, InvFacts DEF FoundInv
<1> QED
  BY <1>1, <1>3, <1>4, <1>5, RunLeaves

LEMMA FailInv ==
    ASSUME Inv, Running, step \in 1..Len(Steps), Fail,
           UNCHANGED <<case, jobs, burn, told>>
    PROVE  Inv'
<1>1. CASE Sending.tolerant
  <2> DEFINE o == [output EXCEPT !.result = "failing"]
  <2>1. Is("v2-test")
    BY <1>1, InvFacts, Policies
  <2>2. GoOn /\ Save(o) /\ LeaveBehind /\ target' = target
    BY <1>1 DEF Fail
  <2>3. o \in [job : Nat, result : Results] /\ o.job = output.job /\ o.result = "failing"
    BY Outputs
  <2> HIDE DEF o
  <2>4. output' = o /\ receipt' = receipt
    BY <2>1, <2>2, <2>3, SaveFacts
  <2>5. stray' \subseteq Orders
    BY <2>2, LeaveFacts
  <2>6. target \in Nat
    BY Outputs
  <2> QED
    BY <2>1, <2>2, <2>3, <2>4, <2>5, <2>6, RunGoesOn
<1>2. CASE ~Sending.tolerant
  BY <1>2, ThrowInv DEF Fail
<1> QED
  BY <1>1, <1>2

LEMMA AtStepFacts ==
    ASSUME Inv, NEW kinds, AtStep(kinds)
    PROVE  /\ Running /\ step \in 1..Len(Steps) /\ This.kind \in kinds
           /\ phase = "step" /\ This = Steps[step]
           /\ stray \subseteq Orders
BY InvFacts DEF AtStep, Running, ProcessInv, This, ChainInv

\* The step that names the job of a first run is its create-job.
LEMMA NamingStep ==
    ASSUME Inv, mode = "run", ~Is("v2-test"), step \in 1..Len(Steps)
    PROVE  /\ step = HireAt => This.kind = "call" /\ This.fn = "create-job"
           /\ step = HireAt + 1 => This.kind = "call" /\ This.fn = "set-budget"
<1>1. Steps[HireAt] = CreateJob /\ Steps[HireAt + 1] = SetBudget
  BY InvFacts, StepFacts
<1> QED
  BY <1>1 DEF CreateJob, SetBudget, Call, This

LEMMA CheckInv == ASSUME Inv, Check PROVE Inv'
<1>1. /\ Running /\ step \in 1..Len(Steps) /\ This = Steps[step]
      /\ This.kind \in {"verify", "grew", "expect", "terminal", "rated", "must be due"}
  BY AtStepFacts DEF Check
<1>2. UNCHANGED <<case, jobs, burn, told>>
  BY DEF Check
<1>3. CASE Holds(This)
  <2>1. GoOn /\ Save(output) /\ UNCHANGED <<stray, target>>
    BY <1>3 DEF Check
  <2>2. output' = output /\ (receipt' = receipt \/ receipt' = Written(output'))
        /\ output \in [job : Nat, result : Results] /\ target \in Nat
        /\ stray \subseteq Orders
    BY <2>1, SaveFacts, Outputs, InvFacts DEF ChainInv
  <2>3. Found(This)
    <3>1. This.kind = "terminal" =>
              /\ target \in DOMAIN jobs /\ jobs[target].status = This.status
              /\ jobs[target].final = This.final
      BY <1>3 DEF Holds, Job
    <3> QED
      BY <1>1, <3>1 DEF Found
  <2>4. mode = "run" /\ ~Is("v2-test") => step # HireAt /\ step # HireAt + 1
    BY <1>1, NamingStep
  <2> QED
    BY <1>1, <1>2, <2>1, <2>2, <2>3, <2>4, RunGoesOn
<1>4. CASE ~Holds(This)
  BY <1>1, <1>2, <1>4, FailInv DEF Check
<1> QED
  BY <1>3, <1>4

LEMMA NoteInv == ASSUME Inv, Note PROVE Inv'
<1>1. /\ Running /\ step \in 1..Len(Steps) /\ This = Steps[step]
      /\ This.kind \in {"count", "last", "name", "prepared"} /\ stray \subseteq Orders
  BY AtStepFacts DEF Note
<1>2. /\ UNCHANGED <<case, jobs, burn, stray>> /\ GoOn
      /\ target' = IF This.kind = "last" THEN Len(jobs) ELSE target
      /\ told' = IF This.kind = "prepared" THEN target ELSE told
      /\ output' = IF This.kind = "name" THEN [output EXCEPT !.job = target] ELSE output
      /\ receipt' = receipt
  BY DEF Note, Keep, chain
<1>3. /\ target \in Nat /\ Len(jobs) \in Nat
      /\ output' \in [job : Nat, result : Results]
      /\ output'.result = output.result
      /\ This.kind = "name" => output'.job = target /\ target' = target
      /\ This.kind # "name" => output'.job = output.job
  BY <1>2, Outputs, InvFacts, LenProperties DEF ChainInv
<1>4. This.kind = "last" => step <= HireAt /\ Is("v2-test")
  <2> SUFFICES ASSUME This.kind = "last" PROVE step <= HireAt /\ Is("v2-test")
    OBVIOUS
  <2>1. step <= HireAt
    BY <1>1, InvFacts, StepFacts
  <2>2. mode = "run"
    BY <1>1, <2>1, InvFacts, StepFacts DEF ModeFits
  <2>3. ASSUME ~Is("v2-test") PROVE FALSE
    <3>1. CASE step = HireAt
      BY <1>1, <2>2, <2>3, <3>1, NamingStep
    <3>2. CASE step < HireAt
      BY <1>1, <2>2, <2>3, <3>2, InvFacts, StepFacts
    <3> QED
      BY <2>1, <3>1, <3>2, InvFacts
  <2> QED
    BY <2>1, <2>3
<1>5. told' # told => Scenario("prepare-timeout")
  BY <1>1, <1>2, InvFacts, StepFacts
<1>6. mode = "run" /\ ~Is("v2-test") => step # HireAt /\ step # HireAt + 1
  BY <1>1, NamingStep
<1>7. Found(This)
  BY <1>1 DEF Found
<1> QED
  BY <1>1, <1>2, <1>3, <1>4, <1>5, <1>6, <1>7, RunGoesOn

LEMMA StopInv ==
    ASSUME Inv, Running, UNCHANGED <<case, jobs, burn>>,
           NEW o \in [job : Nat, result : Results], o.job \in {output.job, target},
           StopAwaiting(o), told' \in {told, target},
           told' # told => case.scenario \in AutoTestDelayed
    PROVE  Inv'
<1> DEFINE w == [o EXCEPT !.result = "awaiting"]
<1>1. w \in [job : Nat, result : Results] /\ w.job = o.job /\ w.result = "awaiting"
  BY DEF Results
<1>2. Leave("awaiting") /\ Save(w)
  BY DEF StopAwaiting
<1> HIDE DEF w
<1>3. output' = w /\ (receipt' = receipt \/ receipt' = Written(w))
  BY <1>1, <1>2, SaveFacts
<1>4. /\ UNCHANGED <<mode, runs>> /\ phase' = "idle" /\ step' = 0
      /\ target' = NoJob /\ tx' = NoTx
      /\ \/ stray' = stray
         \/ phase = "wait" /\ stray' = stray \cup {Bytes(tx)}
  BY <1>2, LeaveFacts DEF Leave
<1>5. receipt' # receipt => receipt'.result # "passed"
  BY <1>1, <1>3, WrittenType
<1> QED
  BY <1>1, <1>3, <1>4, <1>5, RunLeaves

LEMMA AwaitDeadlineInv == ASSUME Inv, AwaitDeadline PROVE Inv'
<1>1. /\ Running /\ step \in 1..Len(Steps) /\ This = Steps[step]
      /\ This.kind = "await"
  BY AtStepFacts DEF AwaitDeadline
<1>2. case.scenario \in AutoTestDelayed
  BY <1>1, InvFacts, StepFacts
<1>3. UNCHANGED <<case, jobs, burn>> /\ StopAwaiting(output) /\ told' = target
  BY DEF AwaitDeadline
<1>4. output \in [job : Nat, result : Results]
  BY Outputs
<1> QED
  BY <1>1, <1>2, <1>3, <1>4, StopInv

LEMMA CompareDeadlineInv == ASSUME Inv, CompareDeadline PROVE Inv'
<1>1. /\ Running /\ step \in 1..Len(Steps) /\ This = Steps[step]
      /\ This.kind = "due" /\ stray \subseteq Orders
  BY AtStepFacts DEF CompareDeadline
<1> DEFINE o == [output EXCEPT !.job = target]
<1>2. /\ o \in [job : Nat, result : Results] /\ o.job = target /\ target \in Nat
      /\ o.result = output.result
  BY Outputs
<1>3. /\ UNCHANGED <<case, jobs, burn, told>>
      /\ IF burn <= Job.deadline THEN StopAwaiting(o)
         ELSE GoOn /\ Keep(o) /\ UNCHANGED <<stray, target, count>>
  BY DEF CompareDeadline
<1> HIDE DEF o
<1>4. CASE burn <= Job.deadline
  BY <1>1, <1>2, <1>3, <1>4, StopInv
<1>5. CASE ~(burn <= Job.deadline)
  <2>1. GoOn /\ output' = o /\ receipt' = receipt /\ stray' = stray
        /\ target' = target
    BY <1>3, <1>5 DEF Keep
  <2>2. mode = "run" /\ ~Is("v2-test") => step # HireAt /\ step # HireAt + 1
    BY <1>1, NamingStep
  <2>3. Found(This)
    BY <1>1 DEF Found
  <2> QED
    BY <1>1, <1>2, <1>3, <2>1, <2>2, <2>3, RunGoesOn
<1> QED
  BY <1>4, <1>5

LEMMA SkipInv == ASSUME Inv, Skip PROVE Inv'
<1>1. /\ Running /\ step \in 1..Len(Steps) /\ This = Steps[step]
      /\ This.kind = "fund" /\ stray \subseteq Orders
  BY AtStepFacts DEF Skip
<1>2. GoOn /\ Save(output) /\ UNCHANGED <<case, jobs, burn, stray, target, told>>
  BY DEF Skip, chain
<1>3. /\ output' = output /\ (receipt' = receipt \/ receipt' = Written(output'))
      /\ output \in [job : Nat, result : Results] /\ target \in Nat
  BY <1>2, SaveFacts, Outputs
<1>4. mode = "run" /\ ~Is("v2-test") => step # HireAt /\ step # HireAt + 1
  BY <1>1, NamingStep
<1>5. Found(This)
  BY <1>1 DEF Found
<1> QED
  BY <1>1, <1>2, <1>3, <1>4, <1>5, RunGoesOn

LEMMA BroadcastInv == ASSUME Inv, Broadcast PROVE Inv'
<1>1. /\ Running /\ step \in 1..Len(Steps) /\ This = Steps[step] /\ Sends(This)
      /\ This.kind \in Sendings /\ phase = "step"
  BY AtStepFacts DEF Broadcast, Sends
<1>2. /\ UNCHANGED <<case, jobs, burn, stray, receipt, mode, step, target,
                     output, runs, told>>
      /\ phase' = "wait"
      /\ tx' = [fn |-> This.fn, by |-> This.by, arg |-> This.arg,
                job |-> IF This.fn \in {"transfer", "create-job"} THEN NoJob
                        ELSE target,
                state |-> "pending", id |-> NoJob]
  BY DEF Broadcast, chain, history
<1>3. /\ Steps' = Steps /\ HireAt' = HireAt /\ PromisedEnd' = PromisedEnd
      /\ Running'
  BY <1>2, StepsStay, HireStays DEF Running
<1>4. This' = This /\ Ours' = Ours
  BY <1>2, <1>3 DEF This, Ours
<1>5. This.fn \in Fns /\ This.by \in Actors /\ This.arg \in Args
  BY <1>1, InvFacts, StepFacts
<1>6. target \in Nat /\ NoJob \in Nat
  BY Outputs
<1>7. ChainInv' /\ ProcessInv'
  BY <1>1, <1>2, <1>3, InvFacts
  DEF ChainInv, ProcessInv, ModeFits, Is, Scenario, Running
<1>8. WaitInv'
  <2>1. tx' \in Txs
    BY <1>2, <1>5, <1>6 DEF Txs
  <2>2. /\ tx'.fn = This.fn /\ tx'.state = "pending"
        /\ tx'.fn \notin {"transfer", "create-job"} => tx'.job = target
    BY <1>2
  <2>3. step <= Len(Steps)
    BY <1>1, InvFacts
  <2> QED
    BY <1>1, <1>2, <1>3, <1>4, <2>1, <2>2, <2>3 DEF WaitInv
<1>9. KnownInv'
  BY <1>1, <1>2, <1>3, <1>4, InvFacts DEF KnownInv, OwnOrNone, Is, Scenario
<1>10. FoundInv' /\ PassedInv'
  BY <1>1, <1>2, <1>3, <1>4, InvFacts
  DEF FoundInv, Found, PassedInv, PaidAsPromised
<1>11. ASSUME NamedInv, ~Is("v2-test"), mode = "run" PROVE NamedInv'
  <2>1. ASSUME This.fn = "fund-job" PROVE receipt.job = target /\ tx'.job = target
    <3>1. step > HireAt
      <4>1. step <= HireAt => This.fn \in {"transfer", "create-job"}
        BY <1>1, InvFacts, StepFacts
      <4> QED
        BY <2>1, <4>1, InvFacts
    <3>2. step # HireAt + 1
      BY <1>1, <1>11, <2>1, NamingStep
    <3>3. step > HireAt + 1
      BY <3>1, <3>2, InvFacts
    <3> QED
      BY <1>1, <1>2, <1>11, <2>1, <3>3 DEF NamedInv
  <2>2. Funding(tx)' => receipt.job = tx'.job
    BY <1>2, <2>1 DEF Funding
  <2> QED
    BY <1>1, <1>2, <1>3, <1>11, <2>2 DEF NamedInv, Funding
<1>12. FirstInv'
  BY <1>1, <1>2, <1>3, <1>11, InvFacts DEF FirstInv, Is
<1> QED
  BY <1>7, <1>8, <1>9, <1>10, <1>12 DEF Inv

LEMMA NodeRefusesInv == ASSUME Inv, NodeRefuses PROVE Inv'
<1>1. Running
  BY AtStepFacts DEF NodeRefuses
<1>2. Throw /\ UNCHANGED <<case, jobs, burn, told>>
  BY DEF NodeRefuses
<1> QED
  BY <1>1, <1>2, ThrowInv

LEMMA WaitFacts ==
    ASSUME Inv, phase = "wait"
    PROVE  /\ Running /\ step \in 1..Len(Steps) /\ This = Steps[step]
           /\ This.kind \in Sendings /\ Sends(This)
           /\ tx.fn = This.fn /\ tx \in Txs /\ tx.id \in Nat /\ Found(This)
           /\ tx.fn = "create-job" /\ tx.state = "success" => tx.id \in Ours
           /\ stray \subseteq Orders
<1>1. /\ Running /\ step \in Nat /\ step >= 1
  BY InvFacts DEF ProcessInv, Running
<1>2. /\ step <= Len(Steps) /\ This.kind \in Sendings
      /\ tx \in Txs /\ tx.fn = This.fn
      /\ tx.fn = "create-job" /\ tx.state = "success" => tx.id \in Ours
  BY InvFacts DEF WaitInv
<1>3. tx.id \in Nat
  BY <1>2 DEF Txs
<1>4. Found(This) /\ Sends(This)
  BY <1>2 DEF Found, Sends, Sendings
<1> QED
  BY <1>1, <1>2, <1>3, <1>4, InvFacts DEF This, ChainInv

\* The job of a run is what its own create-job returned.
LEMMA CreationInv ==
    ASSUME Inv, Observe, IsAsWanted(This, tx.state), tx.fn = "create-job",
           ~Is("v2-test")
    PROVE  Inv'
<1>1. phase = "wait" /\ tx.state \in Sending.ends
  BY DEF Observe
<1>2. /\ Running /\ step \in 1..Len(Steps) /\ This = Steps[step] /\ Sends(This)
      /\ This.fn = "create-job" /\ tx.id \in Nat /\ Found(This)
      /\ stray \subseteq Orders
  BY <1>1, WaitFacts
<1>3. step <= HireAt
  <2>1. step > HireAt => This.fn \in EscrowCalls
    BY <1>2, InvFacts, StepFacts
  <2> QED
    BY <1>2, <2>1, InvFacts DEF EscrowCalls
<1>4. mode = "run"
  BY <1>2, <1>3, InvFacts, StepFacts DEF ModeFits
<1>5. step = HireAt
  <2>1. step < HireAt => This.fn = "transfer"
    BY <1>2, <1>4, InvFacts, StepFacts
  <2> QED
    BY <1>2, <1>3, <2>1, InvFacts
<1>6. This.kind = "call"
  BY <1>2, <1>4, <1>5, NamingStep
<1>7. tx.id \in Ours
  BY <1>1, <1>2, <1>6, WaitFacts DEF IsAsWanted, IsUnchecked
<1> DEFINE o == Named(output, CreatedJob(tx))
<1>8. o \in [job : Nat, result : Results] /\ o.job = tx.id /\ o.result = output.result
  BY <1>2, Outputs DEF Named, CreatedJob
<1>9. /\ GoOn /\ stray' = stray /\ target' = tx.id
      /\ IF Receipt.savesId THEN Save(o)
         ELSE output' = o /\ receipt' = Written(output)
      /\ UNCHANGED <<case, jobs, burn, told>>
  <2>1. ~Sending.tolerant
    BY InvFacts, Policies
  <2> QED
    BY <2>1 DEF Observe, CreatedJob
<1> HIDE DEF o
<1>10. output' = o /\ (receipt' = Written(output) \/ receipt' = Written(output'))
  BY <1>8, <1>9, SaveFacts
<1>11. step # HireAt + 1
  BY <1>5, InvFacts
<1> QED
  BY <1>2, <1>3, <1>5, <1>7, <1>8, <1>9, <1>10, <1>11, RunGoesOn

LEMMA ObserveInv == ASSUME Inv, Observe PROVE Inv'
<1>1. phase = "wait" /\ UNCHANGED <<case, jobs, burn, told>>
  BY DEF Observe
<1>2. /\ Running /\ step \in 1..Len(Steps) /\ tx.fn = This.fn /\ Found(This)
      /\ stray \subseteq Orders
  BY <1>1, WaitFacts
<1>3. CASE ~IsAsWanted(This, tx.state)
  BY <1>1, <1>2, <1>3, FailInv DEF Observe
<1>4. CASE /\ IsAsWanted(This, tx.state)
           /\ ~(tx.fn = "create-job" /\ ~Is("v2-test"))
  <2>1. GoOn /\ stray' = stray /\ target' = target /\ Save(output)
    <3>1. ~(tx.fn = "create-job" /\ ~Sending.tolerant)
      BY <1>4, InvFacts, Policies
    <3> QED
      BY <1>4, <3>1 DEF Observe
  <2>2. output \in [job : Nat, result : Results] /\ target \in Nat
    BY Outputs
  <2>3. /\ output' = output /\ (receipt' = receipt \/ receipt' = Written(output'))
        /\ ~Is("v2-test") => receipt' = Written(output')
    BY <2>1, <2>2, SaveFacts
  <2>4. mode = "run" /\ ~Is("v2-test") => step # HireAt
    BY <1>2, <1>4, NamingStep
  <2> QED
    BY <1>1, <1>2, <2>1, <2>2, <2>3, <2>4, RunGoesOn
<1> QED
  BY <1>3, <1>4, CreationInv

LEMMA TimeOutInv == ASSUME Inv, TimeOut PROVE Inv'
<1>1. phase = "wait" /\ UNCHANGED <<case, jobs, burn, told>>
  BY DEF TimeOut
<1>2. Running /\ step \in 1..Len(Steps) /\ Found(This)
  BY <1>1, WaitFacts
<1>3. CASE IsUnchecked(This) /\ Sending.tolerant
  <2>1. GoOn /\ output' = output /\ receipt' = receipt /\ target' = target
        /\ LeaveBehind
    BY <1>3 DEF TimeOut, Keep
  <2>2. Is("v2-test") /\ stray' \subseteq Orders
    BY <1>3, <2>1, InvFacts, Policies, LeaveFacts
  <2>3. output \in [job : Nat, result : Results] /\ target \in Nat
    BY Outputs
  <2> QED
    BY <1>1, <1>2, <2>1, <2>2, <2>3, RunGoesOn
<1>4. CASE ~(IsUnchecked(This) /\ Sending.tolerant)
  BY <1>1, <1>2, <1>4, FailInv DEF TimeOut
<1> QED
  BY <1>3, <1>4

\* A run that has all its steps behind it has found its job as promised.
LEMMA PassedIsPromised ==
    ASSUME Inv, Finish, Verdict = "passed"
    PROVE  PaidAsPromised(target)
<1>1. phase = "step" /\ step > Len(Steps) /\ output.result # "failing" /\ Running
  BY DEF Finish, Verdict, Running
<1>2. \A i \in 1..Len(Steps) : Found(Steps[i])
  BY <1>1, InvFacts DEF FoundInv
<1>3. ~Holder(Steps, Await)
  BY <1>2 DEF Holder, Found, Await
<1>4. CASE PromisedEnd[1] = "submitted"
  <2>1. Scenario("prepare-timeout")
    BY <1>4 DEF PromisedEnd
  <2>2. ~Is("v2-test")
    BY <2>1, InvFacts DEF CaseFits, ScenariosOf, Is, Scenario
  <2>3. step > HireAt
    BY <1>1, InvFacts
  <2> QED
    BY <1>1, <1>4, <2>2, <2>3, InvFacts DEF KnownInv, PaidAsPromised
<1>5. CASE Holder(Steps, PromisedTerminal) /\ PromisedEnd[1] \in Settled
  <2>1. /\ target \in DOMAIN jobs /\ jobs[target].status = PromisedEnd[1]
        /\ jobs[target].final = PromisedEnd[2]
    <3>1. PICK i \in 1..Len(Steps) : Steps[i] = PromisedTerminal
      BY <1>5 DEF Holder
    <3>2. Found(PromisedTerminal)
      BY <1>2, <3>1
    <3> QED
      BY <3>2 DEF Found, PromisedTerminal, Terminal
  <2>2. JobInv(jobs[target])
    BY <2>1, InvFacts DEF ChainInv
  <2>3. "open" \notin Settled
    BY DEF Settled
  <2> QED
    BY <1>5, <2>1, <2>2, <2>3 DEF JobInv, JobSet, PaidAsPromised, Ours
<1> QED
  BY <1>3, <1>4, <1>5, StepsEnd, InvFacts

LEMMA FinishInv == ASSUME Inv, Finish PROVE Inv'
<1>1. /\ phase = "step" /\ Running /\ Leave(Verdict)
      /\ output' = [job |-> target, result |-> Verdict]
      /\ receipt' = Written(output') /\ UNCHANGED <<case, jobs, burn, told>>
  BY DEF Finish, Running
<1>2. Verdict \in Results
  BY DEF Verdict, Results
<1>3. /\ output' \in [job : Nat, result : Results] /\ output'.job = target
      /\ receipt'.job = target /\ receipt'.result = Verdict
  <2>1. /\ output' \in [job : Nat, result : Results] /\ output'.job = target
        /\ output'.result = Verdict
    BY <1>1, <1>2, Outputs
  <2> QED
    BY <1>1, <2>1, WrittenType
<1>4. /\ UNCHANGED <<mode, runs>> /\ phase' = "idle" /\ step' = 0
      /\ target' = NoJob /\ tx' = NoTx /\ stray' = stray
  BY <1>1, LeaveFacts DEF Leave
<1>5. receipt'.result = "passed" => PaidAsPromised(receipt'.job)
  BY <1>3, PassedIsPromised
<1> QED
  BY <1>1, <1>3, <1>4, <1>5, RunLeaves

LEMMA CrashInv == ASSUME Inv, Crash PROVE Inv'
<1>1. /\ Running /\ Leave("crashed") /\ output' = output /\ receipt' = receipt
      /\ UNCHANGED <<case, jobs, burn, told>>
  BY DEF Crash, Keep
<1>2. /\ UNCHANGED <<mode, runs>> /\ phase' = "idle" /\ step' = 0
      /\ target' = NoJob /\ tx' = NoTx
      /\ \/ stray' = stray
         \/ phase = "wait" /\ stray' = stray \cup {Bytes(tx)}
  BY <1>1, LeaveFacts DEF Leave
<1>3. output \in [job : Nat, result : Results]
  BY Outputs
<1> QED
  BY <1>1, <1>2, <1>3, RunLeaves

-----------------------------------------------------------------------------
(* A run begins *)

LEMMA FirstSteps ==
    ProcessInv => /\ mode = "run" /\ ~Is("v2-test") => HireAt >= 1
                  /\ mode = "resume" => HireAt = 0
                  /\ HireAt \in Nat
BY StepFacts

\* The same of the run that begins.
LEMMA NextFirstSteps ==
    (ProcessInv => /\ mode = "run" /\ ~Is("v2-test") => HireAt >= 1
                   /\ mode = "resume" => HireAt = 0
                   /\ HireAt \in Nat)'
BY FirstSteps, PTL

\* A run begins without a job, or with the prepared one.
LEMMA BeginFacts ==
    ASSUME Inv, Begin
    PROVE  /\ ModeFits' /\ target' \in Nat
           /\ mode' = "run" => target' = NoJob
           /\ mode' = "resume" => /\ ~Is("v2-test") /\ target' # NoJob
                                  /\ target' \in {receipt.job, told}
<1>1. /\ receipt.job \in Nat /\ told \in Nat /\ NoJob \in Nat
  BY InvFacts DEF ProcessInv, NoJob
<1>2. PICK m \in {"run", "resume"} :
          /\ Starts(m) /\ mode' = m
          /\ target' = CASE m = "run" -> NoJob
                         [] m = "resume" /\ Is("auto-test") -> receipt.job
                         [] OTHER -> told
  BY DEF Begin
<1>3. CASE m = "run"
  BY <1>1, <1>2, <1>3 DEF ModeFits
<1>4. CASE m = "resume" /\ Is("auto-test")
  <2>1. /\ case.scenario \in AutoTestDelayed /\ receipt.job # NoJob
        /\ target' = receipt.job
    BY <1>2, <1>4 DEF Starts, SuiteStarts, Is
  <2>2. ~Is("v2-test")
    BY <1>4 DEF Is
  <2>3. case' = case
    BY DEF Begin
  <2> QED
    BY <1>1, <1>2, <1>4, <2>1, <2>2, <2>3 DEF ModeFits, Is
<1>5. CASE m = "resume" /\ ~Is("auto-test")
  <2>1. Is("v4-test") /\ told # NoJob /\ target' = told
    BY <1>2, <1>5 DEF Starts
  <2>2. Scenario("prepare-timeout")
    BY <2>1, InvFacts
    DEF KnownInv, CaseFits, ScenariosOf, AutoTestDelayed, Is, Scenario
  <2>3. ~Is("v2-test")
    BY <2>1 DEF Is
  <2>4. case' = case
    BY DEF Begin
  <2> QED
    BY <1>1, <1>2, <1>5, <2>1, <2>2, <2>3, <2>4 DEF ModeFits, Is, Scenario
<1> QED
  BY <1>2, <1>3, <1>4, <1>5

LEMMA BeginInv == ASSUME Inv, Begin PROVE Inv'
<1> DEFINE o == [job |-> NoJob, result |-> "running"]
<1>1. /\ ~Running /\ UNCHANGED <<case, jobs, burn, stray, told>>
      /\ phase' = "step" /\ step' = 1 /\ tx' = NoTx /\ runs' = runs + 1
      /\ IF Receipt.atStart THEN Save(o) ELSE Keep(o)
  BY DEF Begin, chain
<1>2. /\ o \in [job : Nat, result : Results] /\ o.job = NoJob
      /\ o.result = "running" /\ NoJob \in Nat
  BY DEF Results, NoJob
<1>3. /\ ModeFits' /\ target' \in Nat
      /\ mode' = "run" => target' = NoJob
      /\ mode' = "resume" => /\ ~Is("v2-test") /\ target' # NoJob
                             /\ target' \in {receipt.job, told}
  BY BeginFacts
<1> HIDE DEF o
<1>4. /\ output' = o /\ (receipt' = receipt \/ receipt' = Written(o))
      /\ Is("v4-test") => receipt' = Written(o)
  <2>1. CASE Receipt.atStart
    <3>1. Is("v4-test") => ~Is("v2-test")
      BY DEF Is
    <3> QED
      BY <1>1, <1>2, <2>1, <3>1, SaveFacts
  <2>2. CASE ~Receipt.atStart
    BY <1>1, <2>2, InvFacts, Policies DEF Keep
  <2> QED
    BY <2>1, <2>2
<1>5. /\ Written(o) \in [there : BOOLEAN, job : Nat, result : Results]
      /\ Written(o).job = NoJob /\ Written(o).result = "running"
  BY <1>2, WrittenType
<1>6. Ours' = Ours /\ Running'
  BY <1>1 DEF Ours, Running
<1>7. ChainInv'
  BY <1>1, InvFacts DEF ChainInv
<1>8. ProcessInv'
  BY <1>1, <1>2, <1>3, <1>4, <1>5, InvFacts DEF ProcessInv
<1>9. /\ HireAt' \in Nat /\ (mode' = "resume" => HireAt' = 0)
      /\ mode' = "run" /\ ~Is("v2-test") => HireAt' >= 1
      /\ mode' \in {"run", "resume"}
  <2>1. Is("v2-test")' = Is("v2-test")
    BY <1>1 DEF Is
  <2> QED
    BY <1>3, <1>8, <2>1, NextFirstSteps DEF ModeFits
<1>10. WaitInv'
  BY <1>1 DEF WaitInv
<1>11. KnownInv'
  <2>1. ASSUME ~Is("v2-test")
        PROVE  /\ OwnOrNone(receipt.job) /\ OwnOrNone(told) /\ OwnOrNone(NoJob)
               /\ OwnOrNone(target')
    <3>1. OwnOrNone(receipt.job) /\ OwnOrNone(told) /\ OwnOrNone(NoJob)
      BY <2>1, InvFacts DEF KnownInv, OwnOrNone
    <3> QED
      BY <1>3, <1>9, <3>1
  <2>2. ASSUME ~Is("v2-test"), 1 > HireAt' PROVE target' \in Ours
    BY <1>3, <1>9, <2>1, <2>2 DEF OwnOrNone
  <2>3. ASSUME ~Is("v2-test") PROVE OwnOrNone(output'.job) /\ OwnOrNone(receipt'.job)
    BY <1>2, <1>4, <1>5, <2>1, <2>3
  <2>4. told # NoJob =>
            Scenario("prepare-timeout") \/ case.scenario \in AutoTestDelayed
    BY InvFacts DEF KnownInv
  <2> QED
    BY <1>1, <1>6, <2>1, <2>2, <2>3, <2>4 DEF KnownInv, OwnOrNone, Is, Scenario
<1>12. FoundInv'
  <2>1. ~(\E i \in 1..Len(Steps)' : i < 1)
    OBVIOUS
  <2> QED
    BY <1>1, <1>2, <1>4, <2>1 DEF FoundInv
<1>13. PassedInv'
  <2> SUFFICES ASSUME receipt'.result = "passed" PROVE PaidAsPromised(receipt.job)'
    BY DEF PassedInv
  <2>1. receipt' = receipt /\ ~Is("v4-test")
    BY <1>4, <1>5
  <2>2. ~Scenario("prepare-timeout")
    BY <2>1, InvFacts DEF CaseFits, ScenariosOf, Is, Scenario, Scripts
  <2>3. PromisedEnd' = PromisedEnd
    BY <1>1, <2>2 DEF PromisedEnd, Scenario
  <2> QED
    BY <1>1, <1>6, <2>1, <2>3, InvFacts DEF PassedInv, PaidAsPromised
<1>14. FirstInv'
  <2>1. runs \in Nat
    BY InvFacts DEF ProcessInv
  <2>2. ASSUME runs = 0
        PROVE  /\ jobs = <<>> /\ stray = {} /\ mode' = "run"
    <3>1. jobs = <<>> /\ stray = {} /\ told = NoJob /\ receipt.job = NoJob
      BY <2>2, InvFacts DEF FirstInv
    <3> QED
      BY <1>3, <1>9, <3>1
  <2>3. ASSUME runs = 0, ~Is("v2-test") PROVE NamedInv'
    <3>1. DOMAIN jobs' = {} /\ stray' = {}
      BY <1>1, <2>2, <2>3
    <3>2. HireAt' >= 1 /\ HireAt' \in Nat
      BY <1>9, <2>2, <2>3
    <3>3. ~(1 > HireAt') /\ ~(1 > HireAt' + 1)
      <4>1. \A h \in Nat : h >= 1 => ~(1 > h) /\ ~(1 > h + 1)
        OBVIOUS
      <4> QED
        BY <3>2, <4>1
    <3> QED
      BY <1>1, <3>1, <3>3 DEF NamedInv
  <2>4. Is("v2-test")' = Is("v2-test")
    BY <1>1 DEF Is
  <2> QED
    BY <1>1, <2>1, <2>2, <2>3, <2>4 DEF FirstInv
<1> QED
  BY <1>7, <1>8, <1>10, <1>11, <1>12, <1>13, <1>14 DEF Inv

LEMMA InitInv == ASSUME Init PROVE Inv
<1>1. /\ case \in Cases /\ jobs = <<>> /\ burn = 1 /\ stray = {}
      /\ receipt = [there |-> FALSE, job |-> NoJob, result |-> "none"]
      /\ phase = "idle" /\ mode = "run" /\ step = 0 /\ target = NoJob
      /\ output = [job |-> NoJob, result |-> "none"] /\ tx = NoTx
      /\ runs = 0 /\ told = NoJob
  BY DEF Init
<1>2. ChainInv
  BY <1>1 DEF ChainInv
<1>3. ProcessInv
  BY <1>1 DEF ProcessInv, ModeFits, Running, Results, NoJob
<1>4. WaitInv /\ FoundInv /\ PassedInv
  BY <1>1 DEF WaitInv, FoundInv, PassedInv, Running
<1>5. KnownInv /\ FirstInv
  BY <1>1 DEF KnownInv, FirstInv, OwnOrNone, Running
<1> QED
  BY <1>2, <1>3, <1>4, <1>5 DEF Inv

-----------------------------------------------------------------------------
(* The theorems *)

LEMMA NextInv == ASSUME Inv, [Next]_vars PROVE Inv'
<1>1. CASE Run
  BY <1>1, CheckInv, NoteInv, AwaitDeadlineInv, CompareDeadlineInv, SkipInv,
     BroadcastInv, NodeRefusesInv, ObserveInv, TimeOutInv, FinishInv DEF Run
<1>2. CASE Network \/ Strangers
  BY <1>2, MineInv, DropInv, MineStrayInv, StrangersInv DEF Network
<1>3. CASE Begin \/ Crash
  BY <1>3, BeginInv, CrashInv
<1>4. CASE UNCHANGED vars
  <2>1. UNCHANGED <<case, jobs, burn, stray, mode, phase, step, target, output,
                    receipt, told, runs, tx>>
    BY <1>4 DEF vars, chain, process, history
  <2>2. jobs' \in Seq(JobSet) /\ (\A k \in DOMAIN jobs' : JobInv(jobs'[k]))
        /\ Keeps /\ FundsOnly(NoJob)
    BY <2>1, InvFacts, NothingChanges
  <2>3. burn' \in Nat /\ stray' \subseteq stray /\ (runs = 0 => jobs' = <<>>)
    BY <2>1, InvFacts DEF ChainInv, FirstInv
  <2> QED
    BY <2>1, <2>2, <2>3, OtherMoves
<1> QED
  BY <1>1, <1>2, <1>3, <1>4 DEF Next

\* What a run and its file know about the job at every step.
THEOREM ScriptInvariant == Spec => []Inv
<1>1. Init => Inv
  BY InitInv
<1>2. Inv /\ [Next]_vars => Inv'
  BY NextInv
<1> QED
  BY <1>1, <1>2, PTL DEF Spec

\* A receipt that says "passed" names a job this case created, whose money was
\* paid once, to the party the scenario names, and none is left in escrow,
\* whatever blocks, strangers, lost and late transactions and crashes came in
\* between: for every list of cases, every number of runs and every window.
THEOREM PassedIsSettled == Spec => []PassedMeansSettled
<1>1. Inv => PassedMeansSettled
  <2> SUFFICES ASSUME Inv, receipt.result = "passed"
               PROVE  /\ receipt.job \in Ours
                      /\ PromisedEnd[1] = "submitted" \/
                            LET j == jobs[receipt.job]
                            IN  /\ <<j.status, j.final>> = PromisedEnd
                                /\ ~j.escrow /\ j.payments = 1
    BY DEF PassedMeansSettled
  <2>1. PaidAsPromised(receipt.job)
    BY InvFacts DEF PassedInv
  <2>2. PromisedEnd = <<PromisedEnd[1], PromisedEnd[2]>>
    BY DEF PromisedEnd
  <2> QED
    BY <2>1, <2>2 DEF PaidAsPromised
<1> QED
  BY <1>1, ScriptInvariant, PTL

\* A script that takes the job from the result of its own create-job never sends
\* a call for somebody else's, and a first run that stops anywhere leaves no
\* escrow full that its receipt does not name: for every list of cases and bound.
THEOREM RunsKeepToTheirJobs == Spec => []KeepsToItsJobs
<1>1. ASSUME Inv PROVE OnlyOwnJobs
  <2> SUFFICES ASSUME tx # NoTx, ~Sending.tolerant,
                      tx.fn \notin {"transfer", "create-job"}
               PROVE  tx.job \in Ours
    BY DEF OnlyOwnJobs
  <2>1. phase = "wait" /\ ~Is("v2-test")
    BY <1>1, InvFacts, Policies DEF ProcessInv
  <2>2. /\ Running /\ step \in 1..Len(Steps) /\ This = Steps[step] /\ Sends(This)
        /\ tx.fn = This.fn
    BY <1>1, <2>1, WaitFacts
  <2>3. tx.job = target
    BY <1>1, <2>1, InvFacts DEF WaitInv
  <2>4. step > HireAt
    <3>1. step <= HireAt => This.fn \in {"transfer", "create-job"}
      BY <1>1, <2>2, InvFacts, StepFacts
    <3> QED
      BY <1>1, <2>2, <3>1, InvFacts
  <2> QED
    BY <1>1, <2>1, <2>2, <2>3, <2>4, InvFacts DEF KnownInv
<1>2. ASSUME Inv PROVE FundedJobsAreNamed
  BY <1>2, InvFacts, Policies DEF FundedJobsAreNamed, FirstInv, NamedInv, Ours
<1>3. Inv => KeepsToItsJobs
  BY <1>1, <1>2 DEF KeepsToItsJobs
<1> QED
  BY <1>3, ScriptInvariant, PTL

-----------------------------------------------------------------------------
(* Deployments: the inductive invariant *)

Ops == [kind : {"deploy", "initialize", "token", "allow"},
        of : {"agents", "validation", "trait", "registry", "stx", "sbtc"}]
InMempool == Ops \cup {Other, Gap}
Early == {"rest", "mempool", "sources", "account"}
Late == {"nonce", "operation", "signed", "wait"}
Length == Len(Operations)

KnownDeployment ==
    deployment \in [script : DeploymentScripts, world : DeploymentWorlds]
DeploymentTypes ==
    /\ KnownDeployment
    /\ stage \in Early \cup Late
    /\ pending \in Seq(InMempool)
    /\ balance \in Int /\ nonce \in Nat /\ awaited \in Nat
    /\ maximum \in Nat /\ spent \in Nat
    /\ plan \subseteq ToSet(Operations)
    /\ meddled \in BOOLEAN
    /\ position \in 0..(Length + 1)
    /\ stage \in {"operation", "signed", "wait"} => position > 0
    /\ stage \in {"signed", "wait"} => position <= Length
    /\ stage = "signed" => IsScript("fee-test")
    /\ stage \in Early => spent = 0 /\ maximum = 0

\* A run that waits for a transaction that is pending knows where it is, and one that
\* has seen it succeed finds its work done.
WaitsForDue ==
    /\ awaited > 0 =>
        /\ stage = "wait" /\ outcome = "pending"
        /\ awaited \in DOMAIN pending /\ pending[awaited] = Due
    /\ stage = "wait" /\ outcome = "success" => ~IsMissing(Due)

\* What is not planned is there, and so is what has had its turn, but for a policy
\* that is another than the reviewed one.
PlanIsComplete ==
    Planning /\ stage \in {"account"} \cup Late =>
        \A op \in ToSet(Operations) :
            (IsScript("fee-test") \/ op.kind = "deploy") /\ op \notin plan => ~IsMissing(op)
IsSettled(op) ==
    ~IsMissing(op) \/ (~IsScript("fee-test") /\ World("policy") /\ op = Initialize("stx"))
DoneSoFar ==
    ~Tolerant /\ stage \in {"operation", "signed", "wait"} =>
        \A i \in 1..(position - 1) : IsSettled(Operations[i])

IsOurs(op) == op \notin {Other, Gap}
\* The moments at which nothing of this script is in the mempool.
Clean ==
    \/ stage \in {"nonce", "operation", "signed"}
    \/ IsScript("identity") /\ stage \in {"sources", "account"}
OursAreMissing ==
    \A n \in DOMAIN pending : IsOurs(pending[n]) => IsMissing(pending[n])
OneOfOurs ==
    \A m, n \in DOMAIN pending : IsOurs(pending[m]) /\ IsOurs(pending[n]) => m = n
NoneOfOurs ==
    \A n \in DOMAIN pending :
        IsOurs(pending[n]) => ~Clean /\ (stage = "wait" => n = awaited)
JournalIsTrue ==
    IsScript("fee-test") =>
        /\ \A n \in DOMAIN pending : IsOurs(pending[n]) => pending[n] \in journal
        /\ \A op \in plan \ journal : IsMissing(op)
SignedIsDue ==
    stage = "signed" => Due \in plan \cap journal /\ IsMissing(Due)

\* Nobody else has sent anything since the run began.
Undisturbed ==
    ~meddled =>
        \A n \in DOMAIN pending :
            /\ Clean => pending[n] = Gap
            /\ stage = "wait" /\ n # awaited => pending[n] = Gap
\* What a run may have paid once the operations of S have had their turn: the
\* deployments it planned, and every call that it may find missing.
Turns(k) == {Operations[i] : i \in 1..k}
PlannedDeploys(S) == {op \in S \cap plan : op.kind = "deploy"}
PaidCalls(S) == {op \in S : op.kind # "deploy" /\ (IsScript("fee-test") => op \in plan)}
Charge(S) == 10 * Cardinality(PlannedDeploys(S)) + Fees.call * Cardinality(PaidCalls(S))
FundsSuffice ==
    /\ stage \in Late => maximum = Maximum(plan)
    /\ stage = "nonce" => spent = 0
    /\ stage \in {"operation", "signed"} => spent <= Charge(Turns(position - 1))
    /\ stage = "wait" => spent <= Charge(Turns(position))
    /\ stage \in Late /\ ~meddled =>
        balance + spent >= maximum + (IF awaited > 0 THEN FeeOf(Due) ELSE 0)

RefusalInv ==
    RefusesPending =>
        /\ OursAreMissing /\ OneOfOurs /\ NoneOfOurs /\ JournalIsTrue /\ SignedIsDue
        /\ Undisturbed /\ FundsSuffice
PromotionInv ==
    /\ DeploymentTypes
    /\ WaitsForDue
    /\ PlanIsComplete
    /\ DoneSoFar
    /\ PassedMeansReady
    /\ RefusalInv

-----------------------------------------------------------------------------
(* Deployments: the operations of each script *)

NoPolicy == {op \in Ops : op.kind # "initialize"}

\* The operations are told apart by their kind.
LEMMA OperationKinds ==
    /\ \A c \in {"agents", "validation", "trait", "registry", "stx", "sbtc"} :
          /\ Deploy(c) \in NoPolicy /\ SetToken(c) \in NoPolicy /\ Allow(c) \in NoPolicy
          /\ Deploy(c) \in Ops /\ SetToken(c) \in Ops /\ Allow(c) \in Ops
          /\ Initialize(c) \in Ops /\ Initialize(c) \notin NoPolicy
    /\ Other \notin Ops /\ Gap \notin Ops /\ Other # Gap
BY DEF NoPolicy, Ops, Deploy, SetToken, Allow, Initialize, Other, Gap

\* What Deploys makes of a list of contracts.
LEMMA DeploysOf ==
    ASSUME NEW S, NEW s \in Seq(S), \A c \in S : Deploy(c) \in NoPolicy
    PROVE  /\ Deploys(s) \in Seq(NoPolicy) /\ Len(Deploys(s)) = Len(s)
           /\ \A i \in 1..Len(s) : Deploys(s)[i] = Deploy(s[i])
<1>1. Len(s) \in Nat /\ DOMAIN s = 1..Len(s) /\ \A i \in 1..Len(s) : s[i] \in S
  BY LenProperties, ElementOfSeq
<1>2. Deploys(s) = [i \in 1..Len(s) |-> Deploy(s[i])]
  BY <1>1 DEF Deploys
<1>3. Deploys(s) \in [1..Len(s) -> NoPolicy]
  BY <1>1, <1>2
<1> QED
  BY <1>1, <1>2, <1>3, SeqDef, LenProperties

\* A list without policies is a list of operations.
LEMMA Wider ==
    ASSUME NEW s \in Seq(NoPolicy)
    PROVE  s \in Seq(Ops)
BY SeqMonotonic DEF NoPolicy

\* A list of operations and up to four more, at the places m, m + 1...
LEMMA Joined ==
    ASSUME NEW s \in Seq(Ops), NEW t \in Seq(Ops)
    PROVE  /\ s \o t \in Seq(Ops) /\ Len(s \o t) = Len(s) + Len(t)
           /\ \A i \in 1..Len(s) : (s \o t)[i] = s[i]
           /\ Len(t) >= 1 => (s \o t)[Len(s) + 1] = t[1]
           /\ Len(t) >= 2 => (s \o t)[Len(s) + 2] = t[2]
<1>1. /\ s \o t \in Seq(Ops) /\ Len(s \o t) = Len(s) + Len(t)
      /\ \A i \in 1..(Len(s) + Len(t)) :
             (s \o t)[i] = IF i <= Len(s) THEN s[i] ELSE t[i - Len(s)]
      /\ Len(s) \in Nat /\ Len(t) \in Nat
  BY ConcatProperties, LenProperties
<1>2. \A i \in 1..Len(s) : (s \o t)[i] = s[i]
  BY <1>1
<1>3. ASSUME NEW k \in Nat, k >= 1, Len(t) >= k
      PROVE  (s \o t)[Len(s) + k] = t[k]
  <2>1. Len(s) + k \in 1..(Len(s) + Len(t)) /\ ~ (Len(s) + k <= Len(s))
        /\ Len(s) + k - Len(s) = k
    BY <1>1, <1>3
  <2> QED
    BY <1>1, <2>1
<1> QED
  BY <1>1, <1>2, <1>3

\* The contracts of an escrow.
FourContracts == <<"trait", "registry", "stx", "sbtc">>
\* Their four deployments, one by one.
LEMMA FourDeploys ==
    LET s == Deploys(FourContracts)
    IN  /\ s \in Seq(NoPolicy) /\ Len(s) = 4
        /\ s[1] = Deploy("trait") /\ s[2] = Deploy("registry")
        /\ s[3] = Deploy("stx") /\ s[4] = Deploy("sbtc")
<1> DEFINE S == {"agents", "validation", "trait", "registry", "stx", "sbtc"}
<1>1. /\ FourContracts \in Seq(S) /\ Len(FourContracts) = 4
      /\ FourContracts[1] = "trait" /\ FourContracts[2] = "registry"
      /\ FourContracts[3] = "stx" /\ FourContracts[4] = "sbtc"
  BY DEF FourContracts
<1>2. \A c \in S : Deploy(c) \in NoPolicy
  BY OperationKinds
<1> HIDE DEF S
<1> QED
  BY <1>1, <1>2, DeploysOf

\* The nine operations of deploy-autonomous-escrow-mainnet.mjs, in their order.
LEMMA AutoMainList ==
    LET s == AutoMainSends
    IN  /\ s \in Seq(Ops) /\ Len(s) = 9
        /\ s[1] = Deploy("trait") /\ s[2] = Deploy("registry")
        /\ s[3] = Deploy("stx") /\ s[4] = Deploy("sbtc")
        /\ s[5] = Initialize("stx") /\ s[6] = Initialize("sbtc")
        /\ s[7] = SetToken("sbtc") /\ s[8] = Allow("stx") /\ s[9] = Allow("sbtc")
<1> DEFINE a == AutoMainDeploys
           b == AutoMainInitializing
           c == AutoMainToken
           d == AutoMainAllowing
<1>1. /\ a \in Seq(Ops) /\ Len(a) = 4
      /\ a[1] = Deploy("trait") /\ a[2] = Deploy("registry")
      /\ a[3] = Deploy("stx") /\ a[4] = Deploy("sbtc")
  BY FourDeploys, Wider DEF AutoMainDeploys, FourContracts
<1>2. /\ b \in Seq(Ops) /\ Len(b) = 2 /\ b[1] = Initialize("stx") /\ b[2] = Initialize("sbtc")
      /\ c \in Seq(Ops) /\ Len(c) = 1 /\ c[1] = SetToken("sbtc")
      /\ d \in Seq(Ops) /\ Len(d) = 2 /\ d[1] = Allow("stx") /\ d[2] = Allow("sbtc")
  BY OperationKinds DEF AutoMainInitializing, AutoMainToken, AutoMainAllowing
<1> HIDE DEF a, b, c, d
<1> DEFINE e == a \o b
           f == e \o c
           g == f \o d
<1>3. /\ e \in Seq(Ops) /\ Len(e) = 6 /\ \A i \in 1..4 : e[i] = a[i]
      /\ e[5] = b[1] /\ e[6] = b[2]
  <2>1. /\ e \in Seq(Ops) /\ Len(e) = Len(a) + Len(b)
        /\ \A i \in 1..Len(a) : e[i] = a[i]
        /\ Len(b) >= 1 => e[Len(a) + 1] = b[1]
        /\ Len(b) >= 2 => e[Len(a) + 2] = b[2]
    BY <1>1, <1>2, Joined
  <2> QED
    BY <1>1, <1>2, <2>1
<1> HIDE DEF e
<1>4. /\ f \in Seq(Ops) /\ Len(f) = 7 /\ \A i \in 1..6 : f[i] = e[i]
      /\ f[7] = c[1]
  <2>1. /\ f \in Seq(Ops) /\ Len(f) = Len(e) + Len(c)
        /\ \A i \in 1..Len(e) : f[i] = e[i]
        /\ Len(c) >= 1 => f[Len(e) + 1] = c[1]
    BY <1>2, <1>3, Joined
  <2> QED
    BY <1>2, <1>3, <2>1
<1> HIDE DEF f
<1>5. /\ g \in Seq(Ops) /\ Len(g) = 9 /\ \A i \in 1..7 : g[i] = f[i]
      /\ g[8] = d[1] /\ g[9] = d[2]
  <2>1. /\ g \in Seq(Ops) /\ Len(g) = Len(f) + Len(d)
        /\ \A i \in 1..Len(f) : g[i] = f[i]
        /\ Len(d) >= 1 => g[Len(f) + 1] = d[1]
        /\ Len(d) >= 2 => g[Len(f) + 2] = d[2]
    BY <1>2, <1>4, Joined
  <2> QED
    BY <1>2, <1>4, <2>1
<1>6. g = AutoMainSends
  BY DEF AutoMainSends, a, b, c, d, e, f
<1> HIDE DEF g
<1> QED
  BY <1>1, <1>2, <1>3, <1>4, <1>5, <1>6

\* The seven of deploy-versioned-escrow-mainnet.mjs.
LEMMA VerMainList ==
    LET s == VerMainSends
    IN  /\ s \in Seq(Ops) /\ Len(s) = 7
        /\ s[1] = Deploy("trait") /\ s[2] = Deploy("registry")
        /\ s[3] = Deploy("stx") /\ s[4] = Deploy("sbtc")
        /\ s[5] = SetToken("sbtc") /\ s[6] = Allow("stx") /\ s[7] = Allow("sbtc")
<1> DEFINE a == VerMainDeploys
           b == VerMainToken
           c == VerMainAllowing
<1>1. /\ a \in Seq(Ops) /\ Len(a) = 4
      /\ a[1] = Deploy("trait") /\ a[2] = Deploy("registry")
      /\ a[3] = Deploy("stx") /\ a[4] = Deploy("sbtc")
  BY FourDeploys, Wider DEF VerMainDeploys, FourContracts
<1>2. /\ b \in Seq(Ops) /\ Len(b) = 1 /\ b[1] = SetToken("sbtc")
      /\ c \in Seq(Ops) /\ Len(c) = 2 /\ c[1] = Allow("stx") /\ c[2] = Allow("sbtc")
  BY OperationKinds DEF VerMainToken, VerMainAllowing
<1> HIDE DEF a, b, c
<1> DEFINE e == a \o b
           f == e \o c
<1>3. /\ e \in Seq(Ops) /\ Len(e) = 5 /\ \A i \in 1..4 : e[i] = a[i]
      /\ e[5] = b[1]
  <2>1. /\ e \in Seq(Ops) /\ Len(e) = Len(a) + Len(b)
        /\ \A i \in 1..Len(a) : e[i] = a[i]
        /\ Len(b) >= 1 => e[Len(a) + 1] = b[1]
    BY <1>1, <1>2, Joined
  <2> QED
    BY <1>1, <1>2, <2>1
<1> HIDE DEF e
<1>4. /\ f \in Seq(Ops) /\ Len(f) = 7 /\ \A i \in 1..5 : f[i] = e[i]
      /\ f[6] = c[1] /\ f[7] = c[2]
  <2>1. /\ f \in Seq(Ops) /\ Len(f) = Len(e) + Len(c)
        /\ \A i \in 1..Len(e) : f[i] = e[i]
        /\ Len(c) >= 1 => f[Len(e) + 1] = c[1]
        /\ Len(c) >= 2 => f[Len(e) + 2] = c[2]
    BY <1>2, <1>3, Joined
  <2> QED
    BY <1>2, <1>3, <2>1
<1>5. f = VerMainSends
  BY DEF VerMainSends, a, b, c, e, f
<1> HIDE DEF f
<1> QED
  BY <1>1, <1>2, <1>3, <1>4, <1>5

\* The two of deploy-qa-identity-testnet.mjs.
LEMMA IdentityList ==
    LET s == IdentitySends
    IN  /\ s \in Seq(NoPolicy) /\ Len(s) = 2
        /\ s[1] = Deploy("agents") /\ s[2] = Deploy("validation")
<1> DEFINE S == {"agents", "validation", "trait", "registry", "stx", "sbtc"}
           s == <<"agents", "validation">>
<1>1. s \in Seq(S) /\ Len(s) = 2 /\ s[1] = "agents" /\ s[2] = "validation"
  OBVIOUS
<1>2. \A c \in S : Deploy(c) \in NoPolicy
  BY OperationKinds
<1>3. IdentitySends = Deploys(s)
  BY DEF IdentitySends
<1> HIDE DEF S, s
<1> QED
  BY <1>1, <1>2, <1>3, DeploysOf

\* The seven of deploy-service-fee-testnet.mjs.
LEMMA FeeTestList ==
    LET s == FeeTestSends
    IN  /\ s \in Seq(Ops) /\ Len(s) = 7
        /\ s[1] = Deploy("stx") /\ s[2] = Initialize("stx") /\ s[3] = Allow("stx")
        /\ s[4] = Deploy("sbtc") /\ s[5] = Initialize("sbtc")
        /\ s[6] = SetToken("sbtc") /\ s[7] = Allow("sbtc")
BY OperationKinds DEF FeeTestSends

\* The other scripts.
LEMMA OtherLists ==
    /\ AutoTestSends \in Seq(Ops) /\ TestnetSends \in Seq(Ops)
    /\ VerMainSends \in Seq(NoPolicy) /\ VerTestSends \in Seq(NoPolicy)
    /\ CurrentSends \in Seq(NoPolicy) /\ StxV2Sends \in Seq(NoPolicy)
<1> DEFINE S == {"agents", "validation", "trait", "registry", "stx", "sbtc"}
<1>1. \A s \in Seq(S) : Deploys(s) \in Seq(NoPolicy)
  BY DeploysOf, OperationKinds
<1>2. /\ <<"trait", "registry", "stx", "sbtc">> \in Seq(S)
      /\ <<"agents", "validation", "trait", "registry", "stx", "sbtc">> \in Seq(S)
      /\ <<"agents", "registry", "validation">> \in Seq(S)
  OBVIOUS
<1> HIDE DEF S
<1>3. /\ <<SetToken("sbtc")>> \in Seq(NoPolicy)
      /\ <<Allow("stx"), Allow("sbtc")>> \in Seq(NoPolicy)
      /\ <<Deploy("stx")>> \in Seq(NoPolicy) /\ <<Allow("stx")>> \in Seq(NoPolicy)
      /\ <<Deploy("stx"), Allow("stx")>> \in Seq(NoPolicy)
      /\ <<Initialize("stx"), Initialize("sbtc")>> \in Seq(Ops)
  BY OperationKinds
<1>4. \A a, b \in Seq(NoPolicy) : a \o b \in Seq(NoPolicy)
  BY ConcatProperties
<1>5. \A a, b \in Seq(Ops) : a \o b \in Seq(Ops)
  BY ConcatProperties
<1>6. \A a \in Seq(NoPolicy) : a \in Seq(Ops)
  BY Wider
<1>7. VerMainSends \in Seq(NoPolicy)
  BY <1>1, <1>2, <1>3, <1>4 DEF VerMainSends, VerMainDeploys, VerMainToken, VerMainAllowing
<1>8. VerTestSends \in Seq(NoPolicy)
  BY <1>1, <1>2, <1>3, <1>4 DEF VerTestSends, VerTestDeploys, VerTestToken, VerTestAllowing
<1>9. CurrentSends \in Seq(NoPolicy)
  BY <1>1, <1>2, <1>3, <1>4 DEF CurrentSends, CurrentDeploys, CurrentToken, CurrentAllowing
<1>10. StxV2Sends \in Seq(NoPolicy)
  BY <1>3 DEF StxV2Sends
<1>11. TestnetSends \in Seq(Ops)
  <2>1. TestnetSends \in Seq(NoPolicy)
    BY <1>1, <1>2, <1>3, <1>4
    DEF TestnetSends, TestnetDeploys, TestnetCommerce, TestnetAllowing
  <2> QED
    BY <1>6, <2>1
<1>12. AutoTestSends \in Seq(Ops)
  BY <1>1, <1>2, <1>3, <1>5, <1>6
  DEF AutoTestSends, AutoTestDeploys, AutoTestInitializing, AutoTestToken, AutoTestAllowing
<1> QED
  BY <1>7, <1>8, <1>9, <1>10, <1>11, <1>12

-----------------------------------------------------------------------------
(* Deployments: the operations of a case *)

\* The list of each script.
LEMMA OperationsOf ==
    /\ IsScript("auto-main") => Operations = AutoMainSends
    /\ IsScript("auto-test") => Operations = AutoTestSends
    /\ IsScript("ver-main") => Operations = VerMainSends
    /\ IsScript("ver-test") => Operations = VerTestSends
    /\ IsScript("current") => Operations = CurrentSends
    /\ IsScript("identity") => Operations = IdentitySends
    /\ IsScript("stx-v2") => Operations = StxV2Sends
    /\ IsScript("testnet") => Operations = TestnetSends
    /\ IsScript("fee-test") => Operations = FeeTestSends
BY DEF Operations, IsScript

\* A deployment is one of the nine scripts.
LEMMA SomeScript ==
    ASSUME KnownDeployment
    PROVE  \/ IsScript("auto-main") \/ IsScript("auto-test") \/ IsScript("ver-main")
           \/ IsScript("ver-test") \/ IsScript("current") \/ IsScript("identity")
           \/ IsScript("stx-v2") \/ IsScript("testnet") \/ IsScript("fee-test")
BY DEF KnownDeployment, IsScript, DeploymentScripts

\* The list of a deployment is a finite sequence of operations.
LEMMA OperationsAreOps ==
    ASSUME KnownDeployment
    PROVE  /\ Operations \in Seq(Ops) /\ Length \in Nat /\ DOMAIN Operations = 1..Length
           /\ \A i \in 1..Length : Operations[i] \in Ops
           /\ ToSet(Operations) = {Operations[i] : i \in 1..Length}
<1>1. Operations \in Seq(Ops)
  BY SomeScript, OperationsOf, AutoMainList, OtherLists, IdentityList, FeeTestList, Wider
<1>2. Length \in Nat /\ DOMAIN Operations = 1..Length
      /\ \A i \in 1..Length : Operations[i] \in Ops
  BY <1>1, LenProperties, ElementOfSeq DEF Length
<1> QED
  BY <1>1, <1>2 DEF ToSet

\* The policy of an escrow is set by three scripts only.
LEMMA PolicyOperations ==
    ASSUME KnownDeployment, Initialize("stx") \in ToSet(Operations)
    PROVE  IsScript("auto-main") \/ IsScript("auto-test") \/ IsScript("testnet")
           \/ IsScript("fee-test")
<1>1. Initialize("stx") \notin NoPolicy
  BY OperationKinds
<1>2. ASSUME Operations \in Seq(NoPolicy) PROVE FALSE
  BY <1>1, <1>2, OperationsAreOps, ElementOfSeq DEF Length
<1> QED
  BY <1>2, SomeScript, OperationsOf, OtherLists, IdentityList

\* A script that minds the mempool sends no operation at two places.
LEMMA OperationsDiffer ==
    ASSUME KnownDeployment, RefusesPending,
           NEW i \in 1..Length, NEW j \in 1..Length, Operations[i] = Operations[j]
    PROVE  i = j
<1>1. CASE IsScript("auto-main")
  <2>1. Length = 9
    BY <1>1, OperationsOf, AutoMainList DEF Length
  <2>2. i \in {1, 2, 3, 4, 5, 6, 7, 8, 9} /\ j \in {1, 2, 3, 4, 5, 6, 7, 8, 9}
    BY <2>1
  <2> QED
    BY <1>1, <2>2, OperationsOf, AutoMainList DEF Deploy, Initialize, SetToken, Allow
<1>2. CASE IsScript("ver-main")
  <2>1. Length = 7
    BY <1>2, OperationsOf, VerMainList DEF Length
  <2>2. i \in {1, 2, 3, 4, 5, 6, 7} /\ j \in {1, 2, 3, 4, 5, 6, 7}
    BY <2>1
  <2> QED
    BY <1>2, <2>2, OperationsOf, VerMainList DEF Deploy, Initialize, SetToken, Allow
<1>3. CASE IsScript("identity")
  <2>1. Length = 2
    BY <1>3, OperationsOf, IdentityList DEF Length
  <2>2. i \in {1, 2} /\ j \in {1, 2}
    BY <2>1
  <2> QED
    BY <1>3, <2>2, OperationsOf, IdentityList DEF Deploy, Initialize, SetToken, Allow
<1>4. CASE IsScript("fee-test")
  <2>1. Length = 7
    BY <1>4, OperationsOf, FeeTestList DEF Length
  <2>2. i \in {1, 2, 3, 4, 5, 6, 7} /\ j \in {1, 2, 3, 4, 5, 6, 7}
    BY <2>1
  <2> QED
    BY <1>4, <2>2, OperationsOf, FeeTestList DEF Deploy, Initialize, SetToken, Allow
<1> QED
  BY <1>1, <1>2, <1>3, <1>4 DEF RefusesPending, IsScript

-----------------------------------------------------------------------------
(* Deployments: fees *)

\* What has had its turn grows by one operation at every place, and is finite.
LEMMA TurnsAre ==
    ASSUME KnownDeployment
    PROVE  /\ IsFiniteSet(ToSet(Operations)) /\ Turns(0) = {}
           /\ \A k \in 0..Length :
                 Turns(k) \subseteq ToSet(Operations) /\ IsFiniteSet(Turns(k))
           /\ \A k \in 1..Length :
                 /\ Turns(k) = Turns(k - 1) \cup {Operations[k]}
                 /\ RefusesPending => Operations[k] \notin Turns(k - 1)
<1> DEFINE f == [i \in 1..Length |-> Operations[i]]
<1>1. f \in Surjection(1..Length, ToSet(Operations))
  BY OperationsAreOps DEF Surjection
<1>2. IsFiniteSet(ToSet(Operations))
  BY <1>1, FS_Surjection, FS_Interval, OperationsAreOps
<1>3. \A k \in 0..Length : Turns(k) \subseteq ToSet(Operations)
  BY OperationsAreOps DEF Turns
<1>4. \A k \in 0..Length : IsFiniteSet(Turns(k))
  BY <1>2, <1>3, FS_Subset
<1>5. \A k \in 1..Length : 1..k = (1..(k - 1)) \cup {k}
  BY OperationsAreOps
<1>6. \A k \in 1..Length : Turns(k) = Turns(k - 1) \cup {Operations[k]}
  BY <1>5 DEF Turns
<1>7. ASSUME NEW k \in 1..Length, RefusesPending, Operations[k] \in Turns(k - 1)
      PROVE  FALSE
  <2>1. PICK i \in 1..(k - 1) : Operations[i] = Operations[k]
    BY <1>7 DEF Turns
  <2>2. i \in 1..Length /\ i # k
    BY OperationsAreOps
  <2> QED
    BY <1>7, <2>1, <2>2, OperationsDiffer
<1> QED
  BY <1>2, <1>3, <1>4, <1>6, <1>7 DEF Turns

\* The fees of the scripts that review them against a pending mempool.
LEMMA FeesAre ==
    ASSUME KnownDeployment, RefusesPending, NEW op \in Ops
    PROVE  /\ Fees.call \in Nat
           /\ FeeOf(op) = IF op.kind = "deploy" THEN 10 ELSE Fees.call
           /\ FeeOf(op) \in Nat
<1>1. op.kind # "other"
  BY DEF Ops
<1>2. Fees.deploy = 10 /\ Fees.call \in Nat
  BY DEF RefusesPending, Fees, IsScript, AutoMainFees, VerMainFees, IdentityFees, FeeTestFees
<1> QED
  BY <1>1, <1>2 DEF FeeOf

\* A charge is a number.
LEMMA ChargeIs ==
    ASSUME KnownDeployment, RefusesPending, NEW S, IsFiniteSet(S)
    PROVE  /\ IsFiniteSet(PlannedDeploys(S)) /\ IsFiniteSet(PaidCalls(S))
           /\ Charge(S) \in Nat
           /\ Cardinality(PlannedDeploys(S)) \in Nat /\ Cardinality(PaidCalls(S)) \in Nat
<1>1. IsFiniteSet(PlannedDeploys(S)) /\ IsFiniteSet(PaidCalls(S))
  BY FS_Subset DEF PlannedDeploys, PaidCalls
<1>2. Fees.call \in Nat
  BY DEF RefusesPending, Fees, IsScript, AutoMainFees, VerMainFees, IdentityFees, FeeTestFees
<1> QED
  BY <1>1, <1>2, FS_CardinalityType DEF Charge

\* One more operation is charged its fee when it is planned, and nothing otherwise.
LEMMA ChargeGrows ==
    ASSUME KnownDeployment, RefusesPending, NEW S, IsFiniteSet(S), NEW op \in Ops, op \notin S
    PROVE  /\ Charge(S) <= Charge(S \cup {op})
           /\ op \in plan \/ (~IsScript("fee-test") /\ op.kind # "deploy") =>
                  Charge(S \cup {op}) = Charge(S) + FeeOf(op)
<1> DEFINE T == S \cup {op}
<1>1. IsFiniteSet(T)
  BY FS_AddElement
<1>2. /\ Charge(S) \in Nat /\ Charge(T) \in Nat
      /\ Cardinality(PlannedDeploys(S)) \in Nat /\ Cardinality(PaidCalls(S)) \in Nat
      /\ Cardinality(PlannedDeploys(T)) \in Nat /\ Cardinality(PaidCalls(T)) \in Nat
      /\ IsFiniteSet(PlannedDeploys(S)) /\ IsFiniteSet(PaidCalls(S))
  BY <1>1, ChargeIs
<1>3. Fees.call \in Nat /\ FeeOf(op) = IF op.kind = "deploy" THEN 10 ELSE Fees.call
  BY FeesAre
<1>4. CASE op.kind = "deploy"
  <2>1. PaidCalls(T) = PaidCalls(S)
    BY <1>4 DEF PaidCalls
  <2>2. CASE op \in plan
    <3>1. PlannedDeploys(T) = PlannedDeploys(S) \cup {op} /\ op \notin PlannedDeploys(S)
      BY <1>4, <2>2 DEF PlannedDeploys
    <3>2. Cardinality(PlannedDeploys(T)) = Cardinality(PlannedDeploys(S)) + 1
      BY <1>2, <3>1, FS_AddElement
    <3> HIDE DEF T
    <3> QED
      BY <1>2, <1>3, <1>4, <2>1, <3>2 DEF Charge, T
  <2>3. CASE op \notin plan
    <3>1. PlannedDeploys(T) = PlannedDeploys(S)
      BY <2>3 DEF PlannedDeploys
    <3> QED
      BY <1>2, <1>4, <2>1, <2>3, <3>1 DEF Charge
  <2> QED
    BY <2>2, <2>3
<1>5. CASE op.kind # "deploy"
  <2>1. PlannedDeploys(T) = PlannedDeploys(S)
    BY <1>5 DEF PlannedDeploys
  <2>2. CASE IsScript("fee-test") => op \in plan
    <3>1. PaidCalls(T) = PaidCalls(S) \cup {op} /\ op \notin PaidCalls(S)
      BY <1>5, <2>2 DEF PaidCalls
    <3>2. Cardinality(PaidCalls(T)) = Cardinality(PaidCalls(S)) + 1
      BY <1>2, <3>1, FS_AddElement
    <3>3. Fees.call * (Cardinality(PaidCalls(S)) + 1)
              = Fees.call * Cardinality(PaidCalls(S)) + Fees.call
      BY <1>2, <1>3
    <3> HIDE DEF T
    <3>4. Charge(T) = Charge(S) + Fees.call
      BY <1>2, <1>3, <2>1, <3>2, <3>3 DEF Charge
    <3> QED
      BY <1>2, <1>3, <1>5, <3>4 DEF T
  <2>3. CASE ~ (IsScript("fee-test") => op \in plan)
    <3>1. PaidCalls(T) = PaidCalls(S)
      BY <2>3 DEF PaidCalls
    <3> QED
      BY <1>2, <2>1, <2>3, <3>1 DEF Charge
  <2> QED
    BY <2>2, <2>3
<1> QED
  BY <1>4, <1>5

\* One more element is at most one more.
LEMMA OneMore ==
    ASSUME NEW S, IsFiniteSet(S), NEW x
    PROVE  /\ IsFiniteSet(S \cup {x})
           /\ Cardinality(S) \in Nat /\ Cardinality(S \cup {x}) \in Nat
           /\ Cardinality(S \cup {x}) <= Cardinality(S) + 1
<1>1. IsFiniteSet(S \cup {x}) /\ Cardinality(S \cup {x}) =
          IF x \in S THEN Cardinality(S) ELSE Cardinality(S) + 1
  BY FS_AddElement
<1>2. Cardinality(S) \in Nat /\ Cardinality(S \cup {x}) \in Nat
  BY <1>1, FS_CardinalityType
<1> QED
  BY <1>1, <1>2

\* A set listed with three or five elements has no more than that.
LEMMA FewCalls ==
    ASSUME NEW a, NEW b, NEW c, NEW d, NEW e
    PROVE  /\ IsFiniteSet({a, b, c}) /\ Cardinality({a, b, c}) <= 3
           /\ IsFiniteSet({a, b, c, d, e}) /\ Cardinality({a, b, c, d, e}) <= 5
<1> DEFINE A == {a}
           B == A \cup {b}
           C == B \cup {c}
           D == C \cup {d}
           E == D \cup {e}
<1>1. IsFiniteSet(A) /\ Cardinality(A) = 1
  BY FS_Singleton
<1>2. C = {a, b, c} /\ E = {a, b, c, d, e}
  OBVIOUS
<1> HIDE DEF A
<1>3. IsFiniteSet(B) /\ Cardinality(B) \in Nat /\ Cardinality(B) <= Cardinality(A) + 1
  BY <1>1, OneMore
<1> HIDE DEF B
<1>4. IsFiniteSet(C) /\ Cardinality(C) \in Nat /\ Cardinality(C) <= Cardinality(B) + 1
  BY <1>3, OneMore
<1> HIDE DEF C
<1>5. IsFiniteSet(D) /\ Cardinality(D) \in Nat /\ Cardinality(D) <= Cardinality(C) + 1
  BY <1>4, OneMore
<1> HIDE DEF D
<1>6. IsFiniteSet(E) /\ Cardinality(E) \in Nat /\ Cardinality(E) <= Cardinality(D) + 1
  BY <1>5, OneMore
<1> HIDE DEF E
<1>7. Cardinality(C) <= 3 /\ Cardinality(E) <= 5
  BY <1>1, <1>3, <1>4, <1>5, <1>6
<1> QED
  BY <1>2, <1>4, <1>6, <1>7

\* What is left for any of its operations was reviewed.
LEMMA ChargeIsReviewed ==
    ASSUME KnownDeployment, RefusesPending, plan \subseteq ToSet(Operations),
           NEW S, S \subseteq ToSet(Operations)
    PROVE  Charge(S) <= Maximum(plan) /\ Maximum(plan) \in Nat
<1> DEFINE D == {op \in plan : op.kind = "deploy"}
           C == PaidCalls(S)
<1>1. IsFiniteSet(S) /\ IsFiniteSet(plan)
  BY TurnsAre, FS_Subset
<1>2. IsFiniteSet(D) /\ Cardinality(D) \in Nat
  BY <1>1, FS_Subset, FS_CardinalityType
<1>3. Cardinality(PlannedDeploys(S)) <= Cardinality(D)
  BY <1>2, FS_Subset DEF PlannedDeploys
<1>4. Cardinality(PlannedDeploys(S)) \in Nat /\ Cardinality(C) \in Nat /\ IsFiniteSet(C)
  BY <1>1, ChargeIs
<1>5. \A op \in C : op \in ToSet(Operations) /\ op.kind # "deploy"
  BY DEF PaidCalls
<1> HIDE DEF D
<1>6. CASE IsScript("auto-main")
  <2>1. C \subseteq {Initialize("stx"), Initialize("sbtc"), SetToken("sbtc"), Allow("stx"),
                     Allow("sbtc")}
    <3>1. Length = 9
      BY <1>6, OperationsOf, AutoMainList DEF Length
    <3>2. ASSUME NEW op \in C
          PROVE  op \in {Initialize("stx"), Initialize("sbtc"), SetToken("sbtc"),
                         Allow("stx"), Allow("sbtc")}
      <4>1. PICK i \in 1..9 : op = Operations[i]
        BY <1>5, <3>1, <3>2, OperationsAreOps
      <4>2. i \in {1, 2, 3, 4, 5, 6, 7, 8, 9}
        OBVIOUS
      <4> QED
        BY <1>5, <1>6, <3>2, <4>1, <4>2, OperationsOf, AutoMainList DEF Deploy
    <3> QED
      BY <3>2
  <2>2. Cardinality(C) <= 5
    <3> DEFINE F == {Initialize("stx"), Initialize("sbtc"), SetToken("sbtc"), Allow("stx"),
                      Allow("sbtc")}
    <3>1. IsFiniteSet(F) /\ Cardinality(F) <= 5
      BY FewCalls
    <3>2. C \in SUBSET F
      BY <2>1
    <3> HIDE DEF F, C
    <3>3. Cardinality(C) <= Cardinality(F) /\ Cardinality(F) \in Nat
      BY <3>1, <3>2, FS_Subset, FS_CardinalityType
    <3> QED
      BY <1>4, <3>1, <3>3 DEF C
  <2>3. Maximum(plan) = 10 * Cardinality(D) + 2 * 5 /\ Fees.call = 2
    BY <1>6 DEF Maximum, AutoMainMaximum, Fees, AutoMainFees, IsScript, D
  <2> HIDE DEF C
  <2> QED
    BY <1>2, <1>3, <1>4, <2>2, <2>3 DEF Charge, C
<1>7. CASE IsScript("ver-main")
  <2>1. C \subseteq {SetToken("sbtc"), Allow("stx"), Allow("sbtc")}
    <3>1. Length = 7
      BY <1>7, OperationsOf, VerMainList DEF Length
    <3>2. ASSUME NEW op \in C
          PROVE  op \in {SetToken("sbtc"), Allow("stx"), Allow("sbtc")}
      <4>1. PICK i \in 1..7 : op = Operations[i]
        BY <1>5, <3>1, <3>2, OperationsAreOps
      <4>2. i \in {1, 2, 3, 4, 5, 6, 7}
        OBVIOUS
      <4> QED
        BY <1>5, <1>7, <3>2, <4>1, <4>2, OperationsOf, VerMainList DEF Deploy
    <3> QED
      BY <3>2
  <2>2. Cardinality(C) <= 3
    <3> DEFINE F == {SetToken("sbtc"), Allow("stx"), Allow("sbtc")}
    <3>1. IsFiniteSet(F) /\ Cardinality(F) <= 3
      BY FewCalls
    <3>2. C \in SUBSET F
      BY <2>1
    <3> HIDE DEF F, C
    <3>3. Cardinality(C) <= Cardinality(F) /\ Cardinality(F) \in Nat
      BY <3>1, <3>2, FS_Subset, FS_CardinalityType
    <3> QED
      BY <1>4, <3>1, <3>3 DEF C
  <2>3. Maximum(plan) = 10 * Cardinality(D) + 2 * 3 /\ Fees.call = 2
    BY <1>7 DEF Maximum, VerMainMaximum, Fees, VerMainFees, IsScript, D
  <2> HIDE DEF C
  <2> QED
    BY <1>2, <1>3, <1>4, <2>2, <2>3 DEF Charge, C
<1>8. CASE IsScript("identity")
  <2>1. C = {}
    <3>1. Length = 2
      BY <1>8, OperationsOf, IdentityList DEF Length
    <3>2. ASSUME NEW op \in C PROVE FALSE
      <4>1. PICK i \in 1..2 : op = Operations[i]
        BY <1>5, <3>1, <3>2, OperationsAreOps
      <4>2. i \in {1, 2}
        OBVIOUS
      <4> QED
        BY <1>5, <1>8, <3>2, <4>1, <4>2, OperationsOf, IdentityList DEF Deploy
    <3> QED
      BY <3>2
  <2>2. Cardinality(C) = 0
    BY <2>1, FS_EmptySet
  <2>3. Maximum(plan) = 10 * Cardinality(D) + 5 /\ Fees.call = 2
    BY <1>8 DEF Maximum, IdentityMaximum, Fees, IdentityFees, IsScript, D
  <2> HIDE DEF C
  <2> QED
    BY <1>2, <1>3, <1>4, <2>2, <2>3 DEF Charge, C
<1>9. CASE IsScript("fee-test")
  <2> DEFINE P == {op \in plan : op.kind # "deploy"}
  <2>1. IsFiniteSet(P) /\ C \subseteq P
    BY <1>1, <1>9, FS_Subset DEF PaidCalls
  <2>2. Cardinality(C) <= Cardinality(P) /\ Cardinality(P) \in Nat
    BY <2>1, FS_Subset, FS_CardinalityType
  <2>3. Maximum(plan) = 10 * Cardinality(D) + Cardinality(P) + 5 /\ Fees.call = 1
    BY <1>9 DEF Maximum, FeeTestMaximum, Fees, FeeTestFees, IsScript, D
  <2> HIDE DEF C, P
  <2> QED
    BY <1>2, <1>3, <1>4, <2>2, <2>3 DEF Charge, C
<1> QED
  BY <1>6, <1>7, <1>8, <1>9 DEF RefusesPending, IsScript

-----------------------------------------------------------------------------
(* Deployments: every step keeps the invariant *)

\* What depends on the script alone does not change while the script is the same.
LEMMA SameDeployment ==
    ASSUME deployment' = deployment
    PROVE  /\ Operations' = Operations /\ Length' = Length /\ Fees' = Fees
           /\ ToSet(Operations)' = ToSet(Operations)
           /\ RefusesPending' <=> RefusesPending
           /\ Tolerant' <=> Tolerant
           /\ Planning' <=> Planning
           /\ KnownDeployment' <=> KnownDeployment
           /\ \A op : FeeOf(op)' = FeeOf(op)
           /\ \A k : Turns(k)' = Turns(k)
<1>1. Operations' = Operations
  BY DEF Operations, IsScript
<1>2. Fees' = Fees
  BY DEF Fees, IsScript
<1>3. RefusesPending' <=> RefusesPending
  BY DEF RefusesPending
<1>4. (Tolerant' <=> Tolerant) /\ (Planning' <=> Planning)
  BY DEF Tolerant, Planning, IsScript
<1>5. KnownDeployment' <=> KnownDeployment
  BY DEF KnownDeployment
<1> QED
  BY <1>1, <1>2, <1>3, <1>4, <1>5 DEF Length, FeeOf, Turns

\* Nor do the charges while the plan is the same.
LEMMA SamePlan ==
    ASSUME deployment' = deployment, plan' = plan
    PROVE  /\ Maximum(plan)' = Maximum(plan)
           /\ \A S : Charge(S)' = Charge(S)
<1>1. Maximum(plan)' = Maximum(plan)
  BY DEF Maximum, FeeTestMaximum, IsScript
<1>2. \A S : PlannedDeploys(S)' = PlannedDeploys(S)
  BY DEF PlannedDeploys
<1>3. \A S : PaidCalls(S)' = PaidCalls(S)
  BY DEF PaidCalls, IsScript
<1> QED
  BY <1>1, <1>2, <1>3, SameDeployment DEF Charge

\* The mempool is a finite sequence of operations, other transactions and gaps.
LEMMA MempoolIs ==
    ASSUME DeploymentTypes
    PROVE  /\ Len(pending) \in Nat /\ DOMAIN pending = 1..Len(pending)
           /\ \A n \in 1..Len(pending) : pending[n] \in InMempool
BY LenProperties, ElementOfSeq DEF DeploymentTypes

\* A run that stops leaves nothing of itself but what is on the chain and in the
\* mempool; one that says "passed" must have left everything in place.
LEMMA StopStays ==
    ASSUME PromotionInv, NEW how, Stop(how),
           UNCHANGED <<deployment, deployed, configured, pending, balance, journal, meddled>>,
           how = "passed" /\ ~Tolerant => \A op \in ToSet(Operations) : ~IsMissing(op)
    PROVE  PromotionInv'
<1> USE DEF Stop
<1>1. DeploymentTypes'
  BY SameDeployment, OperationsAreOps DEF PromotionInv, DeploymentTypes, Early, Late
<1>2. WaitsForDue' /\ PlanIsComplete' /\ DoneSoFar'
  BY DEF WaitsForDue, PlanIsComplete, DoneSoFar, Late
<1>3. PassedMeansReady'
  BY SameDeployment DEF PassedMeansReady, Passed, IsMissing
<1>4. ASSUME RefusesPending
      PROVE  /\ OursAreMissing' /\ OneOfOurs' /\ NoneOfOurs' /\ JournalIsTrue'
             /\ SignedIsDue' /\ Undisturbed' /\ FundsSuffice'
  <2>1. OursAreMissing' /\ OneOfOurs'
    BY <1>4 DEF PromotionInv, RefusalInv, OursAreMissing, OneOfOurs, IsMissing, IsOurs
  <2>2. NoneOfOurs' /\ Undisturbed' /\ SignedIsDue' /\ FundsSuffice'
    BY DEF NoneOfOurs, Undisturbed, SignedIsDue, FundsSuffice, Clean, Late
  <2>3. JournalIsTrue'
    BY <1>4 DEF PromotionInv, RefusalInv, JournalIsTrue, IsOurs, IsScript
  <2> QED
    BY <2>1, <2>2, <2>3
<1> QED
  BY <1>1, <1>2, <1>3, <1>4, SameDeployment DEF PromotionInv, RefusalInv

\* BeginDeployment keeps the invariant: a run that begins knows nothing.
LEMMA BeginDeploymentStays ==
    ASSUME PromotionInv, BeginDeployment PROVE PromotionInv'
<1> USE DEF BeginDeployment, Kept, chainVars, Deploying, To
<1>0. /\ stage = "rest" /\ stage' \in {"mempool", "sources", "nonce"}
      /\ stage' = "sources" => Planning /\ ~IsScript("identity")
      /\ stage' = "nonce" => ~Planning
      /\ UNCHANGED <<deployment, deployed, configured, pending, balance, journal, position,
                     plan, awaited, outcome, nonce, maximum, spent>>
  BY DEF Planning, IsScript
<1>1. DeploymentTypes'
  BY <1>0, SameDeployment DEF PromotionInv, DeploymentTypes, Early, Late
<1>2. WaitsForDue'
  BY <1>0 DEF PromotionInv, WaitsForDue
<1>3. PlanIsComplete' /\ DoneSoFar'
  BY <1>0, SameDeployment DEF PlanIsComplete, DoneSoFar, Late
<1>4. PassedMeansReady'
  BY DEF PassedMeansReady, Passed
<1>5. ASSUME RefusesPending
      PROVE  /\ OursAreMissing' /\ OneOfOurs' /\ NoneOfOurs' /\ JournalIsTrue'
             /\ SignedIsDue' /\ Undisturbed' /\ FundsSuffice'
  <2>1. stage' \in {"mempool", "sources"} /\ ~Clean'
    BY <1>0, <1>5 DEF RefusesPending, Planning, IsScript, Clean
  <2>2. OursAreMissing' /\ OneOfOurs'
    BY <1>0, <1>5 DEF PromotionInv, RefusalInv, OursAreMissing, OneOfOurs, IsMissing, IsOurs
  <2>3. NoneOfOurs' /\ Undisturbed' /\ SignedIsDue' /\ FundsSuffice'
    BY <2>1 DEF NoneOfOurs, Undisturbed, SignedIsDue, FundsSuffice, Late
  <2>4. JournalIsTrue'
    BY <1>0, <1>5 DEF PromotionInv, RefusalInv, JournalIsTrue, IsOurs, IsScript, IsMissing
  <2> QED
    BY <2>2, <2>3, <2>4
<1> QED
  BY <1>0, <1>1, <1>2, <1>3, <1>4, <1>5, SameDeployment DEF PromotionInv, RefusalInv

\* AskMempool does: from here on, "identity" knows that nothing of its own is pending.
LEMMA AskMempoolStays ==
    ASSUME PromotionInv, AskMempool PROVE PromotionInv'
<1> USE DEF AskMempool, Kept, chainVars, At, To
<1>1. CASE ~IdentityIdle
  BY <1>1, StopStays
<1>2. CASE IdentityIdle
  <2>0. /\ stage = "mempool" /\ stage' = "sources" /\ pending = <<>>
        /\ UNCHANGED <<deployment, deployed, configured, pending, balance, journal, position,
                       plan, awaited, outcome, nonce, maximum, spent, verdict, meddled>>
    BY <1>2 DEF IdentityIdle
  <2>1. DeploymentTypes'
    BY <2>0, SameDeployment DEF PromotionInv, DeploymentTypes, Early, Late
  <2>2. WaitsForDue'
    BY <2>0 DEF PromotionInv, WaitsForDue
  <2>3. PlanIsComplete' /\ DoneSoFar'
    BY <2>0, SameDeployment DEF PlanIsComplete, DoneSoFar, Late
  <2>4. PassedMeansReady'
    BY <2>0, SameDeployment DEF PromotionInv, PassedMeansReady, Passed, IsMissing
  <2>5. ASSUME RefusesPending
        PROVE  /\ OursAreMissing' /\ OneOfOurs' /\ NoneOfOurs' /\ JournalIsTrue'
               /\ SignedIsDue' /\ Undisturbed' /\ FundsSuffice'
    <3>1. DOMAIN pending' = {}
      BY <2>0
    <3>2. OursAreMissing' /\ OneOfOurs' /\ NoneOfOurs' /\ Undisturbed'
      BY <3>1 DEF OursAreMissing, OneOfOurs, NoneOfOurs, Undisturbed
    <3>3. SignedIsDue' /\ FundsSuffice'
      BY <2>0 DEF SignedIsDue, FundsSuffice, Late
    <3>4. JournalIsTrue'
      BY <2>0, <2>5, <3>1 DEF PromotionInv, RefusalInv, JournalIsTrue, IsScript, IsMissing
    <3> QED
      BY <3>2, <3>3, <3>4
  <2> QED
    BY <2>0, <2>1, <2>2, <2>3, <2>4, <2>5, SameDeployment DEF PromotionInv, RefusalInv
<1> QED
  BY <1>1, <1>2

\* InspectSources does: the plan names all that is missing.
LEMMA InspectSourcesStays ==
    ASSUME PromotionInv, InspectSources PROVE PromotionInv'
<1> USE DEF InspectSources, Kept, chainVars, At, To
<1> DEFINE found == {op \in ToSet(Operations) :
                        IsMissing(op) /\ (IsScript("fee-test") \/ op.kind = "deploy")}
<1>1. CASE Foreign # {} \/ (IsScript("fee-test") /\ FeeTestRefuses)
  BY <1>1, StopStays
<1>2. CASE ~ (Foreign # {} \/ (IsScript("fee-test") /\ FeeTestRefuses))
  <2>0. /\ stage = "sources" /\ stage' = "account" /\ plan' = found
        /\ UNCHANGED <<deployment, deployed, configured, pending, balance, journal, position,
                       awaited, outcome, nonce, maximum, spent, verdict, meddled>>
    BY <1>2
  <2> HIDE DEF InspectSources
  <2>1. DeploymentTypes'
    BY <2>0, SameDeployment DEF PromotionInv, DeploymentTypes, Early, Late
  <2>2. WaitsForDue'
    BY <2>0 DEF PromotionInv, WaitsForDue
  <2>3. PlanIsComplete'
    BY <2>0, SameDeployment DEF PlanIsComplete, IsMissing, IsScript
  <2>4. DoneSoFar'
    BY <2>0 DEF DoneSoFar
  <2>5. PassedMeansReady'
    BY <2>0, SameDeployment DEF PromotionInv, PassedMeansReady, Passed, IsMissing
  <2>6. ASSUME RefusesPending
        PROVE  /\ OursAreMissing' /\ OneOfOurs' /\ NoneOfOurs' /\ JournalIsTrue'
               /\ SignedIsDue' /\ Undisturbed' /\ FundsSuffice'
    <3>1. OursAreMissing' /\ OneOfOurs'
      BY <2>0, <2>6 DEF PromotionInv, RefusalInv, OursAreMissing, OneOfOurs, IsMissing, IsOurs
    <3>2. Clean' <=> Clean
      BY <2>0 DEF Clean, IsScript
    <3>3. NoneOfOurs' /\ Undisturbed'
      BY <2>0, <2>6, <3>2 DEF PromotionInv, RefusalInv, NoneOfOurs, Undisturbed, IsOurs
    <3>4. SignedIsDue' /\ FundsSuffice'
      BY <2>0 DEF SignedIsDue, FundsSuffice, Late
    <3>5. JournalIsTrue'
      BY <2>0, <2>6 DEF PromotionInv, RefusalInv, JournalIsTrue, IsOurs, IsScript, IsMissing
    <3> QED
      BY <3>1, <3>3, <3>4, <3>5
  <2> QED
    BY <2>0, <2>1, <2>2, <2>3, <2>4, <2>5, <2>6, SameDeployment DEF PromotionInv, RefusalInv
<1> QED
  BY <1>1, <1>2

\* Fees and reviewed maxima are numbers.
LEMMA AnyFees ==
    ASSUME KnownDeployment
    PROVE  /\ \A op \in Ops : FeeOf(op) \in Nat
           /\ \A S : IsFiniteSet(S) => Maximum(S) \in Nat
<1>1. Fees.deploy \in Nat /\ Fees.call \in Nat
  BY SomeScript
  DEF Fees, IsScript, AutoMainFees, AutoTestFees, VerMainFees, VerTestFees, CurrentFees,
      IdentityFees, StxV2Fees, TestnetFees, FeeTestFees
<1>2. \A op \in Ops : FeeOf(op) \in Nat
  BY <1>1 DEF FeeOf
<1>3. ASSUME NEW S, IsFiniteSet(S) PROVE Maximum(S) \in Nat
  <2>1. /\ Cardinality({op \in S : op.kind = "deploy"}) \in Nat
        /\ Cardinality({op \in S : op.kind # "deploy"}) \in Nat
    BY <1>3, FS_Subset, FS_CardinalityType
  <2> QED
    BY <2>1
    DEF Maximum, AutoMainMaximum, AutoTestMaximum, VerMainMaximum, VerTestMaximum,
        CurrentMaximum, IdentityMaximum, FeeTestMaximum
<1> QED
  BY <1>2, <1>3

\* The operation that is due.
LEMMA DueIs ==
    ASSUME KnownDeployment, position \in 1..Length
    PROVE  /\ Due \in Ops /\ Due \in ToSet(Operations) /\ Due = Operations[position]
           /\ IsOurs(Due) /\ IsFiniteSet(Turns(position - 1))
           /\ Turns(position) = Turns(position - 1) \cup {Due}
           /\ RefusesPending => Due \notin Turns(position - 1)
<1>1. position - 1 \in 0..Length
  BY OperationsAreOps
<1> QED
  BY <1>1, OperationsAreOps, OperationKinds, TurnsAre DEF Due, IsOurs

\* The turn of the operation that is due costs its fee, when it is needed.
LEMMA DueCharge ==
    ASSUME KnownDeployment, RefusesPending, position \in 1..Length
    PROVE  /\ Charge(Turns(position - 1)) \in Nat /\ Charge(Turns(position)) \in Nat
           /\ Charge(Turns(position - 1)) <= Charge(Turns(position))
           /\ Due \in plan \/ (~IsScript("fee-test") /\ Due.kind # "deploy") =>
                  Charge(Turns(position)) = Charge(Turns(position - 1)) + FeeOf(Due)
<1> DEFINE S == Turns(position - 1)
<1>1. /\ IsFiniteSet(S) /\ Turns(position) = S \cup {Due} /\ Due \in Ops /\ Due \notin S
  BY DueIs
<1>2. IsFiniteSet(S \cup {Due})
  BY <1>1, FS_AddElement
<1> HIDE DEF S
<1>3. Charge(S) \in Nat /\ Charge(S \cup {Due}) \in Nat
  BY <1>1, <1>2, ChargeIs
<1>4. /\ Charge(S) <= Charge(S \cup {Due})
      /\ Due \in plan \/ (~IsScript("fee-test") /\ Due.kind # "deploy") =>
             Charge(S \cup {Due}) = Charge(S) + FeeOf(Due)
  BY <1>1, ChargeGrows
<1> QED
  BY <1>1, <1>3, <1>4 DEF S

\* ReviewAccount does: the balance covers the maximum, and nothing of this script is
\* pending any more.
LEMMA ReviewAccountStays ==
    ASSUME PromotionInv, ReviewAccount PROVE PromotionInv'
<1> USE DEF ReviewAccount, Kept, chainVars, At, To
<1>1. CASE ~ (balance >= Maximum(plan) /\ AccountIsFit)
  BY <1>1, StopStays
<1>2. CASE balance >= Maximum(plan) /\ AccountIsFit
  <2>0. /\ stage = "account" /\ stage' = "nonce" /\ maximum' = Maximum(plan)
        /\ nonce' = Len(pending) + 1 /\ balance >= Maximum(plan) /\ AccountIsFit
        /\ UNCHANGED <<deployment, deployed, configured, pending, balance, journal, position,
                       awaited, outcome, plan, spent, verdict, meddled>>
    BY <1>2 DEF NextNonce
  <2> HIDE DEF ReviewAccount
  <2>1. /\ KnownDeployment /\ plan \subseteq ToSet(Operations) /\ spent = 0 /\ awaited \in Nat
        /\ Len(pending) \in Nat /\ balance \in Int
    BY <2>0, MempoolIs DEF PromotionInv, DeploymentTypes, Early
  <2>2. Maximum(plan) \in Nat
    BY <2>1, AnyFees, TurnsAre, FS_Subset
  <2>3. DeploymentTypes'
    BY <2>0, <2>1, <2>2, SameDeployment DEF PromotionInv, DeploymentTypes, Early, Late
  <2>4. WaitsForDue' /\ awaited = 0
    BY <2>0, <2>1 DEF PromotionInv, WaitsForDue
  <2>5. PlanIsComplete'
    BY <2>0, SameDeployment DEF PromotionInv, PlanIsComplete, IsMissing, IsScript, Late
  <2>6. DoneSoFar'
    BY <2>0 DEF DoneSoFar
  <2>7. PassedMeansReady'
    BY <2>0, SameDeployment DEF PromotionInv, PassedMeansReady, Passed, IsMissing
  <2>8. ASSUME RefusesPending
        PROVE  /\ OursAreMissing' /\ OneOfOurs' /\ NoneOfOurs' /\ JournalIsTrue'
               /\ SignedIsDue' /\ Undisturbed' /\ FundsSuffice'
    <3>1. OursAreMissing' /\ OneOfOurs'
      BY <2>0, <2>8 DEF PromotionInv, RefusalInv, OursAreMissing, OneOfOurs, IsMissing, IsOurs
    <3>2. Clean \/ pending = <<>>
      BY <2>0, <2>8 DEF Clean, RefusesPending, AccountIsFit, IsScript, AutoMainIdle, VerMainIdle,
                        FeeTestIdle
    <3>3. ASSUME pending = <<>> PROVE NoneOfOurs' /\ Undisturbed'
      BY <2>0, <3>3 DEF NoneOfOurs, Undisturbed
    <3>4. ASSUME Clean PROVE NoneOfOurs' /\ Undisturbed'
      BY <2>0, <2>8, <3>4 DEF PromotionInv, RefusalInv, NoneOfOurs, Undisturbed, IsOurs
    <3>5. NoneOfOurs' /\ Undisturbed'
      BY <3>2, <3>3, <3>4
    <3>6. SignedIsDue' /\ FundsSuffice'
      BY <2>0, <2>1, <2>2, <2>4, SamePlan DEF SignedIsDue, FundsSuffice, Late
    <3>7. JournalIsTrue'
      BY <2>0, <2>8 DEF PromotionInv, RefusalInv, JournalIsTrue, IsOurs, IsScript, IsMissing
    <3> QED
      BY <3>1, <3>5, <3>6, <3>7
  <2> QED
    BY <2>0, <2>3, <2>4, <2>5, <2>6, <2>7, <2>8, SameDeployment DEF PromotionInv, RefusalInv
<1> QED
  BY <1>1, <1>2

\* FetchNonce does: nothing has had its turn and nothing is spent.
LEMMA FetchNonceStays ==
    ASSUME PromotionInv, FetchNonce PROVE PromotionInv'
<1> USE DEF FetchNonce, Kept, chainVars, At, To
<1>1. CASE ~ NonceIsFit(NextNonce)
  BY <1>1, StopStays
<1>2. CASE NonceIsFit(NextNonce)
  <2>0. /\ stage = "nonce" /\ stage' = "operation" /\ position' = 1
        /\ nonce' = Len(pending) + 1
        /\ UNCHANGED <<deployment, deployed, configured, pending, balance, journal, maximum,
                       awaited, outcome, plan, spent, verdict, meddled>>
    BY <1>2 DEF NextNonce
  <2> HIDE DEF FetchNonce
  <2>1. /\ KnownDeployment /\ plan \subseteq ToSet(Operations) /\ awaited \in Nat
        /\ Len(pending) \in Nat /\ Length \in Nat
    BY <2>0, MempoolIs, OperationsAreOps DEF PromotionInv, DeploymentTypes
  <2>3. DeploymentTypes'
    BY <2>0, <2>1, SameDeployment DEF PromotionInv, DeploymentTypes, Early, Late
  <2>4. WaitsForDue' /\ awaited = 0
    BY <2>0, <2>1 DEF PromotionInv, WaitsForDue
  <2>5. PlanIsComplete'
    BY <2>0, SameDeployment DEF PromotionInv, PlanIsComplete, IsMissing, IsScript, Late
  <2>6. DoneSoFar'
    BY <2>0 DEF DoneSoFar
  <2>7. PassedMeansReady'
    BY <2>0, SameDeployment DEF PromotionInv, PassedMeansReady, Passed, IsMissing
  <2>8. ASSUME RefusesPending
        PROVE  /\ OursAreMissing' /\ OneOfOurs' /\ NoneOfOurs' /\ JournalIsTrue'
               /\ SignedIsDue' /\ Undisturbed' /\ FundsSuffice'
    <3>1. OursAreMissing' /\ OneOfOurs'
      BY <2>0, <2>8 DEF PromotionInv, RefusalInv, OursAreMissing, OneOfOurs, IsMissing, IsOurs
    <3>2. NoneOfOurs' /\ Undisturbed'
      BY <2>0, <2>8 DEF PromotionInv, RefusalInv, NoneOfOurs, Undisturbed, IsOurs, Clean
    <3>3. FundsSuffice'
      <4>1. Charge(Turns(0)) \in Nat
        BY <2>1, <2>8, ChargeIs, TurnsAre, FS_EmptySet
      <4>2. /\ maximum = Maximum(plan) /\ spent = 0
            /\ ~meddled => balance + spent >= maximum + (IF awaited > 0 THEN FeeOf(Due) ELSE 0)
        BY <2>0, <2>8 DEF PromotionInv, RefusalInv, FundsSuffice, Late
      <4>3. Turns(position - 1)' = Turns(0) /\ Charge(Turns(position - 1))' = Charge(Turns(0))
        BY <2>0, SameDeployment, SamePlan
      <4> QED
        BY <2>0, <2>4, <4>1, <4>2, <4>3, SamePlan DEF FundsSuffice, Late
    <3>4. JournalIsTrue' /\ SignedIsDue'
      BY <2>0, <2>8
      DEF PromotionInv, RefusalInv, JournalIsTrue, IsOurs, IsScript, IsMissing, SignedIsDue
    <3> QED
      BY <3>1, <3>2, <3>3, <3>4
  <2> QED
    BY <2>0, <2>3, <2>4, <2>5, <2>6, <2>7, <2>8, SameDeployment DEF PromotionInv, RefusalInv
<1> QED
  BY <1>1, <1>2

\* A run that goes on to its next operation.
LEMMA NextOperationStays ==
    ASSUME PromotionInv, NextOperation, stage \in {"operation", "wait"},
           position <= Length,
           UNCHANGED <<deployment, deployed, configured, pending, balance, journal, nonce,
                       spent, meddled>>,
           ~Tolerant => IsSettled(Due), RefusesPending => awaited = 0
    PROVE  PromotionInv'
<1>0. /\ stage' = "operation" /\ position' = position + 1 /\ awaited' = 0
      /\ outcome' = "none" /\ UNCHANGED <<plan, maximum, verdict>>
  BY DEF NextOperation, To
<1>1. /\ KnownDeployment /\ plan \subseteq ToSet(Operations) /\ awaited \in Nat
      /\ Length \in Nat /\ position \in 1..Length
  BY OperationsAreOps DEF PromotionInv, DeploymentTypes
<1>2. DeploymentTypes'
  BY <1>0, <1>1, SameDeployment DEF PromotionInv, DeploymentTypes, Early, Late
<1>3. WaitsForDue'
  BY <1>0 DEF WaitsForDue
<1>4. PlanIsComplete'
  BY <1>0, SameDeployment DEF PromotionInv, PlanIsComplete, IsMissing, IsScript, Late
<1>5. DoneSoFar'
  <2> SUFFICES ASSUME ~Tolerant, NEW i \in 1..position
               PROVE  IsSettled(Operations[i])
    BY <1>0, <1>1, SameDeployment DEF DoneSoFar, IsSettled, IsMissing, IsScript, World
  <2>1. i \in 1..(position - 1) \/ i = position
    BY <1>1
  <2> QED
    BY <2>1 DEF PromotionInv, DoneSoFar, Due
<1>6. PassedMeansReady'
  BY <1>0, SameDeployment DEF PromotionInv, PassedMeansReady, Passed, IsMissing
<1>7. ASSUME RefusesPending
      PROVE  /\ OursAreMissing' /\ OneOfOurs' /\ NoneOfOurs' /\ JournalIsTrue'
             /\ SignedIsDue' /\ Undisturbed' /\ FundsSuffice'
  <2>1. OursAreMissing' /\ OneOfOurs'
    BY <1>0, <1>7 DEF PromotionInv, RefusalInv, OursAreMissing, OneOfOurs, IsMissing, IsOurs
  <2>2. DOMAIN pending = 1..Len(pending) /\ Len(pending) \in Nat
    BY MempoolIs DEF PromotionInv
  <2>3. NoneOfOurs' /\ Undisturbed'
    BY <1>0, <1>7, <2>2 DEF PromotionInv, RefusalInv, NoneOfOurs, Undisturbed, IsOurs, Clean
  <2>4. FundsSuffice'
    <3>1. /\ Charge(Turns(position - 1)) <= Charge(Turns(position))
          /\ Charge(Turns(position - 1)) \in Nat /\ Charge(Turns(position)) \in Nat
      BY <1>1, <1>7, DueCharge
    <3>2. Charge(Turns(position - 1))' = Charge(Turns(position))
      <4>1. Turns(position - 1)' = Turns(position)
        BY <1>0, <1>1, SameDeployment DEF Turns
      <4> QED
        BY <1>0, <4>1, SamePlan
    <3>3. spent <= Charge(Turns(position))
      BY <1>7, <3>1 DEF PromotionInv, DeploymentTypes, RefusalInv, FundsSuffice
    <3> QED
      BY <1>0, <1>7, <3>2, <3>3, SamePlan DEF PromotionInv, RefusalInv, FundsSuffice, Late
  <2>5. JournalIsTrue' /\ SignedIsDue'
    BY <1>0, <1>7
    DEF PromotionInv, RefusalInv, JournalIsTrue, IsOurs, IsScript, IsMissing, SignedIsDue
  <2> QED
    BY <2>1, <2>3, <2>4, <2>5
<1> QED
  BY <1>2, <1>3, <1>4, <1>5, <1>6, <1>7, SameDeployment DEF PromotionInv, RefusalInv

\* SkipOperation does: what is not needed is settled.
LEMMA SkipOperationStays ==
    ASSUME PromotionInv, SkipOperation PROVE PromotionInv'
<1>1. /\ NextOperation /\ stage = "operation" /\ position <= Length /\ ~IsNeeded(Due)
      /\ UNCHANGED <<deployment, deployed, configured, pending, balance, journal, nonce,
                     spent, meddled>>
  BY DEF SkipOperation, AtOperation, At, Length, Kept, chainVars
<1>2. KnownDeployment /\ position \in 1..Length
  BY <1>1, OperationsAreOps DEF PromotionInv, DeploymentTypes
<1>3. Due \in ToSet(Operations)
  BY <1>2, DueIs
<1>4. IsSettled(Due)
  <2>1. Planning
    BY <1>1 DEF IsNeeded, IsScript, Planning
  <2>2. CASE IsScript("fee-test") \/ Due.kind = "deploy"
    <3>1. Due \notin plan
      BY <1>1, <2>2 DEF IsNeeded, NeedsDeploy
    <3> QED
      BY <1>1, <1>3, <2>1, <2>2, <3>1 DEF PromotionInv, PlanIsComplete, Late, IsSettled
  <2>3. CASE ~ (IsScript("fee-test") \/ Due.kind = "deploy")
    <3>1. SeemsDone(Due)
      BY <1>1, <2>3 DEF IsNeeded
    <3> QED
      BY <2>3, <3>1 DEF SeemsDone, IsSettled, IsMissing
  <2> QED
    BY <2>2, <2>3
<1>5. awaited = 0
  BY <1>1 DEF PromotionInv, DeploymentTypes, WaitsForDue
<1> QED
  BY <1>1, <1>4, <1>5, NextOperationStays

\* ConfirmOperation does: a transaction that succeeded has settled its operation.
LEMMA ConfirmOperationStays ==
    ASSUME PromotionInv, ConfirmOperation PROVE PromotionInv'
<1> USE DEF ConfirmOperation, Kept, chainVars, At
<1>0. stage = "wait" /\ position <= Length
  BY DEF PromotionInv, DeploymentTypes
<1>1. CASE Stop("failed")
  BY <1>1, StopStays
<1>2. CASE /\ NextOperation /\ UNCHANGED <<nonce, spent>>
           /\ outcome = "success" \/ Tolerant
  <2>1. ~Tolerant => IsSettled(Due)
    BY <1>0, <1>2 DEF PromotionInv, WaitsForDue, IsSettled
  <2>2. RefusesPending => awaited = 0
    <3>1. RefusesPending => ~Tolerant
      BY DEF RefusesPending, Tolerant, IsScript
    <3> QED
      BY <1>2, <3>1 DEF PromotionInv, DeploymentTypes, WaitsForDue
  <2> QED
    BY <1>0, <1>2, <2>1, <2>2, NextOperationStays
<1> QED
  BY <1>1, <1>2

\* TimeOutOperation does: only deploy-testnet.mjs goes on.
LEMMA TimeOutOperationStays ==
    ASSUME PromotionInv, TimeOutOperation PROVE PromotionInv'
<1> USE DEF TimeOutOperation, chainVars, At
<1>0. stage = "wait" /\ position <= Length
  BY DEF PromotionInv, DeploymentTypes
<1>1. CASE Stop("failed")
  BY <1>1, StopStays
<1>2. CASE NextOperation /\ UNCHANGED <<nonce, spent>> /\ Tolerant
  <2>1. ~RefusesPending
    BY <1>2 DEF RefusesPending, Tolerant, IsScript
  <2> QED
    BY <1>0, <1>2, <2>1, NextOperationStays
<1> QED
  BY <1>1, <1>2

\* RefuseOperation does, for the same reason.
LEMMA RefuseOperationStays ==
    ASSUME PromotionInv, RefuseOperation PROVE PromotionInv'
<1> USE DEF RefuseOperation, chainVars
<1>1. CASE Stop("failed")
  BY <1>1, StopStays
<1>2. CASE NextOperation /\ UNCHANGED <<nonce, spent>> /\ Tolerant
  <2>1. ~RefusesPending
    BY <1>2 DEF RefusesPending, Tolerant, IsScript
  <2>2. stage \in {"operation", "signed"} /\ position <= Length
    BY DEF MaySend, AtOperation, At, Length, PromotionInv, DeploymentTypes
  <2>3. stage # "signed"
    BY <1>2 DEF PromotionInv, DeploymentTypes, Tolerant, IsScript
  <2> QED
    BY <1>2, <2>1, <2>2, <2>3, NextOperationStays
<1> QED
  BY <1>1, <1>2

\* FinishDeployment does: all operations are settled, and the last check rules out
\* another policy.
LEMMA FinishDeploymentStays ==
    ASSUME PromotionInv, FinishDeployment PROVE PromotionInv'
<1> USE DEF FinishDeployment, Kept, chainVars, At
<1>0. /\ stage = "operation" /\ position = Length + 1 /\ Length \in Nat /\ KnownDeployment
      /\ Stop(IF AllReady THEN "passed" ELSE "failed")
  BY OperationsAreOps DEF PromotionInv, DeploymentTypes, Length
<1>1. ASSUME AllReady, ~Tolerant, NEW op \in ToSet(Operations) PROVE ~IsMissing(op)
  <2>1. PICK i \in 1..Length : op = Operations[i]
    BY <1>0, OperationsAreOps
  <2>2. IsSettled(op)
    BY <1>0, <1>1, <2>1 DEF PromotionInv, DoneSoFar
  <2>3. ASSUME ~IsScript("fee-test"), op = Initialize("stx") PROVE ~IsMissing(op)
    <3>1. IsScript("auto-main") \/ IsScript("auto-test")
      BY <1>0, <1>1, <2>3, PolicyOperations DEF Tolerant
    <3>2. op \in configured
      BY <1>1, <2>3, <3>1
      DEF AllReady, IsScript, AutoMainReady, AutoTestReady, AutoMainPolicy, AutoTestPolicy
    <3> QED
      BY <2>3, <3>2 DEF IsMissing, Initialize
  <2> QED
    BY <2>2, <2>3 DEF IsSettled
<1> QED
  BY <1>0, <1>1, StopStays

\* CrashDeployment does.
LEMMA CrashDeploymentStays ==
    ASSUME PromotionInv, CrashDeployment PROVE PromotionInv'
BY StopStays DEF CrashDeployment, chainVars

\* Resume does: what the journal names is the only thing that may be pending.
LEMMA ResumeStays ==
    ASSUME PromotionInv, Resume PROVE PromotionInv'
<1>0. /\ stage = "operation" /\ stage' = "wait" /\ position <= Length /\ IsScript("fee-test")
      /\ UNCHANGED <<deployment, deployed, configured, pending, balance, journal, nonce,
                     spent, meddled, position, plan, maximum, verdict>>
  BY DEF Resume, AtOperation, At, To, Length, Kept, chainVars
<1>1. /\ KnownDeployment /\ plan \subseteq ToSet(Operations) /\ awaited = 0
      /\ Length \in Nat /\ position \in 1..Length /\ RefusesPending
      /\ DOMAIN pending = 1..Len(pending) /\ Len(pending) \in Nat
  BY <1>0, OperationsAreOps, MempoolIs
  DEF PromotionInv, DeploymentTypes, WaitsForDue, RefusesPending, IsScript
<1>2. Due \notin ToSet(pending)
  BY <1>0, <1>1, DueIs DEF PromotionInv, RefusalInv, NoneOfOurs, Clean, ToSet
<1>3. awaited' = 0 /\ (outcome' = "success" => ~IsMissing(Due))
  BY <1>2 DEF Resume
<1>4. DeploymentTypes'
  BY <1>0, <1>1, <1>3, SameDeployment DEF PromotionInv, DeploymentTypes, Early, Late
<1>5. WaitsForDue'
  BY <1>0, <1>3, SameDeployment DEF WaitsForDue, IsMissing, Due
<1>6. PlanIsComplete' /\ DoneSoFar'
  BY <1>0, SameDeployment
  DEF PromotionInv, PlanIsComplete, DoneSoFar, IsSettled, IsMissing, IsScript, World, Late
<1>7. PassedMeansReady'
  BY <1>0, SameDeployment DEF PromotionInv, PassedMeansReady, Passed, IsMissing
<1>8. OursAreMissing' /\ OneOfOurs'
  BY <1>0, <1>1 DEF PromotionInv, RefusalInv, OursAreMissing, OneOfOurs, IsMissing, IsOurs
<1>9. NoneOfOurs' /\ Undisturbed'
  BY <1>0, <1>1 DEF PromotionInv, RefusalInv, NoneOfOurs, Undisturbed, IsOurs, Clean
<1>10. FundsSuffice'
  <2>1. /\ Charge(Turns(position - 1)) <= Charge(Turns(position))
        /\ Charge(Turns(position - 1)) \in Nat /\ Charge(Turns(position)) \in Nat
    BY <1>1, DueCharge
  <2>2. Charge(Turns(position))' = Charge(Turns(position))
    BY <1>0, SamePlan, SameDeployment DEF Turns
  <2>3. spent <= Charge(Turns(position))
    BY <1>0, <1>1, <2>1 DEF PromotionInv, DeploymentTypes, RefusalInv, FundsSuffice
  <2> QED
    BY <1>0, <1>1, <1>3, <2>2, <2>3, SamePlan DEF PromotionInv, RefusalInv, FundsSuffice, Late
<1>11. JournalIsTrue' /\ SignedIsDue'
  BY <1>0, <1>1
  DEF PromotionInv, RefusalInv, JournalIsTrue, IsOurs, IsScript, IsMissing, SignedIsDue
<1> QED
  BY <1>4, <1>5, <1>6, <1>7, <1>8, <1>9, <1>10, <1>11 DEF PromotionInv, RefusalInv

\* Record does: the mempool is empty when the name is written.
LEMMA RecordStays ==
    ASSUME PromotionInv, Record PROVE PromotionInv'
<1> USE DEF Record, AtOperation, At, To, Length, chainVars
<1>1. CASE ~FeeTestIdle
  BY <1>1, StopStays
<1>2. CASE FeeTestIdle
  <2>0. /\ stage = "operation" /\ stage' = "signed" /\ position <= Length
        /\ IsScript("fee-test") /\ Due \in plan \ journal /\ pending = <<>>
        /\ nonce' = Len(pending) + 1 /\ journal' = journal \cup {Due}
        /\ UNCHANGED <<deployment, deployed, configured, pending, balance, awaited, outcome,
                       spent, meddled, position, plan, maximum, verdict>>
    BY <1>2 DEF FeeTestIdle, NextNonce, IsNeeded, Recorded
  <2> HIDE DEF Record
  <2>1. /\ KnownDeployment /\ plan \subseteq ToSet(Operations) /\ awaited = 0
        /\ Length \in Nat /\ position \in 1..Length /\ RefusesPending
        /\ DOMAIN pending = {} /\ Len(pending) = 0
    BY <2>0, OperationsAreOps
    DEF PromotionInv, DeploymentTypes, WaitsForDue, RefusesPending, IsScript
  <2>2. IsMissing(Due)
    BY <2>0, <2>1 DEF PromotionInv, RefusalInv, JournalIsTrue
  <2>3. DeploymentTypes'
    BY <2>0, <2>1, SameDeployment
    DEF PromotionInv, DeploymentTypes, Early, Late, IsScript
  <2>4. WaitsForDue'
    BY <2>0, <2>1 DEF WaitsForDue
  <2>5. PlanIsComplete' /\ DoneSoFar'
    BY <2>0, SameDeployment
    DEF PromotionInv, PlanIsComplete, DoneSoFar, IsSettled, IsMissing, IsScript, World, Late
  <2>6. PassedMeansReady'
    BY <2>0, SameDeployment DEF PromotionInv, PassedMeansReady, Passed, IsMissing
  <2>7. OursAreMissing' /\ OneOfOurs' /\ NoneOfOurs' /\ Undisturbed'
    BY <2>0, <2>1 DEF OursAreMissing, OneOfOurs, NoneOfOurs, Undisturbed
  <2>8. SignedIsDue'
    BY <2>0, <2>2, SameDeployment DEF SignedIsDue, IsMissing, IsScript, Due
  <2>9. JournalIsTrue'
    BY <2>0, <2>1 DEF PromotionInv, RefusalInv, JournalIsTrue, IsScript, IsMissing
  <2>10. FundsSuffice'
    <3>1. Charge(Turns(position - 1))' = Charge(Turns(position - 1))
      BY <2>0, SamePlan, SameDeployment DEF Turns
    <3> QED
      BY <2>0, <2>1, <3>1, SamePlan DEF PromotionInv, RefusalInv, FundsSuffice, Late
  <2> QED
    BY <2>3, <2>4, <2>5, <2>6, <2>7, <2>8, <2>9, <2>10 DEF PromotionInv, RefusalInv
<1> QED
  BY <1>1, <1>2

\* Place puts an operation at its nonce and leaves the others where they are.
LEMMA PlaceIs ==
    ASSUME NEW S, NEW q \in Seq(S), Gap \in S, pending = q,
           NEW op \in S, NEW n \in Nat, n > 0
    PROVE  /\ Place(op, n) \in Seq(S)
           /\ n \in 1..Len(Place(op, n)) /\ Place(op, n)[n] = op
           /\ \A i \in 1..Len(Place(op, n)) :
                 i # n => Place(op, n)[i] = Gap
                          \/ (i \in 1..Len(q) /\ Place(op, n)[i] = q[i])
<1> DEFINE m == IF n > Len(pending) THEN n ELSE Len(pending)
           f == [i \in 1..m |-> IF i = n THEN op ELSE IF i <= Len(pending) THEN pending[i] ELSE Gap]
<1>1. Len(pending) \in Nat /\ \A i \in 1..Len(pending) : pending[i] \in S
  BY LenProperties, ElementOfSeq
<1>2. m \in Nat /\ n \in 1..m
  BY <1>1
<1>3. f \in [1..m -> S]
  BY <1>1, <1>2
<1>4. f \in Seq(S) /\ Len(f) = m
  <2> HIDE DEF f, m
  <2>1. f \in Seq(S)
    BY <1>2, <1>3, SeqDef
  <2>2. DOMAIN f = 1..m /\ DOMAIN f = 1..Len(f) /\ Len(f) \in Nat
    BY <1>3, <2>1, LenProperties
  <2> QED
    BY <1>2, <2>1, <2>2
<1>5. Place(op, n) = f
  BY DEF Place
<1>6. f[n] = op /\ \A i \in 1..m :
          i # n => f[i] = Gap \/ (i \in 1..Len(pending) /\ f[i] = pending[i])
  BY <1>1, <1>2
<1> HIDE DEF f, m
<1> QED
  BY <1>2, <1>4, <1>5, <1>6

\* BroadcastOperation does: it sends what is missing, into a mempool without anything
\* of this script, and pays for it out of what was reviewed.
LEMMA BroadcastOperationStays ==
    ASSUME PromotionInv, BroadcastOperation PROVE PromotionInv'
<1>0. /\ stage \in {"operation", "signed"} /\ position <= Length
      /\ stage = "operation" => IsNeeded(Due) /\ ~IsScript("fee-test")
      /\ NodeAccepts(Due, nonce) /\ pending' = Place(Due, nonce)
      /\ nonce' = nonce + 1 /\ spent' = spent + FeeOf(Due)
      /\ UNCHANGED <<deployment, deployed, configured, balance, journal, meddled, plan,
                     maximum, verdict>>
  BY DEF BroadcastOperation, MaySend, AtOperation, At, Length, NextOperation, PromotionInv,
         DeploymentTypes
<1>1. \/ /\ stage' = "wait" /\ awaited' = nonce /\ outcome' = "pending" /\ position' = position
      \/ /\ stage' = "operation" /\ position' = position + 1 /\ awaited' = 0 /\ Tolerant
  BY DEF BroadcastOperation, WaitsNow, NextOperation, To, Tolerant
<1>2. /\ KnownDeployment /\ plan \subseteq ToSet(Operations) /\ awaited = 0 /\ nonce \in Nat
      /\ Length \in Nat /\ position \in 1..Length /\ pending \in Seq(InMempool)
      /\ DOMAIN pending = 1..Len(pending) /\ Len(pending) \in Nat /\ spent \in Nat
      /\ balance \in Int /\ maximum \in Nat /\ nonce > 0
  BY <1>0, OperationsAreOps, MempoolIs
  DEF PromotionInv, DeploymentTypes, WaitsForDue, NodeAccepts, IsFree
<1>3. /\ Due \in Ops /\ Due \in InMempool /\ Gap \in InMempool /\ IsOurs(Due)
      /\ ~IsOurs(Gap) /\ FeeOf(Due) \in Nat
  BY <1>2, DueIs, AnyFees DEF InMempool, IsOurs
<1>4. /\ pending' \in Seq(InMempool) /\ DOMAIN pending' = 1..Len(pending')
      /\ nonce \in DOMAIN pending' /\ pending'[nonce] = Due
      /\ \A i \in DOMAIN pending' :
            i # nonce => pending'[i] = Gap
                         \/ (i \in DOMAIN pending /\ pending'[i] = pending[i])
  <2>1. /\ pending' \in Seq(InMempool) /\ nonce \in 1..Len(pending') /\ pending'[nonce] = Due
        /\ \A i \in 1..Len(pending') :
              i # nonce => pending'[i] = Gap
                           \/ (i \in 1..Len(pending) /\ pending'[i] = pending[i])
    BY <1>0, <1>2, <1>3, PlaceIs
  <2> QED
    BY <1>2, <2>1, LenProperties
<1>5. DeploymentTypes'
  BY <1>0, <1>1, <1>2, <1>3, <1>4, SameDeployment
  DEF PromotionInv, DeploymentTypes, Early, Late, Tolerant, IsScript
<1>6. WaitsForDue'
  BY <1>0, <1>1, <1>2, <1>4, SameDeployment DEF WaitsForDue, Due
<1>7. PlanIsComplete'
  BY <1>0, <1>1, SameDeployment DEF PromotionInv, PlanIsComplete, IsMissing, IsScript, Late
<1>8. DoneSoFar'
  BY <1>0, <1>1, SameDeployment
  DEF PromotionInv, DoneSoFar, IsSettled, IsMissing, IsScript, World
<1>9. PassedMeansReady'
  BY <1>0, SameDeployment DEF PromotionInv, PassedMeansReady, Passed, IsMissing
<1>10. ASSUME RefusesPending
       PROVE  /\ OursAreMissing' /\ OneOfOurs' /\ NoneOfOurs' /\ JournalIsTrue'
              /\ SignedIsDue' /\ Undisturbed' /\ FundsSuffice'
  <2>1. /\ stage' = "wait" /\ awaited' = nonce /\ position' = position
        /\ stage = "signed" <=> IsScript("fee-test")
    BY <1>0, <1>1, <1>10 DEF RefusesPending, Tolerant, IsScript, PromotionInv, DeploymentTypes
  <2>2. \A i \in DOMAIN pending : ~IsOurs(pending[i])
    BY <1>0, <1>10 DEF PromotionInv, RefusalInv, NoneOfOurs, Clean
  <2>3. \A i \in DOMAIN pending' : IsOurs(pending'[i]) => i = nonce
    BY <1>3, <1>4, <2>2
  <2>4. /\ IsMissing(Due)
        /\ Due \in plan \/ (~IsScript("fee-test") /\ Due.kind # "deploy")
        /\ IsScript("fee-test") => Due \in journal
    <3>1. CASE IsScript("fee-test")
      BY <1>10, <2>1, <3>1 DEF PromotionInv, RefusalInv, SignedIsDue
    <3>2. CASE ~IsScript("fee-test") /\ Due.kind = "deploy"
      <4>1. Planning
        BY <1>10 DEF RefusesPending, Planning, IsScript
      <4>2. Due.of \notin deployed
        BY <1>0, <3>2 DEF NodeAccepts, CanBeMined
      <4> QED
        BY <1>0, <2>1, <3>2, <4>1, <4>2 DEF IsNeeded, NeedsDeploy, IsMissing
    <3>3. CASE ~IsScript("fee-test") /\ Due.kind # "deploy"
      <4>1. Planning
        BY <1>10 DEF RefusesPending, Planning, IsScript
      <4> QED
        BY <1>0, <2>1, <3>3, <4>1 DEF IsNeeded, SeemsDone, IsMissing
    <3> QED
      BY <3>1, <3>2, <3>3
  <2>5. OursAreMissing' /\ OneOfOurs'
    BY <1>0, <1>4, <2>3, <2>4 DEF OursAreMissing, OneOfOurs, IsMissing, IsOurs
  <2>6. NoneOfOurs'
    BY <2>1, <2>3 DEF NoneOfOurs, Clean, IsOurs
  <2>7. JournalIsTrue' /\ SignedIsDue'
    BY <1>0, <1>4, <1>10, <2>1, <2>3, <2>4
    DEF PromotionInv, RefusalInv, JournalIsTrue, SignedIsDue, IsOurs, IsScript, IsMissing
  <2>8. Undisturbed'
    BY <1>0, <1>4, <1>10, <2>1
    DEF PromotionInv, RefusalInv, Undisturbed, Clean
  <2>9. FundsSuffice'
    <3>1. /\ spent <= Charge(Turns(position - 1)) /\ maximum = Maximum(plan)
          /\ ~meddled => balance + spent >= maximum
      BY <1>0, <1>2, <1>10 DEF PromotionInv, RefusalInv, FundsSuffice, Late
    <3>2. /\ Charge(Turns(position)) = Charge(Turns(position - 1)) + FeeOf(Due)
          /\ Charge(Turns(position - 1)) \in Nat
      BY <1>2, <1>10, <2>4, DueCharge
    <3>3. Charge(Turns(position))' = Charge(Turns(position)) /\ FeeOf(Due)' = FeeOf(Due)
      BY <1>0, <2>1, SamePlan, SameDeployment DEF Turns, Due
    <3> QED
      BY <1>0, <1>2, <1>3, <2>1, <3>1, <3>2, <3>3, SamePlan DEF FundsSuffice, Late
  <2> QED
    BY <2>5, <2>6, <2>7, <2>8, <2>9
<1> QED
  BY <1>0, <1>5, <1>6, <1>7, <1>8, <1>9, <1>10, SameDeployment DEF PromotionInv, RefusalInv

\* A bounded set of numbers has a largest.
LEMMA LargestNumber ==
    ASSUME NEW T, T \subseteq Nat, T # {}, NEW n \in Nat, \A x \in T : x <= n
    PROVE  \E x \in T : \A y \in T : x >= y
<1> DEFINE U == {u \in Nat : \A x \in T : x <= u}
<1>1. U \subseteq Nat /\ U # {}
  OBVIOUS
<1>2. PICK u \in U : \A v \in U : u <= v
  BY <1>1, LeastNumber
<1>3. u \in T
  <2> SUFFICES ASSUME u \notin T PROVE FALSE
    OBVIOUS
  <2>1. PICK x \in T : TRUE
    OBVIOUS
  <2>2. u > 0 /\ u - 1 \in Nat
    BY <2>1
  <2>3. \A y \in T : y <= u - 1
    BY <2>2
  <2>4. u - 1 \in U
    BY <2>2, <2>3
  <2> QED
    BY <1>2, <2>2, <2>4
<1> QED
  BY <1>3

\* What is trimmed away is Gap.
LEMMA TrimIs ==
    ASSUME NEW S, NEW q \in Seq(S)
    PROVE  /\ Trim(q) \in Seq(S)
           /\ \A i \in 1..Len(Trim(q)) : i \in 1..Len(q) /\ Trim(q)[i] = q[i]
           /\ \A i \in 1..Len(q) : q[i] # Gap => i \in 1..Len(Trim(q))
<1> DEFINE T == {0} \cup {i \in DOMAIN q : q[i] # Gap}
           m == Max(T)
<1>1. Len(q) \in Nat /\ DOMAIN q = 1..Len(q) /\ \A i \in 1..Len(q) : q[i] \in S
  BY LenProperties, ElementOfSeq
<1>2. T \subseteq 0..Len(q) /\ T # {}
  BY <1>1
<1>3. \E x \in T : \A y \in T : x >= y
  <2> HIDE DEF T
  <2>1. T \subseteq Nat /\ \A x \in T : x <= Len(q)
    BY <1>1, <1>2
  <2> QED
    BY <1>1, <1>2, <2>1, LargestNumber
<1>4. m \in T /\ \A y \in T : m >= y
  BY <1>3 DEF Max
<1>5. m \in 0..Len(q)
  BY <1>2, <1>4
<1>6. Trim(q) = SubSeq(q, 1, m)
  BY DEF Trim
<1>7. \A i \in 1..Len(q) : q[i] # Gap => i <= m
  BY <1>1, <1>4
<1> HIDE DEF m
<1>8. /\ Trim(q) \in Seq(S) /\ Len(Trim(q)) = m
      /\ \A i \in 1..m : Trim(q)[i] = q[i]
  <2>1. \A i \in 1..m : q[i] \in S
    BY <1>1, <1>5
  <2>2. /\ SubSeq(q, 1, m) \in Seq(S)
        /\ Len(SubSeq(q, 1, m)) = IF 1 <= m THEN m - 1 + 1 ELSE 0
        /\ \A i \in 1..(m - 1 + 1) : SubSeq(q, 1, m)[i] = q[1 + i - 1]
    BY <1>5, <2>1, SubSeqProperties
  <2>3. m - 1 + 1 = m /\ (IF 1 <= m THEN m - 1 + 1 ELSE 0) = m
        /\ \A i \in 1..m : 1 + i - 1 = i
    BY <1>5
  <2> QED
    BY <1>6, <2>2, <2>3
<1> QED
  BY <1>1, <1>5, <1>7, <1>8

\* A transaction that leaves the mempool keeps the invariant.
LEMMA ForgetStays ==
    ASSUME PromotionInv, NEW n \in DOMAIN pending, Forget(n), Open
    PROVE  PromotionInv'
<1>0. /\ pending' = Trim([pending EXCEPT ![n] = Gap])
      /\ IF awaited = n THEN outcome' = "dropped" /\ awaited' = 0
         ELSE outcome' = outcome /\ awaited' = awaited
      /\ UNCHANGED <<deployment, deployed, configured, balance, stage, position, plan,
                     nonce, maximum, spent, journal, verdict, meddled>>
  BY DEF Forget
<1>1. /\ pending \in Seq(InMempool) /\ Len(pending) \in Nat
      /\ DOMAIN pending = 1..Len(pending) /\ awaited \in Nat /\ Gap \in InMempool
  BY MempoolIs DEF PromotionInv, DeploymentTypes, InMempool
<1>2. /\ pending' \in Seq(InMempool) /\ DOMAIN pending' = 1..Len(pending')
      /\ \A i \in DOMAIN pending' :
            i \in DOMAIN pending /\ (pending'[i] = Gap \/ (i # n /\ pending'[i] = pending[i]))
      /\ \A i \in DOMAIN pending :
            i # n /\ pending[i] # Gap => i \in DOMAIN pending' /\ pending'[i] = pending[i]
  <2> DEFINE q == [pending EXCEPT ![n] = Gap]
  <2>1. /\ q \in Seq(InMempool) /\ Len(q) = Len(pending)
        /\ \A j \in 1..Len(pending) : q[j] = IF j = n THEN Gap ELSE pending[j]
    BY <1>1, ExceptSeq
  <2> HIDE DEF q
  <2>2. /\ Trim(q) \in Seq(InMempool)
        /\ \A i \in 1..Len(Trim(q)) : i \in 1..Len(q) /\ Trim(q)[i] = q[i]
        /\ \A i \in 1..Len(q) : q[i] # Gap => i \in 1..Len(Trim(q))
    BY <2>1, TrimIs
  <2>3. pending' = Trim(q)
    BY <1>0 DEF q
  <2>4. DOMAIN pending' = 1..Len(pending')
    BY <2>2, <2>3, LenProperties
  <2> QED
    BY <1>1, <2>1, <2>2, <2>3, <2>4
<1>3. DeploymentTypes'
  BY <1>0, <1>1, <1>2, SameDeployment DEF PromotionInv, DeploymentTypes, IsScript
<1>4. WaitsForDue'
  <2>1. ASSUME awaited > 0 PROVE Due # Gap
    BY <2>1, DueIs DEF PromotionInv, DeploymentTypes, WaitsForDue, IsOurs
  <2>2. Due' = Due
    BY <1>0, SameDeployment DEF Due
  <2>3. ASSUME awaited' > 0
        PROVE  /\ stage' = "wait" /\ outcome' = "pending"
               /\ awaited' \in DOMAIN pending' /\ pending'[awaited'] = Due'
    <3>1. /\ awaited > 0 /\ awaited # n /\ stage = "wait" /\ outcome = "pending"
          /\ awaited \in DOMAIN pending /\ pending[awaited] = Due
      BY <1>0, <2>3 DEF PromotionInv, WaitsForDue
    <3>2. awaited \in DOMAIN pending' /\ pending'[awaited] = Due
      BY <1>2, <2>1, <3>1
    <3> QED
      BY <1>0, <2>2, <3>1, <3>2
  <2>4. ASSUME stage' = "wait", outcome' = "success" PROVE ~IsMissing(Due)'
    <3>1. ~IsMissing(Due)
      BY <1>0, <2>4 DEF PromotionInv, WaitsForDue
    <3> QED
      BY <1>0, <2>2, <3>1 DEF IsMissing
  <2> QED
    BY <2>3, <2>4 DEF WaitsForDue
<1>5. PlanIsComplete' /\ DoneSoFar'
  BY <1>0, SameDeployment
  DEF PromotionInv, PlanIsComplete, DoneSoFar, IsSettled, IsMissing, IsScript, World
<1>6. PassedMeansReady'
  BY <1>0 DEF PassedMeansReady, Passed, Open
<1>7. ASSUME RefusesPending
      PROVE  /\ OursAreMissing' /\ OneOfOurs' /\ NoneOfOurs' /\ JournalIsTrue'
             /\ SignedIsDue' /\ Undisturbed' /\ FundsSuffice'
  <2>0. ~IsOurs(Gap)
    BY DEF IsOurs
  <2>1. OursAreMissing' /\ OneOfOurs'
    BY <1>0, <1>2, <1>7, <2>0
    DEF PromotionInv, RefusalInv, OursAreMissing, OneOfOurs, IsMissing, IsOurs
  <2>2. NoneOfOurs'
    BY <1>0, <1>2, <1>7, <2>0 DEF PromotionInv, RefusalInv, NoneOfOurs, IsOurs, Clean, IsScript
  <2>3. Undisturbed'
    BY <1>0, <1>2, <1>7 DEF PromotionInv, RefusalInv, Undisturbed, Clean, IsScript
  <2>4. JournalIsTrue' /\ SignedIsDue'
    BY <1>0, <1>2, <1>7, <2>0, SameDeployment
    DEF PromotionInv, RefusalInv, JournalIsTrue, IsOurs, IsScript, IsMissing, SignedIsDue, Due
  <2>5. FundsSuffice'
    <3>1. /\ Charge(Turns(position))' = Charge(Turns(position))
          /\ Charge(Turns(position - 1))' = Charge(Turns(position - 1))
          /\ FeeOf(Due)' = FeeOf(Due)
      BY <1>0, SamePlan, SameDeployment DEF Turns, Due
    <3>2. awaited > 0 => FeeOf(Due) \in Nat
      BY DueIs, AnyFees DEF PromotionInv, DeploymentTypes, WaitsForDue
    <3>3. balance \in Int /\ spent \in Nat /\ maximum \in Nat
      BY DEF PromotionInv, DeploymentTypes
    <3> QED
      BY <1>0, <1>1, <1>7, <3>1, <3>2, <3>3, SamePlan
      DEF PromotionInv, RefusalInv, FundsSuffice
  <2> QED
    BY <2>1, <2>2, <2>3, <2>4, <2>5
<1> QED
  BY <1>0, <1>3, <1>4, <1>5, <1>6, <1>7, SameDeployment DEF PromotionInv, RefusalInv

\* MineNext does: what it settles was the only thing of this script.
LEMMA MineNextStays ==
    ASSUME PromotionInv, MineNext PROVE PromotionInv'
<1> DEFINE op == pending[1]
<1>1. /\ pending \in Seq(InMempool) /\ Len(pending) \in Nat /\ awaited \in Nat
      /\ DOMAIN pending = 1..Len(pending) /\ pending # <<>> /\ KnownDeployment
      /\ balance \in Int /\ nonce \in Nat
  BY MempoolIs DEF PromotionInv, DeploymentTypes, MineNext
<1>2. 1 \in DOMAIN pending /\ Head(pending) = op /\ op \in InMempool
  BY <1>1, EmptySeq, ElementOfSeq
<1>3. op # Gap
  BY <1>2 DEF MineNext, CanBeMined
<1>4. /\ pending' \in Seq(InMempool) /\ DOMAIN pending' = 1..Len(pending')
      /\ \A i \in DOMAIN pending' : i + 1 \in DOMAIN pending /\ pending'[i] = pending[i + 1]
      /\ \A i \in DOMAIN pending : i # 1 => i - 1 \in DOMAIN pending' /\ pending'[i - 1] = pending[i]
  <2>1. /\ pending' \in Seq(InMempool) /\ Len(pending') = Len(pending) - 1
        /\ \A i \in 1..Len(pending') : pending'[i] = pending[i + 1]
    BY <1>1, HeadTailProperties DEF MineNext
  <2>2. DOMAIN pending' = 1..Len(pending')
    BY <2>1, LenProperties
  <2>3. ASSUME NEW i \in DOMAIN pending, i # 1
        PROVE  i - 1 \in DOMAIN pending' /\ pending'[i - 1] = pending[i]
    <3>1. i - 1 \in 1..Len(pending') /\ i - 1 + 1 = i
      BY <1>1, <2>1, <2>3
    <3> QED
      BY <2>1, <2>2, <3>1
  <2> QED
    BY <1>1, <2>1, <2>2, <2>3
<1>5. /\ balance' = balance - FeeOf(op)
      /\ deployed \subseteq deployed' /\ configured \subseteq configured'
      /\ Succeeds(op) /\ op # Other =>
            IF op.kind = "deploy"
            THEN deployed' = deployed \cup {op.of} /\ configured' = configured
            ELSE configured' = configured \cup {op} /\ deployed' = deployed
      /\ ~ (Succeeds(op) /\ op # Other) => deployed' = deployed /\ configured' = configured
      /\ awaited # 1 => outcome' = outcome
      /\ awaited = 1 => outcome' = (IF Succeeds(op) THEN "success" ELSE "abort")
      /\ awaited' = IF awaited > 0 THEN awaited - 1 ELSE 0
      /\ nonce' = IF nonce > 0 THEN nonce - 1 ELSE 0
      /\ UNCHANGED <<deployment, stage, position, plan, maximum, spent, journal, verdict,
                     meddled>>
      /\ Open
  BY <1>2 DEF MineNext, pastVars
<1> HIDE DEF op
<1>6. FeeOf(op) \in Int
  <2>1. FeeOf(Other) = 1
    BY DEF FeeOf, Other
  <2> QED
    BY <1>1, <1>2, <1>3, <2>1, AnyFees DEF InMempool
<1>7. \A o : ~IsMissing(o) => ~IsMissing(o)'
  BY <1>5 DEF IsMissing
<1>8. DeploymentTypes'
  BY <1>1, <1>4, <1>5, <1>6, SameDeployment DEF PromotionInv, DeploymentTypes, IsScript
<1>9. ASSUME awaited > 0
      PROVE  /\ stage = "wait" /\ outcome = "pending" /\ awaited \in DOMAIN pending
             /\ pending[awaited] = Due /\ Due \in Ops /\ Due # Other /\ Due # Gap
  BY <1>9, DueIs DEF PromotionInv, DeploymentTypes, WaitsForDue, IsOurs
<1>10. Due' = Due
  BY <1>5, SameDeployment DEF Due
<1>11. WaitsForDue'
  <2>1. ASSUME awaited' > 0
        PROVE  /\ stage' = "wait" /\ outcome' = "pending"
               /\ awaited' \in DOMAIN pending' /\ pending'[awaited'] = Due'
    BY <1>1, <1>4, <1>5, <1>9, <1>10, <2>1
  <2>2. ASSUME stage' = "wait", outcome' = "success" PROVE ~IsMissing(Due)'
    <3>1. CASE awaited = 1
      <4>1. op = Due /\ Succeeds(op) /\ op # Other
        BY <1>5, <1>9, <2>2, <3>1 DEF op
      <4>2. CASE op.kind = "deploy"
        BY <1>5, <1>10, <4>1, <4>2 DEF IsMissing
      <4>3. CASE op.kind # "deploy"
        BY <1>5, <1>10, <4>1, <4>3 DEF IsMissing
      <4> QED
        BY <4>2, <4>3
    <3>2. CASE awaited # 1
      <4>1. ~IsMissing(Due)
        BY <1>5, <2>2, <3>2 DEF PromotionInv, WaitsForDue
      <4> QED
        BY <1>5, <1>10, <4>1 DEF IsMissing
    <3> QED
      BY <3>1, <3>2
  <2> QED
    BY <2>1, <2>2 DEF WaitsForDue
<1>12. PlanIsComplete' /\ DoneSoFar'
  BY <1>5, SameDeployment
  DEF PromotionInv, PlanIsComplete, DoneSoFar, IsSettled, IsMissing, IsScript, World
<1>13. PassedMeansReady'
  BY <1>5 DEF PassedMeansReady, Passed, Open
<1>14. ASSUME RefusesPending
       PROVE  /\ OursAreMissing' /\ OneOfOurs' /\ NoneOfOurs' /\ JournalIsTrue'
              /\ SignedIsDue' /\ Undisturbed' /\ FundsSuffice'
  <2>1. /\ OursAreMissing /\ OneOfOurs /\ NoneOfOurs /\ JournalIsTrue
        /\ SignedIsDue /\ Undisturbed /\ FundsSuffice
    BY <1>14 DEF PromotionInv, RefusalInv
  <2>2. ASSUME ~IsOurs(op) PROVE deployed' = deployed /\ configured' = configured
    BY <1>3, <1>5, <2>2 DEF IsOurs
  <2>3. ASSUME NEW i \in DOMAIN pending', IsOurs(pending'[i]) PROVE ~IsOurs(op)
    <3>1. i + 1 \in DOMAIN pending /\ i + 1 # 1 /\ IsOurs(pending[i + 1])
      BY <1>1, <1>4, <2>3
    <3> QED
      BY <1>2, <2>1, <3>1 DEF OneOfOurs, op
  <2>4. OursAreMissing'
    BY <1>4, <2>1, <2>2, <2>3 DEF OursAreMissing, IsMissing, IsOurs
  <2>5. OneOfOurs'
    <3> SUFFICES ASSUME NEW i \in DOMAIN pending', NEW j \in DOMAIN pending',
                        IsOurs(pending'[i]), IsOurs(pending'[j])
                 PROVE  i = j
      BY DEF OneOfOurs, IsOurs
    <3>1. i + 1 = j + 1
      BY <1>4, <2>1 DEF OneOfOurs
    <3> QED
      BY <1>1, <1>4, <3>1
  <2>6. NoneOfOurs'
    <3> SUFFICES ASSUME NEW i \in DOMAIN pending', IsOurs(pending'[i])
                 PROVE  ~Clean' /\ (stage = "wait" => i = awaited')
      BY <1>5 DEF NoneOfOurs, IsOurs
    <3>1. ~Clean /\ (stage = "wait" => i + 1 = awaited)
      BY <1>4, <2>1 DEF NoneOfOurs
    <3> QED
      BY <1>1, <1>4, <1>5, <3>1 DEF Clean, IsScript
  <2>7. JournalIsTrue'
    <3> SUFFICES ASSUME IsScript("fee-test")
                 PROVE  /\ \A i \in DOMAIN pending' : IsOurs(pending'[i]) => pending'[i] \in journal
                        /\ \A o \in plan \ journal : IsMissing(o)'
      BY <1>5 DEF JournalIsTrue, IsOurs, IsMissing, IsScript
    <3>1. \A i \in DOMAIN pending' : IsOurs(pending'[i]) => pending'[i] \in journal
      BY <1>4, <2>1 DEF JournalIsTrue
    <3>2. ASSUME NEW o \in plan \ journal PROVE IsMissing(o)'
      <4>1. IsMissing(o) /\ o \in Ops
        BY <1>1, <2>1, OperationsAreOps DEF JournalIsTrue, PromotionInv, DeploymentTypes
      <4>2. CASE ~IsOurs(op)
        BY <2>2, <4>1, <4>2 DEF IsMissing
      <4>3. CASE IsOurs(op)
        <5>1. op \in journal /\ op \in Ops /\ op # o
          BY <1>2, <2>1, <3>2, <4>3 DEF JournalIsTrue, op, IsOurs, InMempool
        <5>2. o.kind = "deploy" /\ op.kind = "deploy" => o.of # op.of
          BY <4>1, <5>1 DEF Ops
        <5> QED
          BY <1>5, <4>1, <5>1, <5>2 DEF IsMissing
      <4> QED
        BY <4>2, <4>3
    <3> QED
      BY <3>1, <3>2
  <2>8. SignedIsDue'
    <3> SUFFICES ASSUME stage = "signed"
                 PROVE  Due' \in plan \cap journal /\ IsMissing(Due)'
      BY <1>5 DEF SignedIsDue
    <3>1. ~IsOurs(op)
      BY <1>2, <2>1 DEF NoneOfOurs, Clean, op
    <3> QED
      BY <1>10, <2>1, <2>2, <3>1 DEF SignedIsDue, IsMissing
  <2>9. Undisturbed'
    <3> SUFFICES ASSUME ~meddled, NEW i \in DOMAIN pending'
                 PROVE  /\ Clean' => pending'[i] = Gap
                        /\ stage = "wait" /\ i # awaited' => pending'[i] = Gap
      BY <1>5 DEF Undisturbed
    <3>1. i + 1 \in DOMAIN pending /\ pending'[i] = pending[i + 1]
      BY <1>4
    <3>2. /\ Clean => pending[i + 1] = Gap
          /\ stage = "wait" /\ i + 1 # awaited => pending[i + 1] = Gap
      BY <2>1, <3>1 DEF Undisturbed
    <3>3. Clean' <=> Clean
      BY <1>5 DEF Clean, IsScript
    <3>4. i # awaited' => i + 1 # awaited
      BY <1>1, <1>4, <1>5
    <3> QED
      BY <3>1, <3>2, <3>3, <3>4
  <2>10. FundsSuffice'
    <3>1. /\ Charge(Turns(position))' = Charge(Turns(position))
          /\ Charge(Turns(position - 1))' = Charge(Turns(position - 1))
          /\ FeeOf(Due)' = FeeOf(Due)
      BY <1>5, SamePlan, SameDeployment DEF Turns, Due
    <3>2. balance \in Int /\ spent \in Nat /\ maximum \in Nat
      BY DEF PromotionInv, DeploymentTypes
    <3>3. ASSUME stage \in Late, ~meddled
          PROVE  balance' + spent >= maximum /\ awaited' = 0
      <4>1. stage = "wait" /\ awaited = 1
        BY <1>2, <1>3, <2>1, <3>3 DEF Undisturbed, Clean, Late, op
      <4>2. op = Due
        BY <1>9, <4>1 DEF op
      <4>3. balance + spent >= maximum + FeeOf(Due)
        BY <2>1, <3>3, <4>1 DEF FundsSuffice
      <4> QED
        BY <1>5, <1>6, <3>2, <4>1, <4>2, <4>3
    <3> QED
      <4>1. /\ stage \in Late => maximum = Maximum(plan)
            /\ stage = "nonce" => spent = 0
            /\ stage \in {"operation", "signed"} => spent <= Charge(Turns(position - 1))
            /\ stage = "wait" => spent <= Charge(Turns(position))
        BY <2>1 DEF FundsSuffice
      <4>2. /\ stage' = stage /\ spent' = spent /\ maximum' = maximum
            /\ meddled' = meddled /\ Maximum(plan)' = Maximum(plan)
        BY <1>5, SamePlan
      <4>3. stage \in Late /\ ~meddled =>
                balance' + spent >= maximum + (IF awaited' > 0 THEN FeeOf(Due)' ELSE 0)
        BY <3>2, <3>3
      <4> QED
        BY <3>1, <4>1, <4>2, <4>3 DEF FundsSuffice
  <2> QED
    BY <2>4, <2>5, <2>6, <2>7, <2>8, <2>9, <2>10
<1> QED
  BY <1>5, <1>8, <1>11, <1>12, <1>13, <1>14, SameDeployment DEF PromotionInv, RefusalInv

\* OwnerSends does: the run no longer counts on the balance.
LEMMA OwnerSendsStays ==
    ASSUME PromotionInv, OwnerSends PROVE PromotionInv'
<1>1. /\ pending' = Append(pending, Other) /\ meddled' = TRUE /\ Open
      /\ UNCHANGED <<deployment, deployed, configured, balance, stage, position, plan,
                     nonce, awaited, outcome, maximum, spent, journal, verdict>>
  BY DEF OwnerSends, runVars
<1>2. /\ pending \in Seq(InMempool) /\ Len(pending) \in Nat /\ awaited \in Nat
      /\ DOMAIN pending = 1..Len(pending) /\ Other \in InMempool /\ ~IsOurs(Other)
  BY MempoolIs DEF PromotionInv, DeploymentTypes, InMempool, IsOurs
<1>3. /\ pending' \in Seq(InMempool)
      /\ DOMAIN pending \subseteq DOMAIN pending'
      /\ \A i \in DOMAIN pending : pending'[i] = pending[i]
      /\ \A i \in DOMAIN pending' : i \in DOMAIN pending \/ pending'[i] = Other
  <2>1. /\ pending' \in Seq(InMempool) /\ Len(pending') = Len(pending) + 1
        /\ \A i \in 1..Len(pending) : pending'[i] = pending[i]
        /\ pending'[Len(pending) + 1] = Other
    BY <1>1, <1>2, AppendProperties
  <2>2. DOMAIN pending' = 1..Len(pending')
    BY <2>1, LenProperties
  <2>3. \A i \in 1..(Len(pending) + 1) : i \in 1..Len(pending) \/ i = Len(pending) + 1
    BY <1>2
  <2>4. 1..Len(pending) \subseteq 1..(Len(pending) + 1)
    BY <1>2
  <2> QED
    BY <1>2, <2>1, <2>2, <2>3, <2>4
<1>4. DeploymentTypes'
  BY <1>1, <1>3, SameDeployment DEF PromotionInv, DeploymentTypes, IsScript
<1>5. Due' = Due
  BY <1>1, SameDeployment DEF Due
<1>6. WaitsForDue'
  BY <1>1, <1>3, <1>5 DEF PromotionInv, WaitsForDue, IsMissing
<1>7. PlanIsComplete' /\ DoneSoFar'
  BY <1>1, SameDeployment
  DEF PromotionInv, PlanIsComplete, DoneSoFar, IsSettled, IsMissing, IsScript, World
<1>8. PassedMeansReady'
  BY <1>1 DEF PassedMeansReady, Passed, Open
<1>9. ASSUME RefusesPending
      PROVE  /\ OursAreMissing' /\ OneOfOurs' /\ NoneOfOurs' /\ JournalIsTrue'
             /\ SignedIsDue' /\ Undisturbed' /\ FundsSuffice'
  <2>1. OursAreMissing /\ OneOfOurs /\ NoneOfOurs /\ JournalIsTrue /\ SignedIsDue /\ FundsSuffice
    BY <1>9 DEF PromotionInv, RefusalInv
  <2>2. \A i \in DOMAIN pending' :
            IsOurs(pending'[i]) => i \in DOMAIN pending /\ pending'[i] = pending[i]
    BY <1>2, <1>3
  <2>3. OursAreMissing' /\ OneOfOurs'
    BY <1>1, <2>1, <2>2 DEF OursAreMissing, OneOfOurs, IsMissing, IsOurs
  <2>4. NoneOfOurs'
    BY <1>1, <2>1, <2>2 DEF NoneOfOurs, IsOurs, Clean, IsScript
  <2>5. JournalIsTrue'
    BY <1>1, <2>1, <2>2 DEF JournalIsTrue, IsOurs, IsScript, IsMissing
  <2>6. SignedIsDue'
    BY <1>1, <1>5, <2>1 DEF SignedIsDue, IsMissing
  <2>7. Undisturbed'
    BY <1>1 DEF Undisturbed
  <2>8. FundsSuffice'
    BY <1>1, <2>1, SamePlan, SameDeployment DEF FundsSuffice, Turns
  <2> QED
    BY <2>3, <2>4, <2>5, <2>6, <2>7, <2>8
<1> QED
  BY <1>1, <1>4, <1>6, <1>7, <1>8, <1>9, SameDeployment DEF PromotionInv, RefusalInv

\* Nothing but the balance changes, and that between two runs.
LEMMA RestingStays ==
    ASSUME PromotionInv, balance' \in Int, balance' = balance \/ stage = "rest",
           UNCHANGED <<deployment, deployed, configured, pending, runVars, journal, verdict,
                       meddled>>
    PROVE  PromotionInv'
<1>1. UNCHANGED <<stage, position, plan, nonce, awaited, outcome, maximum, spent>>
  BY DEF runVars
<1>2. DeploymentTypes'
  BY <1>1, SameDeployment DEF PromotionInv, DeploymentTypes, IsScript
<1>3. Due' = Due
  BY <1>1, SameDeployment DEF Due
<1>4. WaitsForDue'
  BY <1>1, <1>3 DEF PromotionInv, WaitsForDue, IsMissing
<1>5. PlanIsComplete' /\ DoneSoFar'
  BY <1>1, SameDeployment
  DEF PromotionInv, PlanIsComplete, DoneSoFar, IsSettled, IsMissing, IsScript, World
<1>6. PassedMeansReady'
  BY SameDeployment DEF PromotionInv, PassedMeansReady, Passed, IsMissing
<1>7. ASSUME RefusesPending
      PROVE  /\ OursAreMissing' /\ OneOfOurs' /\ NoneOfOurs' /\ JournalIsTrue'
             /\ SignedIsDue' /\ Undisturbed' /\ FundsSuffice'
  <2>1. /\ OursAreMissing /\ OneOfOurs /\ NoneOfOurs /\ JournalIsTrue /\ SignedIsDue
        /\ Undisturbed /\ FundsSuffice
    BY <1>7 DEF PromotionInv, RefusalInv
  <2>2. OursAreMissing' /\ OneOfOurs' /\ NoneOfOurs' /\ JournalIsTrue'
    BY <1>1, <2>1
    DEF OursAreMissing, OneOfOurs, NoneOfOurs, JournalIsTrue, IsMissing, IsOurs, Clean, IsScript
  <2>3. SignedIsDue' /\ Undisturbed'
    BY <1>1, <1>3, <2>1 DEF SignedIsDue, Undisturbed, IsMissing, Clean, IsScript
  <2>4. FundsSuffice'
    <3>1. stage \in Late => balance' = balance
      BY DEF Late
    <3>2. /\ Charge(Turns(position))' = Charge(Turns(position))
          /\ Charge(Turns(position - 1))' = Charge(Turns(position - 1))
          /\ FeeOf(Due)' = FeeOf(Due) /\ Maximum(plan)' = Maximum(plan)
      BY <1>1, <1>3, SamePlan, SameDeployment DEF Turns
    <3> QED
      BY <1>1, <2>1, <3>1, <3>2 DEF FundsSuffice
  <2> QED
    BY <2>2, <2>3, <2>4
<1> QED
  BY <1>2, <1>4, <1>5, <1>6, <1>7, SameDeployment DEF PromotionInv, RefusalInv

\* What the operator pays in is a number.
LEMMA FullIs == ASSUME KnownDeployment PROVE Full \in Nat
BY AnyFees, TurnsAre DEF Full, Reserved

\* The invariant holds at first.
LEMMA DeploymentStarts == DeploymentInit => PromotionInv
<1> SUFFICES ASSUME DeploymentInit PROVE PromotionInv
  OBVIOUS
<1>1. KnownDeployment
  BY DeploymentsAreKnown DEF DeploymentInit, KnownDeployment
<1>2. /\ pending = <<>> /\ stage = "rest" /\ position = 0 /\ plan = {} /\ nonce = 0
      /\ awaited = 0 /\ outcome = "none" /\ maximum = 0 /\ spent = 0
      /\ verdict = "none" /\ meddled = FALSE
  BY DEF DeploymentInit
<1>3. balance \in Int
  BY <1>1, FullIs DEF DeploymentInit
<1>4. pending \in Seq(InMempool) /\ DOMAIN pending = {}
  <2>1. pending \in Seq(InMempool) /\ Len(pending) = 0
    BY <1>2, EmptySeq
  <2> QED
    BY <2>1, LenProperties
<1>5. DeploymentTypes
  <2>1. Length \in Nat
    BY <1>1, OperationsAreOps
  <2>2. position \in 0..(Length + 1)
    BY <1>2, <2>1
  <2> QED
    BY <1>1, <1>2, <1>3, <1>4, <2>2 DEF DeploymentTypes, Early
<1>6. WaitsForDue /\ PlanIsComplete /\ DoneSoFar /\ PassedMeansReady
  BY <1>2 DEF WaitsForDue, PlanIsComplete, DoneSoFar, PassedMeansReady, Passed, Late
<1>7. RefusalInv
  BY <1>2, <1>4
  DEF RefusalInv, OursAreMissing, OneOfOurs, NoneOfOurs, JournalIsTrue, SignedIsDue,
      Undisturbed, FundsSuffice, Late
<1> QED
  BY <1>5, <1>6, <1>7 DEF PromotionInv

\* Every step keeps it.
LEMMA DeploymentStays ==
    ASSUME PromotionInv, [DeploymentNext]_deploymentVars PROVE PromotionInv'
<1>0. KnownDeployment /\ balance \in Int
  BY DEF PromotionInv, DeploymentTypes
<1>1. CASE BeginDeployment
  BY <1>1, BeginDeploymentStays
<1>2. CASE RunDeployment
  <2>1. CASE AskMempool
    BY <2>1, AskMempoolStays
  <2>2. CASE InspectSources
    BY <2>2, InspectSourcesStays
  <2>3. CASE ReviewAccount
    BY <2>3, ReviewAccountStays
  <2>4. CASE FetchNonce
    BY <2>4, FetchNonceStays
  <2>5. CASE SkipOperation
    BY <2>5, SkipOperationStays
  <2>6. CASE Resume
    BY <2>6, ResumeStays
  <2>7. CASE Record
    BY <2>7, RecordStays
  <2>8. CASE BroadcastOperation
    BY <2>8, BroadcastOperationStays
  <2>9. CASE RefuseOperation
    BY <2>9, RefuseOperationStays
  <2>10. CASE ConfirmOperation
    BY <2>10, ConfirmOperationStays
  <2>11. CASE TimeOutOperation
    BY <2>11, TimeOutOperationStays
  <2>12. CASE FinishDeployment
    BY <2>12, FinishDeploymentStays
  <2> QED
    BY <1>2, <2>1, <2>2, <2>3, <2>4, <2>5, <2>6, <2>7, <2>8, <2>9, <2>10, <2>11, <2>12
    DEF RunDeployment
<1>3. CASE CrashDeployment
  BY <1>3, CrashDeploymentStays
<1>4. CASE DeploymentNetwork
  <2>1. CASE MineNext
    BY <2>1, MineNextStays
  <2>2. CASE DropStuck \/ DropAny
    <3>1. Open /\ \E n \in DOMAIN pending : Forget(n)
      BY <2>2 DEF DropStuck, DropAny
    <3> QED
      BY <3>1, ForgetStays
  <2> QED
    BY <1>4, <2>1, <2>2 DEF DeploymentNetwork
<1>5. CASE OwnerSends
  BY <1>5, OwnerSendsStays
<1>6. CASE StrangerCreatesJob
  BY <1>0, <1>6, RestingStays DEF StrangerCreatesJob, pastVars
<1>7. CASE TopUp
  <2>1. balance' \in Int /\ stage = "rest"
    BY <1>0, <1>7, FullIs DEF TopUp, Deploying
  <2> QED
    BY <1>7, <2>1, RestingStays DEF TopUp, pastVars
<1>8. CASE UNCHANGED deploymentVars
  BY <1>0, <1>8, RestingStays DEF deploymentVars, chainVars, pastVars
<1> QED
  BY <1>1, <1>2, <1>3, <1>4, <1>5, <1>6, <1>7, <1>8 DEF DeploymentNext

-----------------------------------------------------------------------------
(* Deployments: theorems *)

\* The inductive invariant of every deployment.
THEOREM PromotionInvariant == DeploymentSpec => []PromotionInv
<1>1. DeploymentInit => PromotionInv
  BY DeploymentStarts
<1>2. PromotionInv /\ [DeploymentNext]_deploymentVars => PromotionInv'
  BY DeploymentStays
<1> QED
  BY <1>1, <1>2, PTL DEF DeploymentSpec

\* A deployment script that ends well has left every contract and setting in place.
THEOREM PassedIsReady == DeploymentSpec => []PassedMeansReady
<1>1. PromotionInv => PassedMeansReady
  BY DEF PromotionInv
<1> QED
  BY <1>1, PromotionInvariant, PTL

\* A script that refuses to start with pending transactions, or keeps a journal of
\* what it sends, has no operation twice in the mempool and none that is done.
THEOREM NeverSentTwice == DeploymentSpec => []NothingSentTwice
<1>1. PromotionInv => NothingSentTwice
  <2> SUFFICES ASSUME PromotionInv, RefusesPending PROVE NothingSentTwice
    BY DEF NothingSentTwice
  <2>1. OursAreMissing /\ OneOfOurs
    BY DEF PromotionInv, RefusalInv
  <2> QED
    BY <2>1 DEF NothingSentTwice, OursAreMissing, OneOfOurs, IsOurs
<1> QED
  BY <1>1, PromotionInvariant, PTL

\* The fees reviewed at the start of a run cover all it sends, and unless somebody
\* else spends from the account, what is left covers the transaction it sends next.
LEMMA MaximumCovers ==
    ASSUME PromotionInv, RefusesPending
    PROVE  /\ spent <= maximum
           /\ MaySend /\ ~meddled => balance >= FeeOf(Due)
<1>1. /\ KnownDeployment /\ plan \subseteq ToSet(Operations) /\ FundsSuffice
      /\ position \in 0..(Length + 1) /\ Length \in Nat
      /\ spent \in Nat /\ maximum \in Nat /\ balance \in Int
      /\ stage \in Early \cup Late /\ (stage \in Early => spent = 0 /\ maximum = 0)
      /\ stage \in {"operation", "signed", "wait"} => position > 0
      /\ stage \in {"signed", "wait"} => position <= Length
  BY OperationsAreOps DEF PromotionInv, DeploymentTypes, RefusalInv
<1>2. \A k \in 0..Length : Charge(Turns(k)) <= Maximum(plan) /\ Maximum(plan) \in Nat
  BY <1>1, TurnsAre, ChargeIsReviewed
<1>3. \A k \in 0..Length : Charge(Turns(k)) \in Nat
  BY <1>1, TurnsAre, ChargeIs
<1>4. spent <= maximum
  <2>1. CASE stage \in Early
    BY <1>1, <2>1
  <2>2. CASE stage = "nonce"
    BY <1>1, <2>2 DEF FundsSuffice
  <2>3. CASE stage \in {"operation", "signed"}
    <3>1. position - 1 \in 0..Length /\ spent <= Charge(Turns(position - 1))
      BY <1>1, <2>3 DEF FundsSuffice
    <3>2. maximum = Maximum(plan)
      BY <1>1, <2>3 DEF FundsSuffice, Late
    <3> HIDE DEF Turns, Charge, Maximum
    <3> QED
      BY <1>1, <1>2, <1>3, <3>1, <3>2
  <2>4. CASE stage = "wait"
    <3>1. position \in 0..Length /\ spent <= Charge(Turns(position))
      BY <1>1, <2>4 DEF FundsSuffice
    <3>2. maximum = Maximum(plan)
      BY <1>1, <2>4 DEF FundsSuffice, Late
    <3> QED
      BY <1>1, <1>2, <1>3, <3>1, <3>2
  <2> QED
    BY <1>1, <2>1, <2>2, <2>3, <2>4 DEF Late
<1>5. ASSUME MaySend, ~meddled PROVE balance >= FeeOf(Due)
  <2>1. /\ stage \in {"operation", "signed"} /\ position \in 1..Length
        /\ Due \in plan \/ (~IsScript("fee-test") /\ Due.kind # "deploy")
    <3>1. CASE AtOperation /\ IsNeeded(Due) /\ ~IsScript("fee-test")
      <4>1. Planning
        BY DEF RefusesPending, Planning, IsScript
      <4> QED
        BY <1>1, <3>1, <4>1 DEF AtOperation, At, IsNeeded, NeedsDeploy, Length
    <3>2. CASE At("signed")
      BY <1>1, <3>2 DEF At, PromotionInv, RefusalInv, SignedIsDue
    <3> QED
      BY <1>5, <3>1, <3>2 DEF MaySend
  <2>2. Charge(Turns(position)) = Charge(Turns(position - 1)) + FeeOf(Due)
    BY <1>1, <2>1, DueCharge
  <2>3. /\ Charge(Turns(position)) <= maximum /\ spent <= Charge(Turns(position - 1))
        /\ awaited = 0 /\ maximum = Maximum(plan)
    BY <1>1, <1>2, <2>1 DEF FundsSuffice, Late, PromotionInv, WaitsForDue, DeploymentTypes
  <2>4. balance + spent >= maximum
    BY <1>1, <1>5, <2>1, <2>3 DEF FundsSuffice, Late
  <2>5. FeeOf(Due) \in Nat /\ Charge(Turns(position - 1)) \in Nat
    <3>1. position - 1 \in 0..Length
      BY <1>1, <2>1
    <3> QED
      BY <1>1, <1>3, <2>1, <3>1, DueIs, AnyFees
  <2> QED
    BY <1>1, <2>2, <2>3, <2>4, <2>5
<1> QED
  BY <1>4, <1>5

\* The fees a deployment run reviewed at its start suffice for all it sends.
THEOREM MaximumSuffices == DeploymentSpec => []ReviewedMaximumSuffices
<1>1. PromotionInv => ReviewedMaximumSuffices
  BY MaximumCovers DEF ReviewedMaximumSuffices
<1> QED
  BY <1>1, PromotionInvariant, PTL

=============================================================================
