----------------------------- MODULE ReadTransport -----------------------------
(***************************************************************************)
(* createReadTransport of scripts/service-fee-mainnet-core.mjs and of      *)
(* scripts/service-fee-testnet-core.mjs: every observation of the public   *)
(* API goes through one queue per process.  Starts are three seconds       *)
(* apart; a read that is told to slow down (HTTP 429) waits in front of    *)
(* the others and asks again, at most three times, and gives up when the   *)
(* node asks for more than a minute; every request is aborted after twenty *)
(* seconds.                                                                *)
(*                                                                         *)
(* A caller is a call of one of the functions that read, with the number   *)
(* of reads it makes one after the other.  Callers may overlap: nothing in *)
(* the transport relies on a script that waits for each answer.  No caller *)
(* passes an abort signal.  Times are countdowns in seconds; a timer fires *)
(* when its time is over or later.                                         *)
(***************************************************************************)
EXTENDS Integers, Sequences

CONSTANTS
    Callers,
    Spacing,        \* three seconds
    Backoff,        \* five seconds
    LongestWait,    \* a minute
    Patience,       \* AbortSignal.timeout
    Hints,          \* delays a node may ask for in Retry-After
    Unhinted        \* what stands for it where Retry-After is missing or odd:
                    \* a minute, or nothing on testnet where it is missing

ASSUME TimesAssumption ==
    /\ Spacing \in Nat /\ Backoff \in Nat /\ Patience \in Nat
    /\ Hints \cup Unhinted \subseteq Nat

VARIABLES
    queue,          \* the callers whose reads wait for their turn, in order
    caller,         \* caller -> what it does
    age,            \* time since the last start, up to Spacing
    quiet           \* time for which a node that was obeyed wants no request

transportVars == <<queue, caller, age, quiet>>

Longer(a, b) == IF a > b THEN a ELSE b
Less(n) == Longer(n - 1, 0)

\* The reads of nonce (the mempool, then the nonces), of sources (one a source),
\* and of info, account and read.
nonce == 2
sources(n) == n
single == 1
Sizes == {single, nonce, sources(3)}

Resting == [at |-> "resting", left |-> 0, attempt |-> 0, wait |-> 0]
Set(c, entry) == caller' = [caller EXCEPT ![c] = entry]

-----------------------------------------------------------------------------
(* readTransport *)

MayRun_AnyTime(c) == TRUE                                           \* mutant
MayRun(c) == queue # <<>> /\ Head(queue) = c

\* A function of the library is called; its first read is queued.
Call(c, n) ==
    /\ caller[c].at = "resting"
    /\ Set(c, [Resting EXCEPT !.at = "queued", !.left = n])
    /\ queue' = Append(queue, c)
    /\ UNCHANGED <<age, quiet>>

\* The delay is computed before the sleep: nobody else may start meanwhile.
Space(c) ==
    /\ caller[c].at = "queued" \/ (caller[c].at = "cooling" /\ caller[c].wait = 0)
    /\ MayRun(c)
    /\ Set(c, [caller[c] EXCEPT !.at = "spacing", !.wait = Spacing - age])
    /\ UNCHANGED <<queue, age, quiet>>

Start(c) ==
    /\ caller[c].at = "spacing" /\ caller[c].wait = 0
    /\ Set(c, [caller[c] EXCEPT !.at = "out", !.wait = Patience])
    /\ age' = 0
    /\ UNCHANGED <<queue, quiet>>

Leave == queue' = Tail(queue)

\* An answer that the caller accepts; its next read queues up again.
Answer(c) ==
    /\ caller[c].at = "out"
    /\ IF caller[c].left = 1
       THEN Set(c, Resting) /\ Leave
       ELSE /\ Set(c, [Resting EXCEPT !.at = "queued", !.left = caller[c].left - 1])
            /\ queue' = Append(Tail(queue), c)
    /\ UNCHANGED <<age, quiet>>

\* Another status, an answer of the wrong shape, an error of the connection.
Fail(c) ==
    /\ caller[c].at = "out"
    /\ Set(c, Resting) /\ Leave
    /\ UNCHANGED <<age, quiet>>

TimeOut(c) ==
    /\ caller[c].at = "out" /\ caller[c].wait = 0
    /\ Set(c, Resting) /\ Leave
    /\ UNCHANGED <<age, quiet>>

RetryDelay(attempt, asked) == Longer(Backoff * 2 ^ attempt, asked)

\* HTTP 429 with attempts left; asked is what Retry-After says, or stands for it.
SlowDown(c, asked) ==
    LET delay == RetryDelay(caller[c].attempt, asked)
    IN  /\ caller[c].at = "out" /\ caller[c].attempt < 2
        /\ IF delay <= LongestWait
           THEN /\ Set(c, [caller[c] EXCEPT !.at = "cooling", !.wait = delay,
                                            !.attempt = @ + 1])
                /\ quiet' = Longer(quiet, asked)
                /\ UNCHANGED queue
           ELSE Set(c, Resting) /\ Leave /\ UNCHANGED quiet
        /\ UNCHANGED age

SecondPasses ==
    /\ age' = IF age < Spacing THEN age + 1 ELSE age
    /\ quiet' = Less(quiet)
    /\ caller' = [c \in Callers |-> [caller[c] EXCEPT !.wait = Less(@)]]
    /\ UNCHANGED queue

-----------------------------------------------------------------------------
TransportInit ==
    /\ queue = <<>> /\ caller = [c \in Callers |-> Resting]
    /\ age = Spacing /\ quiet = 0

Run(c) ==
    \/ Space(c) \/ Start(c) \/ Answer(c) \/ Fail(c) \/ TimeOut(c)
    \/ \E asked \in Hints \cup Unhinted : SlowDown(c, asked)

TransportNext ==
    \/ \E c \in Callers : Run(c) \/ \E n \in Sizes : Call(c, n)
    \/ SecondPasses

TransportSpec == TransportInit /\ [][TransportNext]_transportVars

-----------------------------------------------------------------------------
(* Properties *)

Starts(c) == caller[c].at # "out" /\ caller'[c].at = "out"

\* No request leaves sooner than three seconds after another, and none leaves while
\* a node that was asked to wait for is to be left alone ("serializes and spaces
\* reads by three seconds, including concurrent callers"; a read that waits to ask
\* again holds up the others).
NodeIsSpared ==
    [][\A c \in Callers : Starts(c) => age = Spacing /\ quiet = 0]_transportVars
=============================================================================
