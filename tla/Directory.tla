------------------------------- MODULE Directory -------------------------------
(***************************************************************************)
(* The directory of participants: wallets whose owners signed a statement  *)
(* are registered through the API (participant-registry.ts), kept in       *)
(* Postgres (participant-store.ts) and counted as independent in the       *)
(* public evidence (participants.ts, transparency.ts).  Two caches of the  *)
(* process sit in between: the set of registered wallets, dropped by a     *)
(* registration and otherwise kept a minute, and the reading of the chain, *)
(* kept a minute and up to thirty when the chain's API fails               *)
(* (snapshot-cache.ts).                                                    *)
(*                                                                         *)
(* Every await is a step: requests and views interleave between them.  An  *)
(* entry is its wallet and the date of its attestation, one of the last    *)
(* thirty days; the other fields, search and pages are left out.  The      *)
(* chain is how far it has grown.                                          *)
(***************************************************************************)
EXTENDS Nothing, Integers, FiniteSets

CONSTANTS
    Wallets,
    Pinned,         \* wallets listed in the repository, constants/participants.ts
    Dates,          \* the dates attestations are signed on
    Requests,       \* registrations that may be under way together
    Views,          \* readings of the directory, likewise
    KeepWallets, KeepSnapshot, KeepStale,   \* the ages caches are used up to
    MaxChain        \* bound on the growth of the chain

\* A date is no placeholder for a missing entry.
ASSUME DatesAssumption == NOTHING \notin Dates

VARIABLES
    rows,           \* wallet -> the date of its entry, or NOTHING
    request,        \* request -> [at, wallet, date], or NOTHING
    listed,         \* the registered wallets whose owners were told so
    walletCache,    \* NOTHING, or the wallets of the store some time ago
    chain,          \* how far the chain has grown
    last, inflight, \* the last good reading, and the readings under way
    view,           \* view -> what it has collected, or NOTHING
    seen            \* the latest reading that was served

storeVars == <<rows, request, listed>>
snapshotVars == <<last, inflight>>
directoryVars == <<storeVars, walletCache, chain, snapshotVars, view, seen>>

-----------------------------------------------------------------------------
(* POST /api/participants *)

AtRequest(r, at) == request[r] # NOTHING /\ request[r].at = at
Proceed(r, at) == request' = [request EXCEPT ![r].at = at]
EndRequest(r) == request' = [request EXCEPT ![r] = NOTHING]

\* The wallet signs with the account it has selected; what the page names is the
\* account that was connected.  The page and the API verify the signature.
verifyParticipantAttestation(wallet, by) == by = wallet

\* The checks of registerParticipant that need no store.
IsAccepted(wallet, by) ==
    verifyParticipantAttestation(wallet, by) /\ wallet \notin Pinned

\* sign on the page, which sends what it has verified itself.
Submit(r, wallet, date, by) ==
    /\ request[r] = NOTHING
    /\ verifyParticipantAttestation(wallet, by) /\ IsAccepted(wallet, by)
    /\ request' = [request EXCEPT ![r] = [at |-> "finding", wallet |-> wallet,
                                          date |-> date]]
    /\ UNCHANGED <<rows, listed, walletCache, chain, snapshotVars, view, seen>>

IsNewer(date, row) == row # NOTHING => date >= row

\* store.get, and the comparison with the date it returns.
Find(r) ==
    /\ AtRequest(r, "finding")
    /\ IF IsNewer(request[r].date, rows[request[r].wallet])
       THEN Proceed(r, "writing") ELSE EndRequest(r)
    /\ UNCHANGED <<rows, listed, walletCache, chain, snapshotVars, view, seen>>

\* store.upsert: the row, and when the database has answered the cache.
Write(r) ==
    /\ AtRequest(r, "writing")
    /\ rows' = [rows EXCEPT ![request[r].wallet] = request[r].date]
    /\ Proceed(r, "written")
    /\ UNCHANGED <<listed, walletCache, chain, snapshotVars, view, seen>>

Cleared_Not == walletCache                                          \* mutant
Cleared == NOTHING
Listed(r) ==
    /\ AtRequest(r, "written")
    /\ walletCache' = Cleared
    /\ listed' = listed \cup {request[r].wallet} /\ EndRequest(r)
    /\ UNCHANGED <<rows, chain, snapshotVars, view, seen>>

\* The database fails, possibly after it has committed.
RequestFails(r) ==
    /\ request[r] # NOTHING /\ EndRequest(r)
    /\ UNCHANGED <<rows, listed, walletCache, chain, snapshotVars, view, seen>>

-----------------------------------------------------------------------------
(* GET /api/participants.json: loadParticipantDirectory *)

AtView(v, at) == view[v] # NOTHING /\ view[v].at = at
SetView(v, entry) == view' = [view EXCEPT ![v] = entry]

IsFresh(entry, age) == entry # NOTHING /\ entry.age < age

\* loadAttestedWallets; due and after are what the view must not fall behind.
Opened ==
    [at |-> "querying", due |-> listed, after |-> seen, attested |-> Pinned,
     excused |-> {}, load |-> NOTHING, stale |-> FALSE, value |-> NOTHING]
OpenView(v) ==
    /\ view[v] = NOTHING
    /\ SetView(v,
         IF IsFresh(walletCache, KeepWallets)
         THEN [Opened EXCEPT !.at = "reading", !.attested = @ \cup walletCache.wallets,
                             !.excused = walletCache.missed]
         ELSE Opened)
    /\ UNCHANGED <<storeVars, walletCache, chain, snapshotVars, seen>>

Registered == {w \in Wallets : rows[w] # NOTHING}

QueryWallets(v) ==
    /\ AtView(v, "querying")
    /\ SetView(v, [view[v] EXCEPT !.at = "filling", !.attested = Registered])
    /\ UNCHANGED <<storeVars, walletCache, chain, snapshotVars, seen>>

\* missed: who was told meanwhile, and is not in the set that is kept from now on.
FillCache(v) ==
    /\ AtView(v, "filling")
    /\ walletCache' = [wallets |-> view[v].attested, age |-> 0,
                       missed |-> listed \ view[v].attested]
    /\ SetView(v, [view[v] EXCEPT !.at = "reading", !.attested = @ \cup Pinned])
    /\ UNCHANGED <<storeVars, chain, snapshotVars, seen>>

\* Without its store the directory counts the pinned wallets.
StoreFails(v) ==
    /\ AtView(v, "querying")
    /\ SetView(v, [view[v] EXCEPT !.at = "reading", !.excused = Wallets])
    /\ UNCHANGED <<storeVars, walletCache, chain, snapshotVars, seen>>

Serve(entry, value) == [entry EXCEPT !.at = "served", !.value = value,
                                     !.load = NOTHING, !.stale = FALSE]
Latest(value) == IF value # NOTHING /\ value > seen THEN value ELSE seen

\* chainCache().get(): the last reading, or one that is shared.
ReadCached(v) ==
    /\ AtView(v, "reading") /\ IsFresh(last, KeepSnapshot)
    /\ SetView(v, Serve(view[v], last.value))
    /\ seen' = Latest(last.value)
    /\ UNCHANGED <<storeVars, walletCache, chain, snapshotVars>>

Joinable == inflight

\* A reading is named by the view that started it.
Load(v) ==
    /\ AtView(v, "reading") /\ ~IsFresh(last, KeepSnapshot)
    /\ LET load == IF Joinable = {} THEN [by |-> v, value |-> NOTHING]
                   ELSE CHOOSE l \in Joinable : TRUE
       IN  /\ inflight' = inflight \cup {load}
           /\ SetView(v, [view[v] EXCEPT !.at = "waiting", !.load = load.by,
                                         !.stale = IsFresh(last, KeepStale)])
    /\ UNCHANGED <<storeVars, walletCache, chain, last, seen>>

\* readChain: the chain as it is at some moment of the reading.
ReadChain(load) ==
    /\ load.value = NOTHING
    /\ inflight' = (inflight \ {load}) \cup {[load EXCEPT !.value = chain]}
    /\ UNCHANGED <<storeVars, walletCache, chain, last, view, seen>>

ViewsWaiting(load) == {v \in Views : AtView(v, "waiting") /\ view[v].load = load.by}

Loaded(load) ==
    /\ load.value # NOTHING
    /\ last' = [value |-> load.value, age |-> 0] /\ inflight' = inflight \ {load}
    /\ view' = [v \in Views |-> IF v \in ViewsWaiting(load)
                                THEN Serve(view[v], load.value) ELSE view[v]]
    /\ seen' = Latest(load.value)
    /\ UNCHANGED <<storeVars, walletCache, chain>>

\* Views that waited get the last reading, by the age it had when they began to.
Fallback(v) == IF view[v].stale THEN last.value ELSE NOTHING
LoadFails(load) ==
    /\ inflight' = inflight \ {load}
    /\ view' = [v \in Views |-> IF v \in ViewsWaiting(load)
                                THEN Serve(view[v], Fallback(v)) ELSE view[v]]
    /\ UNCHANGED <<storeVars, walletCache, chain, last, seen>>

CloseView(v) ==
    /\ AtView(v, "served") /\ SetView(v, NOTHING)
    /\ UNCHANGED <<storeVars, walletCache, chain, snapshotVars, seen>>

-----------------------------------------------------------------------------
Grow ==
    /\ chain < MaxChain /\ chain' = chain + 1
    /\ UNCHANGED <<storeVars, walletCache, snapshotVars, view, seen>>

Older(entry, limit) ==
    IF IsFresh(entry, limit) THEN [entry EXCEPT !.age = @ + 1] ELSE entry
CachesAge ==
    /\ walletCache' = Older(walletCache, KeepWallets)
    /\ last' = Older(last, KeepStale)
    /\ UNCHANGED <<storeVars, chain, inflight, view, seen>>

DirectoryInit ==
    /\ rows = [w \in Wallets |-> NOTHING]
    /\ request = [r \in Requests |-> NOTHING] /\ listed = {}
    /\ walletCache = NOTHING /\ chain = 0
    /\ last = NOTHING /\ inflight = {}
    /\ view = [v \in Views |-> NOTHING] /\ seen = 0

DirectoryNext ==
    \/ \E r \in Requests :
          \/ \E w, by \in Wallets, d \in Dates : Submit(r, w, d, by)
          \/ Find(r) \/ Write(r) \/ Listed(r) \/ RequestFails(r)
    \/ \E v \in Views :
          \/ OpenView(v) \/ QueryWallets(v) \/ FillCache(v) \/ StoreFails(v)
          \/ ReadCached(v) \/ Load(v) \/ CloseView(v)
    \/ \E load \in inflight : ReadChain(load) \/ Loaded(load) \/ LoadFails(load)
    \/ Grow \/ CachesAge

DirectorySpec == DirectoryInit /\ [][DirectoryNext]_directoryVars

-----------------------------------------------------------------------------
(* Properties *)

Served(v) == view[v] # NOTHING /\ view[v].at = "served"

\* A directory that is asked for after an owner was told "You are listed. Your
\* wallet now counts as independent." counts the wallet.  Excused are a store that
\* fails, and a set kept by a query that was under way when the owner was told.
RegisteredIsCounted ==
    \A v \in Views :
        Served(v) => view[v].due \subseteq view[v].attested \cup view[v].excused

\* Whoever asks after somebody was answered is not shown an older chain, whatever
\* readings overlap, fail or are served stale.
NeverBackInTime ==
    \A v \in Views :
        Served(v) /\ view[v].value # NOTHING => view[v].value >= view[v].after

\* What the directory serves is not older than what was said before.
DirectoryIsCurrent == RegisteredIsCounted /\ NeverBackInTime
=============================================================================
