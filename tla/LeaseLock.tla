----------------------------- MODULE LeaseLock -----------------------------
(***************************************************************************)
(* Stages v0 and v1 of labs/dist-lock/pkg/lock/lock.go: the in-process     *)
(* LockManager, whose locks are leases, and the StorageServer that accepts *)
(* a write only with a token not below the last one it accepted.  Both are *)
(* used by clients that may be paused for any time while they hold a lease *)
(* and that may crash.  Every method holds its server's mutex throughout,  *)
(* so it is one action.                                                    *)
(*                                                                         *)
(* Time is relative: left is what remains of a lease, expiresAt - now, and *)
(* a negative value is a lease that has run out; Tick lets time pass.      *)
(***************************************************************************)
EXTENDS Integers, FiniteSets

CONSTANTS Client, Resource,
          StorageLock,        \* the resource whose lock guards the storage
          TTLs,               \* the TTLs clients ask for
          Key,                \* keys of the storage server
          Nobody,
          MaxTokens           \* bound: leases granted in a run

ASSUME LockAssumption ==
    /\ StorageLock \in Resource /\ Nobody \notin Client
    /\ TTLs \subseteq Nat \ {0} /\ MaxTokens \in Nat

VARIABLES entries,            \* LockManager.entries: a LockEntry per resource
          counter,            \* LockManager.counter
          lastToken, data,    \* StorageServer.lastToken, data
          handle,             \* the lease each client was last granted
          crashed             \* clients that have stopped for good

lockVars == <<entries, counter>>
storageVars == <<lastToken, data>>
vars == <<lockVars, storageVars, handle, crashed>>

-----------------------------------------------------------------------------
\* Mutant: a lookup that finds nothing yields token -1.
NoEntryMutant == [owner |-> Nobody, token |-> -1, left |-> -1]

\* A missing map entry has token 0, which no lease has: AddInt64 starts at 1.
NoEntry == [owner |-> Nobody, token |-> 0, left |-> -1]
NoHandle == [resource |-> StorageLock, token |-> 0, left |-> -1]

\* Mutant: an entry that is never deleted never expires.
NeverExpiresMutant(e) == FALSE

\* Mutant: a lease counts as expired at the instant its holder still trusts it.
IsExpiredMutant(e) == e.left <= 0

\* IsExpired: time.Now().After(e.expiresAt), so not yet at expiresAt itself.
IsExpired(e) == e.left < 0

Held(r) == entries[r].token # 0 /\ ~IsExpired(entries[r])

\* Client c believes that it holds the lock: it was granted a lease, has not
\* released it, and the time it was promised is not over.
Trusts(c) == handle[c].token # 0 /\ handle[c].left >= 0

Init ==
    /\ entries = [r \in Resource |-> NoEntry]
    /\ counter = 0
    /\ lastToken = 0
    /\ data = [k \in Key |-> [value |-> Nobody, token |-> 0]]
    /\ handle = [c \in Client |-> NoHandle]
    /\ crashed = {}

-----------------------------------------------------------------------------
\* Mutant: tokens are counted per entry, and deleted with it.
NextTokenMutant(r) == entries[r].token + 1

\* atomic.AddInt64(&m.counter, 1): one counter for all resources.
NextToken(r) == counter + 1

\* Acquire, granted.  A client here is one caller with one lease at a time; a
\* process with several is several clients.  A refused call changes nothing.
Acquire(c, r, ttl) ==
    /\ c \notin crashed /\ ~Trusts(c)
    /\ ~Held(r)
    /\ counter < MaxTokens
    /\ counter' = counter + 1
    /\ entries' = [entries EXCEPT ![r] =
                     [owner |-> c, token |-> NextToken(r), left |-> ttl]]
    /\ handle' = [handle EXCEPT ![c] =
                     [resource |-> r, token |-> NextToken(r), left |-> ttl]]
    /\ UNCHANGED <<storageVars, crashed>>

\* Mutant: the token is not compared with the current holder's.
ReleasedMutant(c) == entries[handle[c].resource].token # 0

\* The tests of Release: an entry exists and carries the caller's token.
Released(c) == LET e == entries[handle[c].resource]
               IN  e.token # 0 /\ e.token = handle[c].token

\* Release.  Neither the owner nor the expiry is looked at.  The client forgets
\* its lease whatever the answer.
Release(c) ==
    /\ c \notin crashed /\ handle[c].token # 0
    /\ entries' = IF Released(c) THEN [entries EXCEPT ![handle[c].resource] = NoEntry]
                  ELSE entries
    /\ handle' = [handle EXCEPT ![c] = NoHandle]
    /\ UNCHANGED <<counter, storageVars, crashed>>

\* The tests of Renew: the caller's token and owner, and not expired.
Renewable(c) == LET e == entries[handle[c].resource]
                IN  /\ e.token # 0 /\ e.token = handle[c].token /\ e.owner = c
                    /\ ~IsExpired(e)

\* Renew.  The token stays the same.  A refused renewal changes nothing.
Renew(c, ttl) ==
    /\ c \notin crashed /\ handle[c].token # 0
    /\ Renewable(c)
    /\ entries' = [entries EXCEPT ![handle[c].resource].left = ttl]
    /\ handle' = [handle EXCEPT ![c].left = ttl]
    /\ UNCHANGED <<counter, storageVars, crashed>>

\* Mutant: the token is compared with the key's last writer only.
AcceptedMutant(k, token) == token >= data[k].token

\* The test of StorageServer.Write.
Accepted(k, token) == token >= lastToken

\* Write, accepted.  A client writes with the token of its lease on the
\* storage's lock, and may have been paused since that lease ran out.
Write(c, k) ==
    /\ c \notin crashed /\ handle[c].token # 0 /\ handle[c].resource = StorageLock
    /\ Accepted(k, handle[c].token)
    /\ lastToken' = handle[c].token
    /\ data' = [data EXCEPT ![k] = [value |-> c, token |-> handle[c].token]]
    /\ UNCHANGED <<lockVars, handle, crashed>>

\* A client stops; what it holds is never released or renewed.
Crash(c) ==
    /\ c \notin crashed
    /\ crashed' = crashed \cup {c}
    /\ UNCHANGED <<lockVars, storageVars, handle>>

Elapse(left) == IF left >= 0 THEN left - 1 ELSE left

\* One unit of time passes, on the one clock every time.Now() reads.
Tick ==
    /\ entries' = [r \in Resource |-> [entries[r] EXCEPT !.left = Elapse(@)]]
    /\ handle' = [c \in Client |-> [handle[c] EXCEPT !.left = Elapse(@)]]
    /\ UNCHANGED <<counter, storageVars, crashed>>

ClientStep(c) ==
    \/ \E r \in Resource, ttl \in TTLs : Acquire(c, r, ttl)
    \/ Release(c)
    \/ \E ttl \in TTLs : Renew(c, ttl)
    \/ \E k \in Key : Write(c, k)
    \/ Crash(c)

Next == Tick \/ \E c \in Client : ClientStep(c)

\* Time passes; nothing else has to happen.
Spec == Init /\ [][Next]_vars /\ WF_vars(Tick)

-----------------------------------------------------------------------------
(* Properties. *)

\* The kinds of values the two servers and the clients keep.
TypeOK ==
    /\ entries \in [Resource -> [owner : Client \cup {Nobody}, token : Nat, left : Int]]
    /\ counter \in Nat
    /\ lastToken \in Nat
    /\ data \in [Key -> [value : Client \cup {Nobody}, token : Nat]]
    /\ handle \in [Client -> [resource : Resource, token : Nat, left : Int]]
    /\ crashed \subseteq Client

\* Mutual exclusion: two clients never trust a lease on the same resource at
\* the same time, with stale releases, late renewals and expiries in between.
LeaseExclusive ==
    \A c, d \in Client :
        Trusts(c) /\ Trusts(d) /\ handle[c].resource = handle[d].resource => c = d

\* The holder of the storage's lock is never fenced off: whatever earlier
\* holders wrote, and however late, its token is accepted by Write.
HolderCanWrite ==
    \A c \in Client : Trusts(c) /\ handle[c].resource = StorageLock
        => lastToken <= handle[c].token

\* A lease its holder trusts is taken away by nobody else: a step that changes
\* the entry's token is the holder's own release.
KeptUntilExpiry ==
    [][\A c \in Client : Trusts(c) =>
         \/ entries'[handle[c].resource].token = entries[handle[c].resource].token
         \/ handle'[c] = NoHandle]_vars

\* Once a holder has written, no earlier holder's write is accepted, to any key.
FencedWrites ==
    [][lastToken' >= lastToken /\ \A k \in Key : data'[k].token >= data[k].token]_vars

\* Self-healing: the lock of a crashed holder becomes free, whatever the other
\* clients, its former holders among them, keep doing.
SelfHeals ==
    \A r \in Resource :
        entries[r].owner \in crashed ~> (entries[r].owner \notin crashed \/ IsExpired(entries[r]))
=============================================================================
