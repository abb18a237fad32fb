-------------------------- MODULE LeaseLockProofs --------------------------
(***************************************************************************)
(* Mutual exclusion of the leases of labs/dist-lock and the two guarantees *)
(* of its fencing tokens, proved for any clients, resources, TTLs and any  *)
(* number of leases.                                                       *)
(***************************************************************************)
EXTENDS LeaseLock, TLAPS

\* No token in use is ahead of the counter that issues them.
TokensIssued ==
    /\ \A r \in Resource : entries[r].token <= counter
    /\ \A c \in Client : handle[c].token <= counter
    /\ lastToken <= counter
    /\ \A k \in Key : data[k].token <= lastToken

\* A token belongs to one client.
TokensUnique ==
    \A c, d \in Client : handle[c].token = handle[d].token /\ handle[c].token # 0 => c = d

\* While a client trusts its lease the manager has it, with the same expiry.
TrustedIsEntry ==
    \A c \in Client : Trusts(c) =>
        /\ entries[handle[c].resource].token = handle[c].token
        /\ entries[handle[c].resource].left = handle[c].left

\* The entry of a resource is the newest lease on it.
EntryNewest ==
    \A c \in Client : entries[handle[c].resource].token # 0 =>
        handle[c].token <= entries[handle[c].resource].token

\* The storage has accepted nothing newer than the lease on its lock.
StorageBehind ==
    entries[StorageLock].token # 0 => lastToken <= entries[StorageLock].token

\* The inductive invariant.
LockInv ==
    /\ TypeOK /\ TokensIssued /\ TokensUnique /\ TrustedIsEntry
    /\ EntryNewest /\ StorageBehind

-----------------------------------------------------------------------------
LEMMA LockInvInit == Init => LockInv
  BY LockAssumption DEF Init, LockInv, TypeOK, TokensIssued, TokensUnique, TrustedIsEntry,
     EntryNewest, StorageBehind, Trusts, NoEntry, NoHandle

\* Two trusted leases on one resource are the manager's one entry.
LEMMA LockInvExclusive == LockInv => LeaseExclusive
  BY DEF LockInv, LeaseExclusive, TokensUnique, TrustedIsEntry, Trusts

\* A trusted lease on the storage's lock is the entry StorageBehind speaks of.
LEMMA LockInvHolderCanWrite == LockInv => HolderCanWrite
  BY DEF LockInv, HolderCanWrite, StorageBehind, TrustedIsEntry, Trusts

LEMMA AcquireStep ==
    ASSUME LockInv, NEW c \in Client, NEW r \in Resource, NEW ttl \in TTLs, Acquire(c, r, ttl)
    PROVE  LockInv'
<1> USE LockAssumption DEF LockInv, Acquire, NextToken, storageVars
<1>1. TypeOK'
  BY DEF TypeOK
<1>2. TokensIssued' /\ TokensUnique'
  BY DEF TypeOK, TokensIssued, TokensUnique
<1>3. \A d \in Client : Trusts(d) => handle[d].resource # r
  BY DEF TrustedIsEntry, Trusts, Held, IsExpired, TypeOK
<1>4. TrustedIsEntry'
  BY <1>3 DEF TypeOK, TrustedIsEntry, Trusts
<1>5. EntryNewest'
  BY DEF TypeOK, TokensIssued, EntryNewest
<1>6. StorageBehind'
  BY DEF TypeOK, TokensIssued, StorageBehind
<1> QED
  BY <1>1, <1>2, <1>4, <1>5, <1>6

LEMMA ReleaseStep ==
    ASSUME LockInv, NEW c \in Client, Release(c)
    PROVE  LockInv'
<1> USE LockAssumption DEF LockInv, Release, NoEntry, NoHandle, storageVars
<1>1. TypeOK'
  BY DEF TypeOK
<1>2. TokensIssued' /\ TokensUnique'
  BY DEF TypeOK, TokensIssued, TokensUnique
<1>3. \A d \in Client : Trusts(d) /\ d # c => ~Released(c) \/ handle[d].resource # handle[c].resource
  BY DEF TrustedIsEntry, TokensUnique, Trusts, Released, TypeOK
<1>4. TrustedIsEntry'
  BY <1>3 DEF TypeOK, TrustedIsEntry, Trusts
<1>5. EntryNewest'
  BY DEF TypeOK, EntryNewest
<1>6. StorageBehind'
  BY DEF TypeOK, StorageBehind
<1> QED
  BY <1>1, <1>2, <1>4, <1>5, <1>6

LEMMA RenewStep ==
    ASSUME LockInv, NEW c \in Client, NEW ttl \in TTLs, Renew(c, ttl)
    PROVE  LockInv'
<1> USE LockAssumption DEF LockInv, Renew, Renewable, storageVars
<1>1. TypeOK'
  BY DEF TypeOK
<1>2. /\ \A d \in Client : /\ handle'[d].token = handle[d].token
                           /\ handle'[d].resource = handle[d].resource
      /\ \A r \in Resource : entries'[r].token = entries[r].token
  BY DEF TypeOK
<1>3. TokensIssued' /\ TokensUnique' /\ EntryNewest' /\ StorageBehind'
  BY <1>2 DEF TypeOK, TokensIssued, TokensUnique, EntryNewest, StorageBehind
<1>4. TrustedIsEntry'
  BY <1>2 DEF TypeOK, TrustedIsEntry, TokensUnique, Trusts
<1> QED
  BY <1>1, <1>3, <1>4

LEMMA WriteStep ==
    ASSUME LockInv, NEW c \in Client, NEW k \in Key, Write(c, k)
    PROVE  LockInv'
<1> USE LockAssumption DEF LockInv, Write, Accepted, lockVars
<1>1. TypeOK'
  BY DEF TypeOK
<1>2. TokensIssued'
  BY DEF TypeOK, TokensIssued
<1>3. TokensUnique' /\ TrustedIsEntry' /\ EntryNewest'
  BY DEF TokensUnique, TrustedIsEntry, EntryNewest, Trusts
<1>4. StorageBehind'
  BY DEF TypeOK, EntryNewest, StorageBehind
<1> QED
  BY <1>1, <1>2, <1>3, <1>4

LEMMA TickStep ==
    ASSUME LockInv, Tick
    PROVE  LockInv'
<1> USE LockAssumption DEF LockInv, Tick, storageVars
<1>1. TypeOK'
  <2>1. \A i \in Int : Elapse(i) \in Int
    BY DEF Elapse
  <2>2. entries' \in [Resource -> [owner : Client \cup {Nobody}, token : Nat, left : Int]]
    <3> DEFINE Entry == [owner : Client \cup {Nobody}, token : Nat, left : Int]
    <3>1. ASSUME NEW e \in Entry PROVE [e EXCEPT !.left = Elapse(e.left)] \in Entry
      BY <2>1
    <3>2. \A r \in Resource : entries[r] \in Entry
      BY DEF TypeOK
    <3> HIDE DEF Entry
    <3> QED
      BY <3>1, <3>2 DEF Entry
  <2>3. handle' \in [Client -> [resource : Resource, token : Nat, left : Int]]
    BY <2>1 DEF TypeOK
  <2> QED
    BY <2>2, <2>3 DEF TypeOK
<1>2. /\ \A d \in Client : /\ handle'[d].token = handle[d].token
                           /\ handle'[d].resource = handle[d].resource
                           /\ handle'[d].left = Elapse(handle[d].left)
      /\ \A r \in Resource : /\ entries'[r].token = entries[r].token
                             /\ entries'[r].left = Elapse(entries[r].left)
  BY DEF TypeOK
<1>3. TokensIssued' /\ TokensUnique' /\ EntryNewest' /\ StorageBehind'
  BY <1>2, SMTT(30) DEF TypeOK, TokensIssued, TokensUnique, EntryNewest, StorageBehind
<1>4. TrustedIsEntry'
  BY <1>2 DEF TypeOK, TrustedIsEntry, Trusts, Elapse
<1> QED
  BY <1>1, <1>3, <1>4

LEMMA LockInvNext == LockInv /\ [Next]_vars => LockInv'
<1> SUFFICES ASSUME LockInv, [Next]_vars PROVE LockInv'
  OBVIOUS
<1>1. CASE Tick
  BY <1>1, TickStep
<1>2. ASSUME NEW c \in Client, Crash(c) PROVE LockInv'
  BY <1>2 DEF LockInv, Crash, lockVars, storageVars, TypeOK, TokensIssued, TokensUnique,
     TrustedIsEntry, EntryNewest, StorageBehind, Trusts
<1>3. CASE \E c \in Client : ClientStep(c)
  BY <1>2, <1>3, AcquireStep, ReleaseStep, RenewStep, WriteStep DEF ClientStep
<1>4. CASE UNCHANGED vars
  BY <1>4 DEF vars, LockInv, lockVars, storageVars, TypeOK, TokensIssued, TokensUnique,
     TrustedIsEntry, EntryNewest, StorageBehind, Trusts
<1> QED
  BY <1>1, <1>3, <1>4 DEF Next

\* The lock manager, the storage server and the clients keep values of their
\* types through every method.
THEOREM LockType == Spec => []TypeOK
<1>1. LockInv => TypeOK
  BY DEF LockInv
<1> QED
  BY <1>1, LockInvInit, LockInvNext, PTL DEF Spec

\* Acquire, Release, Renew and the passing of time never let two clients trust
\* a lease on one resource at once.
THEOREM LockExclusive == Spec => []LeaseExclusive
  BY LockInvInit, LockInvNext, LockInvExclusive, PTL DEF Spec

\* Write never rejects the client that holds the storage's lock.
THEOREM LockHolderCanWrite == Spec => []HolderCanWrite
  BY LockInvInit, LockInvNext, LockInvHolderCanWrite, PTL DEF Spec

-----------------------------------------------------------------------------
\* The steps of KeptUntilExpiry and FencedWrites.
KeepsLeases ==
    \A c \in Client : Trusts(c) =>
        \/ entries'[handle[c].resource].token = entries[handle[c].resource].token
        \/ handle'[c] = NoHandle

KeepsOrder == lastToken' >= lastToken /\ \A k \in Key : data'[k].token >= data[k].token

LEMMA NextKeepsLeases == LockInv /\ [Next]_vars => [KeepsLeases]_vars
<1> SUFFICES ASSUME LockInv, Next PROVE KeepsLeases
  OBVIOUS
<1> USE LockAssumption DEF LockInv
<1>1. CASE Tick
  BY <1>1 DEF Tick, KeepsLeases, TypeOK
<1>2. ASSUME NEW c \in Client, NEW r \in Resource, NEW ttl \in TTLs, Acquire(c, r, ttl)
      PROVE  KeepsLeases
  <2>1. \A d \in Client : Trusts(d) => handle[d].resource # r
    BY <1>2 DEF Acquire, TrustedIsEntry, Trusts, Held, IsExpired, TypeOK
  <2> QED
    BY <1>2, <2>1 DEF Acquire, KeepsLeases, TypeOK
<1>3. ASSUME NEW c \in Client, Release(c) PROVE KeepsLeases
  <2>1. \A d \in Client : Trusts(d) /\ d # c =>
           ~Released(c) \/ handle[d].resource # handle[c].resource
    BY DEF TrustedIsEntry, TokensUnique, Trusts, Released, TypeOK
  <2> QED
    BY <1>3, <2>1 DEF Release, KeepsLeases, TypeOK
<1>4. ASSUME NEW c \in Client, NEW ttl \in TTLs, Renew(c, ttl) PROVE KeepsLeases
  BY <1>4 DEF Renew, KeepsLeases, TypeOK
<1>5. ASSUME NEW c \in Client, Crash(c) \/ \E k \in Key : Write(c, k) PROVE KeepsLeases
  BY <1>5 DEF Write, Crash, KeepsLeases, lockVars
<1> QED
  BY <1>1, <1>2, <1>3, <1>4, <1>5 DEF Next, ClientStep

LEMMA NextKeepsOrder == LockInv /\ [Next]_vars => [KeepsOrder]_vars
<1> SUFFICES ASSUME LockInv, Next PROVE KeepsOrder
  OBVIOUS
<1>1. ASSUME NEW c \in Client, NEW k \in Key, Write(c, k) PROVE KeepsOrder
  BY <1>1 DEF LockInv, TypeOK, TokensIssued, Write, Accepted, KeepsOrder
<1>2. CASE UNCHANGED storageVars
  BY <1>2 DEF LockInv, TypeOK, storageVars, KeepsOrder
<1> QED
  BY <1>1, <1>2 DEF Next, ClientStep, Tick, Acquire, Release, Renew, Crash

\* A lease a client trusts disappears only by that client's own Release, so a
\* stale Release or Acquire never evicts it.
THEOREM LockKept == Spec => KeptUntilExpiry
  BY LockInvInit, LockInvNext, NextKeepsLeases, PTL DEF Spec, KeptUntilExpiry, KeepsLeases

\* Write accepts tokens in the order the leases were granted, over all keys.
THEOREM LockFencedWrites == Spec => FencedWrites
  BY LockInvInit, LockInvNext, NextKeepsOrder, PTL DEF Spec, FencedWrites, KeepsOrder
=============================================================================
