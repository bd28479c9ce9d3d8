---------------------- MODULE AsyncBlockerManagerProofs ----------------------
(***************************************************************************)
(* Theorems about the blocker manager, for any owners, lockers, batches    *)
(* and numbers of blockers and calls: one lock at a time, and the batch of *)
(* blockers that lock holds.                                               *)
(***************************************************************************)
EXTENDS AsyncBlockerManager, FiniteSetTheorems, TLAPS

USE BlockerAssumption DEF Id, Round, None

----------------------------------------------------------------------------
(* One lock at a time *)

Outside == {"idle", "try", "ready"}

LockerType ==
    /\ locked \in BOOLEAN
    /\ locker \in [Locker -> LockerPC]

\* A locker that comes in finds m_locked unset; one that goes out unsets it.
LEMMA MovesInside ==
    ASSUME LockerType, OneLocked, NEW l \in Locker, NEW p \in LockerPC, locker' = [locker EXCEPT ![l] = p],
           locked' = locked, (p \in Outside) <=> (locker[l] \in Outside)
    PROVE (LockerType /\ OneLocked)'
<1>1. /\ locker'[l] = p /\ locker' \in [Locker -> LockerPC]
      /\ \A k \in Locker : k # l => locker'[k] = locker[k]
  BY DEF LockerType
<1>2. \A k \in Locker : (locker'[k] \in Outside) <=> (locker[k] \in Outside)
  BY <1>1
<1>3. QED BY <1>1, <1>2 DEF LockerType, OneLocked, Outside

LEMMA GoesIn ==
    ASSUME LockerType, OneLocked, NEW l \in Locker, NEW p \in LockerPC, locker' = [locker EXCEPT ![l] = p],
           ~ locked, locked' = TRUE, p \notin Outside
    PROVE (LockerType /\ OneLocked)'
<1>1. /\ locker'[l] = p /\ locker' \in [Locker -> LockerPC]
      /\ \A k \in Locker : k # l => locker'[k] = locker[k]
  BY DEF LockerType
<1>2. \A k \in Locker : locker[k] \in Outside
  BY DEF OneLocked, Outside
<1>3. QED BY <1>1, <1>2 DEF LockerType, OneLocked, Outside

LEMMA GoesOut ==
    ASSUME LockerType, OneLocked, NEW l \in Locker, locker' = [locker EXCEPT ![l] = "idle"],
           locked' = FALSE, locker[l] \notin Outside
    PROVE (LockerType /\ OneLocked)'
<1>1. /\ locker'[l] = "idle" /\ locker' \in [Locker -> LockerPC]
      /\ \A k \in Locker : k # l => locker'[k] = locker[k]
  BY DEF LockerType, LockerPC
<1>2. \A k \in Locker : k # l => locker[k] \in Outside
  BY DEF OneLocked, Outside
<1>3. \A k \in Locker : locker'[k] \in Outside
  BY <1>1, <1>2 DEF Outside
<1>4. QED BY <1>1, <1>3 DEF LockerType, OneLocked, Outside

LEMMA LockStep ==
    ASSUME LockerType, OneLocked, [Next]_vars
    PROVE (LockerType /\ OneLocked)'
<1> USE DEF GoLocker, LeaveLock, Outside, LockerPC
<1>1. ASSUME UNCHANGED <<locked, locker>> PROVE (LockerType /\ OneLocked)'
  BY <1>1 DEF LockerType, OneLocked
<1>2. CASE UNCHANGED vars
  BY <1>1, <1>2 DEF vars, lockers
<1>3. ASSUME NEW c \in Owner, OwnerWaits(c) \/ OwnerCalls(c) PROVE (LockerType /\ OneLocked)'
  BY <1>1, <1>3 DEF OwnerWaits, OwnerCalls, Receive, Check, ReadRequest, Add, Queue,
                    CancelAdd, Remove, Wait, Leave, lockers
<1>4. ASSUME NEW r \in Round, NEW b \in Id, TaskSteps(r, b) PROVE (LockerType /\ OneLocked)'
  BY <1>1, <1>4 DEF TaskSteps, TaskStarts, TaskSyncs, TaskReads, TaskTimesOut, TaskUndoes, lockers
<1>5. ASSUME NEW l \in Locker, LockerWaits(l) \/ LockerCalls(l) PROVE (LockerType /\ OneLocked)'
  <2>1. CASE Call(l)
    BY <2>1, MovesInside DEF Call
  <2>2. CASE NotReady(l)
    BY <2>2, MovesInside DEF NotReady
  <2>3. CASE Already(l)
    BY <2>3, MovesInside DEF Already
  <2>4. CASE Take(l)
    BY <2>4, GoesIn DEF Take
  <2>5. CASE Ready(l)
    BY <2>5, MovesInside DEF Ready
  <2>6. CASE TasksDone(l)
    BY <2>6, MovesInside DEF TasksDone
  <2>7. CASE Sync(l)
    BY <2>7, MovesInside DEF Sync, Step
  <2>8. CASE SyncReads(l)
    BY <2>8, MovesInside DEF SyncReads
  <2>9. CASE Extra(l)
    BY <1>1, <2>9, MovesInside DEF Extra, Step
  <2>10. CASE CancelReady(l)
    BY <2>10, MovesInside DEF CancelReady
  <2>11. CASE CancelLock(l)
    BY <2>11, GoesOut DEF CancelLock, Unlocks, Waiting
  <2>12. CASE Unlock(l)
    BY <2>12, GoesOut DEF Unlock, Unlocks
  <2>13. CASE CloseLock(l)
    BY <1>1, <2>13 DEF CloseLock
  <2>14. QED
    BY <1>5, <2>1, <2>2, <2>3, <2>4, <2>5, <2>6, <2>7, <2>8, <2>9, <2>10, <2>11, <2>12, <2>13
       DEF LockerWaits, LockerCalls
<1>6. QED BY <1>2, <1>3, <1>4, <1>5 DEF Next

\* Only one call of lock is past its locked section, and m_locked says so, however
\* the calls are cancelled.
THEOREM OneLockedEver == Spec => []OneLocked
<1>1. Init => LockerType /\ OneLocked
  BY DEF Init, LockerType, OneLocked, LockerPC
<1>2. LockerType /\ OneLocked /\ [Next]_vars => (LockerType /\ OneLocked)'
  BY LockStep
<1>3. QED BY <1>1, <1>2, PTL DEF Spec

----------------------------------------------------------------------------
(* The blockers to come *)

\* NoLimbo needs that ids are new when they are given, that no two owners wait for
\* one, and that only an owner that has its blocker makes it invalid.
IdInv ==
    /\ nextId \in Nat
    /\ blockers \subseteq Id /\ requests \subseteq Id
    /\ \A b \in blockers \cup requests : b < nextId
    /\ blockers \cap requests = {}
    /\ valid \in [Id -> BOOLEAN]
    /\ owner \in [Owner -> OwnerPC]
    /\ mine \in [Owner -> Id \cup {None}]
    /\ \A c \in Owner :
        /\ owner[c] # "out" <=> mine[c] # None
        /\ owner[c] # "out" => mine[c] < nextId /\ valid[mine[c]]
        /\ \A d \in Owner : mine[c] = mine[d] /\ mine[c] # None => c = d
    /\ \A b \in Id : b >= nextId => valid[b]

LEMMA IdStep ==
    ASSUME IdInv, NoLimbo, [Next]_vars
    PROVE (IdInv /\ NoLimbo)'
<1> USE DEF OwnerPC, GoOwner, Forget
<1>1. ASSUME UNCHANGED <<nextId, blockers, requests, valid, mine, owner>>
      PROVE (IdInv /\ NoLimbo)'
  BY <1>1 DEF IdInv, NoLimbo
<1>2. CASE UNCHANGED vars
  BY <1>1, <1>2 DEF vars, list
\* An owner that has its blocker, and keeps it.
<1>3. ASSUME NEW c \in Owner, NEW p \in {"own", "check", "read"},
             owner[c] \in {"own", "check", "read"} \/ (owner[c] = "queued" /\ mine[c] \in blockers),
             owner' = [owner EXCEPT ![c] = p],
             UNCHANGED <<nextId, blockers, requests, valid, mine>>
      PROVE (IdInv /\ NoLimbo)'
  <2>1. owner'[c] = p /\ \A d \in Owner : d # c => owner'[d] = owner[d]
    BY <1>3 DEF IdInv
  <2>2. owner' \in [Owner -> OwnerPC]
    BY <1>3 DEF IdInv
  <2>3. IdInv'
    BY <1>3, <2>1, <2>2 DEF IdInv
  <2>4. \A d \in Owner : owner'[d] = "queued" => mine'[d] \in requests' \cup blockers'
    BY <1>3, <2>1 DEF NoLimbo
  <2>5. \A b \in requests' : \E d \in Owner : owner'[d] = "queued" /\ mine'[d] = b
    BY <1>3, <2>1 DEF NoLimbo, IdInv
  <2>6. QED BY <2>3, <2>4, <2>5 DEF NoLimbo
<1>4. ASSUME NEW c \in Owner, Receive(c) \/ Check(c) \/ ReadRequest(c) \/ Wait(c) \/ Leave(c)
      PROVE (IdInv /\ NoLimbo)'
  BY <1>3, <1>4 DEF Receive, Check, ReadRequest, Wait, Leave, list
<1>5. ASSUME NEW c \in Owner, Add(c) PROVE (IdInv /\ NoLimbo)'
  <2>1. /\ owner[c] = "out" /\ nextId < MaxId /\ nextId' = nextId + 1
        /\ blockers' = blockers \cup {nextId} /\ UNCHANGED <<requests, valid>>
        /\ \/ UNCHANGED <<owner, mine>>
           \/ owner' = [owner EXCEPT ![c] = "own"] /\ mine' = [mine EXCEPT ![c] = nextId]
    BY <1>5 DEF Add, NewId
  <2>2. nextId \in Id /\ nextId \notin blockers \cup requests
    BY <2>1 DEF IdInv
  <2>3. \A d \in Owner : mine[d] # nextId
    BY <2>2 DEF IdInv
  <2>4. CASE UNCHANGED <<owner, mine>>
    BY <2>1, <2>2, <2>3, <2>4 DEF IdInv, NoLimbo
  <2>5. CASE owner' = [owner EXCEPT ![c] = "own"] /\ mine' = [mine EXCEPT ![c] = nextId]
    <3>1. /\ owner'[c] = "own" /\ mine'[c] = nextId
          /\ \A d \in Owner : d # c => owner'[d] = owner[d] /\ mine'[d] = mine[d]
          /\ owner' \in [Owner -> OwnerPC] /\ mine' \in [Owner -> Id \cup {None}]
      BY <2>2, <2>5 DEF IdInv
    <3>2. IdInv'
      BY <2>1, <2>2, <2>3, <3>1 DEF IdInv
    <3>3. NoLimbo'
      BY <2>1, <2>2, <3>1 DEF IdInv, NoLimbo
    <3>4. QED BY <3>2, <3>3
  <2>6. QED BY <2>1, <2>4, <2>5
<1>6. ASSUME NEW c \in Owner, Queue(c) PROVE (IdInv /\ NoLimbo)'
  <2>1. /\ owner[c] = "out" /\ nextId < MaxId /\ nextId' = nextId + 1
        /\ requests' = requests \cup {nextId} /\ UNCHANGED <<blockers, valid>>
        /\ owner' = [owner EXCEPT ![c] = "queued"] /\ mine' = [mine EXCEPT ![c] = nextId]
    BY <1>6 DEF Queue, NewId
  <2>2. nextId \in Id /\ nextId \notin blockers \cup requests
    BY <2>1 DEF IdInv
  <2>3. \A d \in Owner : mine[d] # nextId
    BY <2>2 DEF IdInv
  <2>4. /\ owner'[c] = "queued" /\ mine'[c] = nextId
        /\ \A d \in Owner : d # c => owner'[d] = owner[d] /\ mine'[d] = mine[d]
        /\ owner' \in [Owner -> OwnerPC] /\ mine' \in [Owner -> Id \cup {None}]
    BY <2>1, <2>2 DEF IdInv
  <2>5. IdInv'
    BY <2>1, <2>2, <2>3, <2>4 DEF IdInv
  <2>6. NoLimbo'
    BY <2>1, <2>2, <2>4 DEF IdInv, NoLimbo
  <2>7. QED BY <2>5, <2>6
<1>7. ASSUME NEW c \in Owner, CancelAdd(c) \/ Remove(c) PROVE (IdInv /\ NoLimbo)'
  <2>1. /\ owner[c] # "out" /\ owner' = [owner EXCEPT ![c] = "out"]
        /\ mine' = [mine EXCEPT ![c] = -1] /\ nextId' = nextId
    BY <1>7 DEF CancelAdd, Remove, list
  <2>2. /\ owner'[c] = "out" /\ mine'[c] = -1
        /\ \A d \in Owner : d # c => owner'[d] = owner[d] /\ mine'[d] = mine[d]
        /\ owner' \in [Owner -> OwnerPC] /\ mine' \in [Owner -> Id \cup {None}]
    BY <2>1 DEF IdInv
  <2>3. mine[c] \in Id /\ \A d \in Owner : d # c => mine[d] # mine[c]
    BY <2>1 DEF IdInv
  <2>4. CASE CancelAdd(c)
    <3>1. /\ owner[c] = "queued" /\ requests' = requests \ {mine[c]}
          /\ UNCHANGED <<blockers, valid>>
      BY <2>4 DEF CancelAdd
    <3>2. IdInv'
      BY <2>1, <2>2, <2>3, <3>1 DEF IdInv
    <3>3. NoLimbo'
      BY <2>2, <2>3, <3>1 DEF NoLimbo
    <3>4. QED BY <3>2, <3>3
  <2>5. CASE Remove(c)
    <3>1. /\ owner[c] = "own" /\ requests' = requests
          /\ \/ valid' = [valid EXCEPT ![mine[c]] = FALSE] /\ UNCHANGED blockers
             \/ blockers' = blockers \ {mine[c]} /\ UNCHANGED valid
      BY <2>5 DEF Remove
    <3>2. /\ valid' \in [Id -> BOOLEAN] /\ blockers' \subseteq blockers
          /\ \A b \in Id : b # mine[c] => valid'[b] = valid[b]
          /\ \A b \in blockers : b # mine[c] => b \in blockers'
      BY <2>3, <3>1 DEF IdInv
    <3>3. IdInv'
      BY <2>1, <2>2, <2>3, <3>1, <3>2 DEF IdInv
    <3>4. NoLimbo'
      BY <2>2, <2>3, <3>1, <3>2 DEF NoLimbo
    <3>5. QED BY <3>3, <3>4
  <2>6. QED BY <1>7, <2>4, <2>5
<1>8. ASSUME Unlocks, UNCHANGED <<owner, mine>> PROVE (IdInv /\ NoLimbo)'
  <2>1. /\ blockers' = {b \in blockers : valid[b]} \cup requests /\ requests' = {}
        /\ UNCHANGED <<valid, nextId>>
    BY <1>8 DEF Unlocks
  <2>2. IdInv'
    BY <1>8, <2>1 DEF IdInv
  <2>3. NoLimbo'
    BY <1>8, <2>1 DEF IdInv, NoLimbo
  <2>4. QED BY <2>2, <2>3
<1>9. ASSUME NEW l \in Locker, LockerWaits(l) \/ LockerCalls(l) PROVE (IdInv /\ NoLimbo)'
  <2>1. CASE CancelLock(l) \/ Unlock(l)
    BY <1>8, <2>1 DEF CancelLock, Unlock
  <2>2. CASE Extra(l)
    BY <1>1, <2>2 DEF Extra, list
  <2>3. CASE Sync(l) \/ SyncReads(l) \/ TasksDone(l) \/ Take(l) \/ Ready(l)
    BY <1>1, <2>3 DEF Sync, SyncReads, TasksDone, Take, Ready, list
  <2>4. CASE Call(l) \/ NotReady(l) \/ Already(l) \/ CancelReady(l) \/ CloseLock(l)
    BY <1>1, <2>4 DEF Call, NotReady, Already, CancelReady, CloseLock, list
  <2>5. QED BY <1>9, <2>1, <2>2, <2>3, <2>4 DEF LockerWaits, LockerCalls
<1>10. ASSUME NEW r \in Round, NEW b \in Id, TaskSteps(r, b) PROVE (IdInv /\ NoLimbo)'
  BY <1>1, <1>10 DEF TaskSteps, TaskStarts, TaskSyncs, TaskReads, TaskTimesOut, TaskUndoes, list
<1>11. QED BY <1>2, <1>4, <1>5, <1>6, <1>7, <1>9, <1>10 DEF Next, OwnerWaits, OwnerCalls

\* A call of add_blocker that waits is served or still in the list, and the list
\* holds nobody else's, however the calls are cancelled and whatever unlock does.
THEOREM NoLimboEver == Spec => []NoLimbo
<1>1. Init => IdInv /\ NoLimbo
  BY DEF Init, IdInv, NoLimbo, OwnerPC
<1>2. IdInv /\ NoLimbo /\ [Next]_vars => (IdInv /\ NoLimbo)'
  BY IdStep
<1>3. QED BY <1>1, <1>2, PTL DEF Spec
----------------------------------------------------------------------------
(* How many blockers there are *)

LEMMA SomeIds ==
    ASSUME NEW S, S \subseteq Id
    PROVE IsFiniteSet(S) /\ Cardinality(S) \in Nat
<1>1. IsFiniteSet(0 .. MaxId - 1)
  BY FS_Interval
<1>2. IsFiniteSet(S)
  BY <1>1, FS_Subset
<1>3. QED BY <1>2, FS_CardinalityType

LEMMA FewerIds ==
    ASSUME NEW S, S \subseteq Id, NEW T, T \subseteq S
    PROVE Cardinality(T) <= Cardinality(S)
BY SomeIds, FS_Subset

LEMMA OneMoreId ==
    ASSUME NEW S, S \subseteq Id, NEW b \in Id, b \notin S
    PROVE Cardinality(S \cup {b}) = Cardinality(S) + 1
BY SomeIds, FS_AddElement

LEMMA OneIdLess ==
    ASSUME NEW S, S \subseteq Id, NEW b \in S
    PROVE Cardinality(S \ {b}) = Cardinality(S) - 1
BY SomeIds, FS_RemoveElement

\* Whatever the configuration, a batch is complete from min_batch blockers on.
LEMMA BatchOf ==
    ASSUME NEW s \in Nat
    PROVE Batch(s) \in Nat /\ (Batch(s) <= s <=> MinBatch <= s)
BY DEF Batch, Larger

----------------------------------------------------------------------------
(* The token of m_ready_ch *)

Alone == \A l, k \in Locker : l = k

Waits == Alone /\ LockerType /\ ready \in BOOLEAN /\ NoLostReady

LEMMA WaitsStays ==
    ASSUME Waits, UNCHANGED <<blockers, ready>>, LockerType',
           \A l \in Locker : locker'[l] = "ready" => locker[l] = "ready"
    PROVE Waits'
BY DEF Waits, Alone, NoLostReady, Enough, Size

LEMMA WaitsStep ==
    ASSUME LockerType, OneLocked, IdInv, NoLimbo, Waits, [Next]_vars
    PROVE Waits'
<1>t. LockerType'
  BY LockStep
<1>s. blockers \subseteq Id /\ Size \in Nat
  BY SomeIds DEF IdInv, Size
<1> USE DEF GoLocker, LeaveLock
<1>1. ASSUME UNCHANGED <<blockers, ready, locker>> PROVE Waits'
  BY <1>1, <1>t, WaitsStays
<1>2. CASE UNCHANGED vars
  BY <1>1, <1>2 DEF vars, list, lockers
<1>3. ASSUME NEW c \in Owner, Add(c) PROVE Waits'
  <2>1. /\ nextId \in Id /\ nextId \notin blockers /\ blockers' = blockers \cup {nextId}
        /\ ready' = (ready \/ Completes) /\ UNCHANGED locker
    BY <1>3 DEF Add, NewId, IdInv, lockers
  <2>2. Size' = Size + 1
    BY <1>s, <2>1, OneMoreId DEF Size
  <2>3. Size' >= MinBatch => Size >= MinBatch \/ Completes
    BY <1>s, <2>2, BatchOf DEF Completes
  <2>4. (Enough <=> Size >= MinBatch) /\ (Enough' <=> Size' >= MinBatch)
    <3>1. (Batch(Size) <= Size <=> MinBatch <= Size) /\ (Batch(Size') <= Size' <=> MinBatch <= Size')
      BY <1>s, <2>2, BatchOf
    <3>2. Enough' <=> Batch(Size') <= Size'
      BY DEF Enough, Batch, Larger
    <3>3. QED BY <1>s, <2>2, <3>1, <3>2 DEF Enough
  <2>5. ready' \in BOOLEAN
    BY <2>1 DEF Waits
  <2>6. NoLostReady'
    BY <2>1, <2>3, <2>4, <2>5 DEF Waits, NoLostReady
  <2>7. QED BY <1>t, <2>5, <2>6 DEF Waits, Alone
<1>4. ASSUME NEW c \in Owner, Remove(c) PROVE Waits'
  <2>1. blockers' \subseteq blockers /\ UNCHANGED <<ready, locker>>
    BY <1>4 DEF Remove, lockers
  <2>2. Size' \in Nat /\ Size' <= Size
    BY <1>s, <2>1, SomeIds, FewerIds DEF Size
  <2>3. Enough' => Enough
    <3>1. (Batch(Size) <= Size <=> MinBatch <= Size) /\ (Batch(Size') <= Size' <=> MinBatch <= Size')
      BY <1>s, <2>2, BatchOf
    <3>2. Enough' <=> Batch(Size') <= Size'
      BY DEF Enough, Batch, Larger
    <3>3. QED BY <1>s, <2>2, <3>1, <3>2 DEF Enough
  <2>4. QED BY <1>t, <2>1, <2>3 DEF Waits, Alone, NoLostReady
<1>5. ASSUME NEW c \in Owner,
             Receive(c) \/ Check(c) \/ ReadRequest(c) \/ Queue(c) \/ CancelAdd(c) \/ Wait(c) \/ Leave(c)
      PROVE Waits'
  BY <1>1, <1>5 DEF Receive, Check, ReadRequest, Queue, CancelAdd, Wait, Leave, list, lockers
<1>6. ASSUME NEW l \in Locker, NotReady(l) PROVE Waits'
  <2>1. ~ Enough /\ UNCHANGED <<blockers, ready>>
    BY <1>6 DEF NotReady, list
  <2>2. ~ Enough'
    BY <2>1 DEF Enough, Size, Batch, Larger
  <2>3. QED BY <1>t, <2>1, <2>2 DEF Waits, Alone, NoLostReady
<1>7. ASSUME NEW l \in Locker, NEW p \in LockerPC \ {"ready"}, locker' = [locker EXCEPT ![l] = p],
             ready' \in BOOLEAN
      PROVE Waits'
  <2>1. \A k \in Locker : locker'[k] # "ready"
    BY <1>7 DEF LockerType, Waits, Alone
  <2>2. QED BY <1>t, <1>7, <2>1 DEF Waits, Alone, NoLostReady
<1>8. ASSUME NEW l \in Locker,
             \/ Call(l) \/ Already(l) \/ Take(l) \/ TasksDone(l) \/ CancelReady(l)
             \/ CancelLock(l) \/ Unlock(l) \/ Ready(l)
      PROVE Waits'
  BY <1>7, <1>8 DEF Call, Already, Take, TasksDone, CancelReady, CancelLock, Unlock, Ready, LockerPC, Waits
<1>9. ASSUME NEW l \in Locker, Sync(l) \/ SyncReads(l) \/ Extra(l) PROVE Waits'
  <2>1. ready' \in BOOLEAN
    BY <1>9 DEF Sync, SyncReads, Extra, Waits
  <2>2. CASE UNCHANGED locker
    BY <1>1, <1>9, <2>2 DEF Sync, SyncReads, Extra, list
  <2>3. CASE \E p \in LockerPC \ {"ready"} : locker' = [locker EXCEPT ![l] = p]
    BY <1>7, <2>1, <2>3
  <2>4. CASE Sync(l)
    BY <2>3, <2>4 DEF Sync, Step, LockerPC
  <2>5. CASE SyncReads(l)
    BY <2>3, <2>5 DEF SyncReads, LockerPC
  <2>6. CASE Extra(l)
    BY <2>2, <2>3, <2>6 DEF Extra, Step, LockerPC
  <2>7. QED BY <1>9, <2>4, <2>5, <2>6
<1>10. ASSUME NEW l \in Locker, CloseLock(l) PROVE Waits'
  BY <1>1, <1>10 DEF CloseLock, list
<1>11. ASSUME NEW r \in Round, NEW b \in Id, TaskSteps(r, b) PROVE Waits'
  BY <1>1, <1>11 DEF TaskSteps, TaskStarts, TaskSyncs, TaskReads, TaskTimesOut, TaskUndoes, list, lockers
<1>12. QED
  BY <1>2, <1>3, <1>4, <1>5, <1>6, <1>8, <1>9, <1>10, <1>11
     DEF Next, OwnerWaits, OwnerCalls, LockerWaits, LockerCalls

\* As long as only one coroutine calls lock, it finds the token of m_ready_ch when
\* the batch is complete, however blockers come and go and calls are cancelled.
THEOREM NoLostReadyEver == Alone /\ Spec => []NoLostReady
<1>1. Alone /\ Init => LockerType /\ OneLocked /\ IdInv /\ NoLimbo /\ Waits
  <2>1. Init => LockerType /\ OneLocked
    BY DEF Init, LockerType, OneLocked, LockerPC
  <2>2. Init => IdInv /\ NoLimbo
    BY DEF Init, IdInv, NoLimbo, OwnerPC
  <2>3. Init => ready \in BOOLEAN /\ NoLostReady
    BY DEF Init, NoLostReady
  <2>4. QED BY <2>1, <2>2, <2>3 DEF Waits
<1>2. LockerType /\ OneLocked /\ IdInv /\ NoLimbo /\ Waits /\ [Next]_vars
        => (LockerType /\ OneLocked /\ IdInv /\ NoLimbo /\ Waits)'
  BY LockStep, IdStep, WaitsStep
<1>3. Waits => NoLostReady
  BY DEF Waits
<1>4. QED BY <1>1, <1>2, <1>3, PTL DEF Spec

----------------------------------------------------------------------------
(* The order in which the blockers are asked *)

Rank(b) == Cardinality({a \in blockers : Before(a, b)})

Ranked ==
    /\ blockers \subseteq Id
    /\ epoch \in [Id -> Nat] /\ prio \in [Id -> Priority]

LEMMA BeforeOrder ==
    ASSUME Ranked, NEW a \in Id, NEW b \in Id, NEW c \in Id
    PROVE /\ ~ Before(a, a)
          /\ a # b => Before(a, b) \/ Before(b, a)
          /\ Before(a, b) /\ Before(b, c) => Before(a, c)
<1>1. /\ epoch[a] \in Nat /\ epoch[b] \in Nat /\ epoch[c] \in Nat
      /\ prio[a] \in Int /\ prio[b] \in Int /\ prio[c] \in Int
  BY DEF Ranked
<1>2. QED BY <1>1 DEF Before

LEMMA RankGrows ==
    ASSUME Ranked, NEW a \in blockers, NEW b \in blockers, Before(a, b)
    PROVE Rank(a) < Rank(b)
<1> DEFINE A == {x \in blockers : Before(x, a)}
           B == {x \in blockers : Before(x, b)}
<1>1. A \subseteq Id /\ B \subseteq Id /\ a \in Id /\ a \notin A /\ a \in B
  BY BeforeOrder DEF Ranked
<1>2. A \cup {a} \subseteq B
  BY <1>1, BeforeOrder DEF Ranked
<1> HIDE DEF A, B
<1>3. Cardinality(A) + 1 <= Cardinality(B)
  <2>1. Cardinality(A \cup {a}) = Cardinality(A) + 1
    BY <1>1, OneMoreId
  <2>2. Cardinality(A \cup {a}) <= Cardinality(B)
    BY <1>1, <1>2, FewerIds
  <2>3. QED BY <2>1, <2>2
<1>4. Cardinality(A) \in Nat /\ Cardinality(B) \in Nat
  BY <1>1, SomeIds
<1>5. QED BY <1>3, <1>4 DEF Rank, A, B

LEMMA RankBound ==
    ASSUME Ranked, NEW b \in blockers
    PROVE Size \in Nat /\ Rank(b) \in 0 .. Size - 1
<1> DEFINE B == {x \in blockers : Before(x, b)}
<1>1. B \subseteq blockers \ {b} /\ B \subseteq Id /\ blockers \subseteq Id /\ blockers \ {b} \subseteq Id
  BY BeforeOrder DEF Ranked
<1> HIDE DEF B
<1>2. Cardinality(B) <= Cardinality(blockers) - 1
  <2>1. Cardinality(blockers \ {b}) = Cardinality(blockers) - 1
    BY <1>1, OneIdLess
  <2>2. Cardinality(B) <= Cardinality(blockers \ {b})
    BY <1>1, FewerIds
  <2>3. QED BY <2>1, <2>2
<1>3. Cardinality(B) \in Nat /\ Cardinality(blockers) \in Nat
  BY <1>1, SomeIds
<1>4. QED BY <1>2, <1>3 DEF Rank, Size, B

\* selects holds every blocker once, at the index of its rank.
LEMMA AtRank ==
    ASSUME Ranked, NEW i \in Nat, i < Size
    PROVE /\ At(i) \in blockers /\ Rank(At(i)) = i
          /\ \A b \in blockers : Rank(b) = i => b = At(i)
<1> DEFINE f == [b \in blockers |-> Rank(b)]
           places == 0 .. Size - 1
<1>1. Size \in Nat
  BY SomeIds DEF Ranked, Size
<1>2. \A a, b \in blockers : Rank(a) = Rank(b) => a = b
  <2>1. SUFFICES ASSUME NEW a \in blockers, NEW b \in blockers, Rank(a) = Rank(b), a # b
                 PROVE FALSE
    OBVIOUS
  <2>2. Before(a, b) \/ Before(b, a)
    BY <2>1, BeforeOrder DEF Ranked
  <2>3. Rank(a) \in Int /\ Rank(b) \in Int
    BY <1>1, RankBound
  <2>4. QED BY <2>1, <2>2, <2>3, RankGrows
<1>3. f \in Injection(blockers, places)
  BY <1>2, RankBound DEF Injection, IsInjective
<1>4. IsFiniteSet(places) /\ Cardinality(places) = Size
  BY <1>1, FS_Interval
<1>5. f \in Surjection(blockers, places)
  BY <1>3, <1>4, FS_Injection DEF Size
<1>6. PICK b \in blockers : f[b] = i
  <2>1. i \in places
    BY <1>1
  <2>2. QED BY <1>5, <2>1 DEF Surjection
<1>7. Rank(b) = i
  BY <1>6
<1>8. \E a \in blockers : Cardinality({x \in blockers : Before(x, a)}) = i
  BY <1>7 DEF Rank
<1>9. At(i) \in blockers /\ Rank(At(i)) = i
  BY <1>8 DEF At, Rank
<1>10. QED BY <1>2, <1>9

----------------------------------------------------------------------------
(* The batch that is held, when no lock is cancelled *)

Agrees(b) == block[b] = blocked[b]
Few == Cardinality({b \in blockers : block[b]}) <= batch

\* Each pass over the blockers leaves something settled behind it: the first that
\* they have answered, the second that only a batch of them is asked to block,
\* the third that they have answered again.
Pass(l) ==
    /\ locker[l] \in {"sync1", "read1", "extra", "sync2", "read2"} => idx < Size
    /\ locker[l] \in {"sync1", "read1", "sync2", "read2"} =>
          \A b \in blockers : Rank(b) < idx => Agrees(b)
    /\ locker[l] = "extra" =>
          /\ \A b \in blockers : Rank(b) >= idx => Agrees(b)
          /\ Cardinality({b \in blockers : Rank(b) < idx /\ block[b]}) <= seen
          /\ Cardinality({b \in blockers : Rank(b) < idx /\ block[b]}) <= batch
    /\ locker[l] \in {"sync2", "read2", "held"} => Few
    /\ locker[l] = "held" => \A b \in blockers : Agrees(b)

Passes == \A l \in Locker : Pass(l)

BatchType ==
    /\ ~ Cancels /\ closed = {}
    /\ block \in [Id -> BOOLEAN] /\ blocked \in [Id -> BOOLEAN]
    /\ epoch \in [Id -> Nat] /\ prio \in [Id -> Priority] /\ nextEpoch \in Nat
    /\ batch \in Nat /\ idx \in Nat /\ seen \in Nat
    /\ round \in [Locker -> Round \cup {0}] /\ rounds \in 0 .. MaxRounds
    /\ task \in [Round -> [Id -> TaskPC]]

\* An owner that has a blocker has one of the list, which has some while it is
\* locked.
Listed ==
    /\ \A c \in Owner : owner[c] \in {"own", "check", "read"} => mine[c] \in blockers
    /\ locked => Size > 0

\* Only a call of lock that waits for its tasks has any.
TasksOfLock ==
    /\ \A l \in Locker : locker[l] # "idle" => round[l] # 0
    /\ \A r \in Round, b \in Id : task[r][b] # "none" =>
          \E l \in Locker : locker[l] = "tasks" /\ round[l] = r

Given == LockerType /\ OneLocked /\ IdInv /\ NoLimbo /\ BatchType

LEMMA TypeStep ==
    ASSUME Given, [Next]_vars
    PROVE BatchType'
<1> USE DEF BatchType, Given
<1>1. CASE UNCHANGED vars
  BY <1>1 DEF vars, handshake, list, lockers
<1>2. ASSUME NEW c \in Owner, OwnerWaits(c) \/ OwnerCalls(c) PROVE BatchType'
  <2>1. UNCHANGED <<block, prio, closed, batch, idx, seen, round, rounds, task>>
    BY <1>2 DEF OwnerWaits, OwnerCalls, Receive, Check, ReadRequest, Add, Queue, CancelAdd,
                Remove, Wait, Leave, handshake, list, lockers
  <2>2. CASE Check(c)
    BY <2>1, <2>2 DEF Check, list
  <2>3. CASE Add(c)
    <3>1. /\ UNCHANGED blocked /\ nextEpoch' = nextEpoch + 1
          /\ epoch' = [epoch EXCEPT ![nextId] = nextEpoch]
      BY <2>3 DEF Add, handshake
    <3>2. epoch' \in [Id -> Nat]
      BY <3>1
    <3>3. QED BY <2>1, <3>1, <3>2
  <2>4. CASE UNCHANGED <<blocked, epoch, nextEpoch>>
    BY <2>1, <2>4
  <2>5. QED
    BY <1>2, <2>2, <2>3, <2>4 DEF OwnerWaits, OwnerCalls, Receive, ReadRequest, Queue,
       CancelAdd, Remove, Wait, Leave, handshake, list
<1>3. ASSUME NEW r \in Round, NEW b \in Id, TaskSteps(r, b) PROVE BatchType'
  <2>1. UNCHANGED <<blocked, epoch, nextEpoch, prio, closed, batch, idx, seen, round, rounds>>
    BY <1>3 DEF TaskSteps, TaskStarts, TaskSyncs, TaskReads, TaskTimesOut, TaskUndoes,
                handshake, list, lockers
  <2>2. block' \in [Id -> BOOLEAN]
    BY <1>3 DEF TaskSteps, TaskStarts, TaskSyncs, TaskReads, TaskTimesOut, TaskUndoes,
                Asks, handshake
  <2>3. \E p \in TaskPC : task' = [task EXCEPT ![r][b] = p]
    BY <1>3 DEF TaskSteps, TaskStarts, TaskSyncs, TaskReads, TaskTimesOut, TaskUndoes,
                GoTask, TaskPC
  <2>4. task' \in [Round -> [Id -> TaskPC]]
    BY <2>3
  <2>5. QED BY <2>1, <2>2, <2>4
<1>4. ASSUME NEW l \in Locker, Call(l) \/ NotReady(l) \/ Already(l) \/ Ready(l) \/ CancelReady(l)
      PROVE BatchType'
  <2>1. UNCHANGED <<block, blocked, epoch, nextEpoch, prio, closed, batch, idx, seen, task>>
    BY <1>4 DEF Call, NotReady, Already, Ready, CancelReady, handshake, list
  <2>2. CASE Call(l)
    BY <2>1, <2>2 DEF Call
  <2>3. CASE rounds' = rounds /\ \E n \in Round \cup {0} : round' = [round EXCEPT ![l] = n]
    BY <2>1, <2>3
  <2>4. CASE UNCHANGED <<round, rounds>>
    BY <2>1, <2>4
  <2>5. QED BY <1>4, <2>2, <2>3, <2>4 DEF NotReady, Already, Ready, CancelReady, LeaveLock
<1>5. ASSUME NEW l \in Locker, Take(l) PROVE BatchType'
  <2>1. Batch(Size) \in Nat
    BY SomeIds, BatchOf DEF IdInv, Size
  <2>2. task' \in [Round -> [Id -> TaskPC]]
    BY <1>5 DEF Take, TaskPC
  <2>3. QED BY <1>5, <2>1, <2>2 DEF Take, handshake, list
<1>6. ASSUME NEW l \in Locker, TasksDone(l) \/ Sync(l) \/ SyncReads(l) PROVE BatchType'
  <2>1. UNCHANGED <<block, blocked, epoch, nextEpoch, prio, closed, batch, round, rounds, task>>
    BY <1>6 DEF TasksDone, Sync, SyncReads, handshake, list
  <2>2. idx' \in Nat /\ seen' \in Nat
    BY <1>6 DEF TasksDone, Sync, SyncReads, Step
  <2>3. QED BY <2>1, <2>2
<1>7. ASSUME NEW l \in Locker, Extra(l) PROVE BatchType'
  <2>1. UNCHANGED <<blocked, epoch, nextEpoch, prio, closed, batch, round, rounds, task>>
    BY <1>7 DEF Extra, list
  <2>2. idx' \in Nat /\ seen' \in Nat
    BY <1>7 DEF Extra, Step
  <2>3. block' = block \/ block' = [block EXCEPT ![At(idx)] = FALSE]
    <3>1. UNCHANGED block \/ Asks(At(idx), FALSE)
      BY <1>7 DEF Extra
    <3>2. QED BY <3>1 DEF Asks
  <2>4. block' \in [Id -> BOOLEAN]
    BY <2>3
  <2>5. QED BY <2>1, <2>2, <2>4
<1>8. ASSUME NEW l \in Locker, Unlock(l) PROVE BatchType'
  <2>1. /\ UNCHANGED <<blocked, prio, closed, rounds, task>>
        /\ batch' = 0 /\ idx' = 0 /\ seen' = 0
        /\ round' = [round EXCEPT ![l] = 0]
        /\ block' = [b \in Id |-> IF b \in blockers THEN FALSE ELSE block[b]]
    BY <1>8 DEF Unlock, Unlocks, LeaveLock, ForgetBatch
  <2>2. \A b \in Id : Cardinality({a \in requests : a < b}) \in Nat
    BY SomeIds DEF IdInv
  <2>3. nextEpoch' \in Nat
    <3>1. nextEpoch' = nextEpoch + Cardinality(requests)
      BY <1>8 DEF Unlock, Unlocks
    <3>2. Cardinality(requests) \in Nat
      BY SomeIds DEF IdInv
    <3>3. QED BY <3>1, <3>2
  <2>4. epoch' \in [Id -> Nat]
    <3> DEFINE place(b) == Cardinality({a \in requests : a < b})
               next(b) == IF b \in requests THEN nextEpoch + place(b)
                          ELSE IF b \in blockers /\ block[b] THEN epoch[b] + 1
                          ELSE epoch[b]
    <3>1. epoch' = [b \in Id |-> next(b)]
      BY <1>8 DEF Unlock, Unlocks
    <3>2. \A b \in Id : place(b) \in Nat
      BY <2>2
    <3> HIDE DEF place
    <3>3. \A b \in Id : next(b) \in Nat
      BY <3>2
    <3> HIDE DEF next
    <3>4. QED BY <3>1, <3>3
  <2>5. QED BY <2>1, <2>3, <2>4
<1>9. ASSUME NEW l \in Locker, CancelLock(l) \/ CloseLock(l) PROVE FALSE
  BY <1>9 DEF CancelLock, CloseLock
<1>10. QED
  BY <1>1, <1>2, <1>3, <1>4, <1>5, <1>6, <1>7, <1>8, <1>9 DEF Next, LockerWaits, LockerCalls

LEMMA ListedStep ==
    ASSUME Given, Listed, [Next]_vars
    PROVE Listed'
<1>s. \A c \in Owner : owner[c] \in OwnerPC
  BY DEF Given, IdInv
<1>1. ASSUME UNCHANGED <<blockers, mine, owner>>, locked' => locked PROVE Listed'
  BY <1>1 DEF Listed, Size
<1>2. CASE UNCHANGED vars
  BY <1>1, <1>2 DEF vars, list
<1>3. ASSUME NEW r \in Round, NEW b \in Id, TaskSteps(r, b) PROVE Listed'
  BY <1>1, <1>3 DEF TaskSteps, TaskStarts, TaskSyncs, TaskReads, TaskTimesOut, TaskUndoes, list
<1>4. ASSUME NEW c \in Owner, NEW p \in OwnerPC, UNCHANGED <<blockers, mine, locked>>,
             owner' = [owner EXCEPT ![c] = p],
             owner[c] \in {"own", "check", "read"} \/ mine[c] \in blockers
      PROVE Listed'
  <2>1. \A d \in Owner : d # c => owner'[d] = owner[d]
    BY <1>4 DEF Given, IdInv
  <2>2. mine[c] \in blockers
    BY <1>4 DEF Listed
  <2>3. QED BY <1>4, <2>1, <2>2 DEF Listed, Size
<1>5. ASSUME NEW c \in Owner, Receive(c) \/ Check(c) \/ ReadRequest(c) \/ Wait(c) \/ Leave(c)
      PROVE Listed'
  BY <1>4, <1>5 DEF Receive, Check, ReadRequest, Wait, Leave, GoOwner, OwnerPC, list
<1>6. ASSUME NEW c \in Owner, Add(c) PROVE Listed'
  <2>1. /\ ~ locked' /\ blockers' = blockers \cup {nextId} /\ nextId \in Id
        /\ \/ UNCHANGED <<owner, mine>>
           \/ owner' = [owner EXCEPT ![c] = "own"] /\ mine' = [mine EXCEPT ![c] = nextId]
    BY <1>6 DEF Add, NewId, GoOwner, Given, IdInv, LockerType
  <2>2. CASE UNCHANGED <<owner, mine>>
    BY <2>1, <2>2 DEF Listed
  <2>3. CASE owner' = [owner EXCEPT ![c] = "own"] /\ mine' = [mine EXCEPT ![c] = nextId]
    <3>1. mine'[c] = nextId /\ \A d \in Owner : d # c => owner'[d] = owner[d] /\ mine'[d] = mine[d]
      BY <2>1, <2>3 DEF Given, IdInv
    <3>2. QED BY <2>1, <3>1 DEF Listed
  <2>4. QED BY <2>1, <2>2, <2>3
<1>7. ASSUME NEW c \in Owner, Queue(c) PROVE Listed'
  <2>1. /\ UNCHANGED <<blockers, locked>>
        /\ owner' = [owner EXCEPT ![c] = "queued"] /\ mine' = [mine EXCEPT ![c] = nextId]
    BY <1>7 DEF Queue, GoOwner
  <2>2. /\ owner'[c] = "queued"
        /\ \A d \in Owner : d # c => owner'[d] = owner[d] /\ mine'[d] = mine[d]
    BY <2>1 DEF Given, IdInv
  <2>3. QED BY <2>1, <2>2 DEF Listed, Size
<1>8. ASSUME NEW c \in Owner, CancelAdd(c) PROVE FALSE
  BY <1>8 DEF CancelAdd, Given, BatchType
<1>9. ASSUME NEW c \in Owner, Remove(c) PROVE Listed'
  <2>1. /\ owner[c] = "own" /\ locked' = locked
        /\ \/ locked /\ UNCHANGED blockers
           \/ ~ locked /\ blockers' = blockers \ {mine[c]}
        /\ owner' = [owner EXCEPT ![c] = "out"] /\ mine' = [mine EXCEPT ![c] = None]
    BY <1>9 DEF Remove, Forget, GoOwner
  <2>2. /\ owner'[c] = "out"
        /\ \A d \in Owner : d # c => owner'[d] = owner[d] /\ mine'[d] = mine[d]
    BY <2>1 DEF Given, IdInv
  <2>3. \A d \in Owner : d # c => mine[d] # mine[c]
    BY <2>1 DEF Given, IdInv
  <2>4. \A d \in Owner : owner'[d] \in {"own", "check", "read"} => mine'[d] \in blockers'
    BY <2>1, <2>2, <2>3 DEF Listed
  <2>5. locked' => Size' > 0
    BY <2>1 DEF Listed, Size
  <2>6. QED BY <2>4, <2>5 DEF Listed
<1>10. ASSUME NEW l \in Locker, Unlock(l) PROVE Listed'
  <2>1. /\ ~ locked' /\ UNCHANGED <<owner, mine>>
        /\ blockers' = {b \in blockers : valid[b]} \cup requests
    BY <1>10 DEF Unlock, Unlocks, Given, LockerType
  <2>2. \A c \in Owner : owner[c] # "out" => valid[mine[c]]
    BY DEF Given, IdInv
  <2>3. QED BY <2>1, <2>2 DEF Listed
<1>11. ASSUME NEW l \in Locker, Take(l) PROVE Listed'
  <2>1. UNCHANGED <<blockers, owner, mine>> /\ Enough
    BY <1>11 DEF Take, list
  <2>2. Size \in Nat
    BY SomeIds DEF Given, IdInv, Size
  <2>3. Size > 0
    BY <2>1, <2>2, BatchOf DEF Enough
  <2>4. QED BY <2>1, <2>3 DEF Listed, Size
<1>12. ASSUME NEW l \in Locker,
              \/ Call(l) \/ NotReady(l) \/ Already(l) \/ Ready(l) \/ CancelReady(l) \/ CloseLock(l)
              \/ TasksDone(l) \/ Sync(l) \/ SyncReads(l) \/ Extra(l)
       PROVE Listed'
  BY <1>1, <1>12 DEF Call, NotReady, Already, Ready, CancelReady, CloseLock, TasksDone, Sync,
                     SyncReads, Extra, list
<1>13. ASSUME NEW l \in Locker, CancelLock(l) PROVE FALSE
  BY <1>13 DEF CancelLock, Given, BatchType
<1>14. QED
  BY <1>2, <1>3, <1>5, <1>6, <1>7, <1>8, <1>9, <1>10, <1>11, <1>12, <1>13
     DEF Next, OwnerWaits, OwnerCalls, LockerWaits, LockerCalls

\* Two calls of lock are not past their locked sections.
LEMMA OneInside ==
    ASSUME OneLocked, NEW l \in Locker, locker[l] \notin Outside
    PROVE locked /\ \A k \in Locker : k # l => locker[k] \in Outside
BY DEF OneLocked, Outside

LEMMA TasksStep ==
    ASSUME Given, TasksOfLock, [Next]_vars
    PROVE TasksOfLock'
<1>t. /\ locker \in [Locker -> LockerPC] /\ round \in [Locker -> Round \cup {0}]
      /\ task \in [Round -> [Id -> TaskPC]]
  BY DEF Given, LockerType, BatchType
<1>1. ASSUME UNCHANGED <<locker, round, task>> PROVE TasksOfLock'
  BY <1>1 DEF TasksOfLock
<1>2. CASE UNCHANGED vars
  BY <1>1, <1>2 DEF vars, lockers
<1>3. ASSUME NEW c \in Owner, OwnerWaits(c) \/ OwnerCalls(c) PROVE TasksOfLock'
  BY <1>1, <1>3 DEF OwnerWaits, OwnerCalls, Receive, Check, ReadRequest, Add, Queue,
                    CancelAdd, Remove, Wait, Leave, lockers
<1>4. ASSUME NEW r \in Round, NEW b \in Id, TaskSteps(r, b) PROVE TasksOfLock'
  <2>1. task[r][b] # "none" /\ UNCHANGED <<locker, round>>
    BY <1>4 DEF TaskSteps, TaskStarts, TaskSyncs, TaskReads, TaskTimesOut, TaskUndoes, lockers
  <2>2. \E p \in TaskPC : task' = [task EXCEPT ![r][b] = p]
    BY <1>4 DEF TaskSteps, TaskStarts, TaskSyncs, TaskReads, TaskTimesOut, TaskUndoes,
                GoTask, TaskPC
  <2>3. \A q \in Round, a \in Id : task'[q][a] # "none" => task[q][a] # "none"
    BY <1>t, <2>1, <2>2
  <2>4. QED BY <2>1, <2>3 DEF TasksOfLock
\* A step of one call of lock that has no tasks, before and after.
<1>5. ASSUME NEW l \in Locker, NEW p \in LockerPC,
             locker[l] # "tasks" \/ task[round[l]] = [b \in Id |-> "none"],
             locker' = [locker EXCEPT ![l] = p], task' = task,
             \A k \in Locker : k # l => round'[k] = round[k],
             p # "idle" => round'[l] # 0
      PROVE TasksOfLock'
  <2>1. locker'[l] = p /\ \A k \in Locker : k # l => locker'[k] = locker[k]
    BY <1>t, <1>5
  <2>2. \A k \in Locker : locker'[k] # "idle" => round'[k] # 0
    BY <1>5, <2>1 DEF TasksOfLock
  <2>3. ASSUME NEW r \in Round, NEW b \in Id, task'[r][b] # "none"
        PROVE \E k \in Locker : locker'[k] = "tasks" /\ round'[k] = r
    <3>1. PICK k \in Locker : locker[k] = "tasks" /\ round[k] = r
      BY <1>5, <2>3 DEF TasksOfLock
    <3>2. k # l
      BY <1>5, <2>3, <3>1
    <3>3. QED BY <1>5, <2>1, <3>1, <3>2
  <2>4. QED BY <2>2, <2>3 DEF TasksOfLock
<1>6. ASSUME NEW l \in Locker, Call(l) PROVE TasksOfLock'
  <2>1. /\ locker[l] = "idle" /\ locker' = [locker EXCEPT ![l] = "try"] /\ task' = task
        /\ round' = [round EXCEPT ![l] = rounds + 1] /\ rounds \in Nat
    BY <1>6 DEF Call, GoLocker, Given, BatchType
  <2>2. round'[l] # 0 /\ \A k \in Locker : k # l => round'[k] = round[k]
    BY <1>t, <2>1
  <2>3. QED BY <1>5, <2>1, <2>2 DEF LockerPC
<1>7. ASSUME NEW l \in Locker, Already(l) \/ Ready(l) \/ CancelReady(l) \/ Unlock(l) PROVE TasksOfLock'
  <2>1. locker[l] # "tasks" /\ locker[l] # "idle" /\ task' = task
    BY <1>7 DEF Already, Ready, CancelReady, Unlock
  <2>2. \/ locker' = [locker EXCEPT ![l] = "idle"] /\ round' = [round EXCEPT ![l] = 0]
        \/ locker' = [locker EXCEPT ![l] = "try"] /\ round' = round
    BY <1>7 DEF Already, Ready, CancelReady, Unlock, LeaveLock, GoLocker
  <2>3. \A k \in Locker : k # l => round'[k] = round[k]
    BY <1>t, <2>2
  <2>4. round[l] # 0
    BY <2>1 DEF TasksOfLock
  <2>5. QED BY <1>5, <2>1, <2>2, <2>3, <2>4 DEF LockerPC
<1>8. ASSUME NEW l \in Locker, NotReady(l) \/ Sync(l) \/ SyncReads(l) \/ Extra(l) PROVE TasksOfLock'
  <2>1. locker[l] # "tasks" /\ locker[l] # "idle" /\ task' = task /\ round' = round
    BY <1>8 DEF NotReady, Sync, SyncReads, Extra
  <2>2. round[l] # 0
    BY <2>1 DEF TasksOfLock
  <2>3. locker' = locker \/ \E p \in LockerPC : locker' = [locker EXCEPT ![l] = p]
    <3>1. CASE NotReady(l)
      BY <3>1 DEF NotReady, GoLocker, LockerPC
    <3>2. CASE Sync(l)
      BY <3>2 DEF Sync, Step, GoLocker, LockerPC
    <3>3. CASE SyncReads(l)
      BY <1>t, <3>3 DEF SyncReads, GoLocker, LockerPC
    <3>4. CASE Extra(l)
      BY <3>4 DEF Extra, Step, GoLocker, LockerPC
    <3>5. QED BY <1>8, <3>1, <3>2, <3>3, <3>4
  <2>4. QED BY <1>1, <1>5, <2>1, <2>2, <2>3
<1>9. ASSUME NEW l \in Locker, Take(l) PROVE TasksOfLock'
  <2>1. /\ locker[l] = "try" /\ ~ locked /\ locker' = [locker EXCEPT ![l] = "tasks"] /\ round' = round
        /\ \E s \in [Id -> TaskPC] : task' = [task EXCEPT ![round[l]] = s]
    BY <1>9 DEF Take, GoLocker, TaskPC
  <2>2. locker'[l] = "tasks" /\ \A k \in Locker : k # l => locker'[k] = locker[k]
    BY <1>t, <2>1
  <2>3. round[l] # 0
    BY <2>1 DEF TasksOfLock
  <2>4. \A k \in Locker : locker'[k] # "idle" => round'[k] # 0
    BY <2>1, <2>2, <2>3 DEF TasksOfLock
  <2>5. \A k \in Locker : locker[k] # "tasks"
    BY <2>1 DEF Given, OneLocked
  <2>6. \A r \in Round, b \in Id : r # round[l] => task'[r][b] = "none"
    BY <1>t, <2>1, <2>5 DEF TasksOfLock
  <2>7. ASSUME NEW r \in Round, NEW b \in Id, task'[r][b] # "none"
        PROVE \E k \in Locker : locker'[k] = "tasks" /\ round'[k] = r
    BY <2>1, <2>2, <2>6, <2>7
  <2>8. QED BY <2>4, <2>7 DEF TasksOfLock
<1>10. ASSUME NEW l \in Locker, TasksDone(l) PROVE TasksOfLock'
  <2>1. /\ locker[l] = "tasks" /\ locker' = [locker EXCEPT ![l] = "sync1"]
        /\ \A b \in Id : task[round[l]][b] = "none"
        /\ UNCHANGED <<round, task>>
    BY <1>10 DEF TasksDone, GoLocker
  <2>2. round[l] \in Round
    BY <1>t, <2>1 DEF TasksOfLock
  <2>3. task[round[l]] = [b \in Id |-> "none"]
    BY <1>t, <2>1, <2>2
  <2>4. /\ "sync1" \in LockerPC /\ round'[l] # 0 /\ task' = task
        /\ \A k \in Locker : k # l => round'[k] = round[k]
    BY <2>1, <2>2 DEF LockerPC
  <2>5. locker' = [locker EXCEPT ![l] = "sync1"]
    BY <2>1
  <2>6. QED BY <1>5, <2>3, <2>4, <2>5
<1>11. ASSUME NEW l \in Locker, CancelLock(l) \/ CloseLock(l) PROVE FALSE
  BY <1>11 DEF CancelLock, CloseLock, Given, BatchType
<1>12. QED
  BY <1>2, <1>3, <1>4, <1>6, <1>7, <1>8, <1>9, <1>10, <1>11 DEF Next, LockerWaits, LockerCalls

LEMMA SameRank ==
    ASSUME UNCHANGED <<blockers, epoch, prio>>
    PROVE Size' = Size /\ \A b : Rank(b)' = Rank(b)
BY DEF Size, Rank, Before

LEMMA PassesOutside ==
    ASSUME \A l \in Locker : locker'[l] \in Outside \cup {"tasks"}
    PROVE Passes'
BY DEF Passes, Pass, Outside

\* A step that takes nobody into a pass, and undoes no answer.
LEMMA PassesStay ==
    ASSUME Passes, UNCHANGED <<block, blockers, epoch, prio, batch, idx, seen>>,
           \A b \in blockers : Agrees(b) => block'[b] = blocked'[b],
           \A l \in Locker : locker'[l] = locker[l] \/ locker'[l] \in Outside \cup {"tasks"}
    PROVE Passes'
<1>1. Size' = Size /\ \A b : Rank(b)' = Rank(b)
  BY SameRank
<1>2. \A b \in blockers : Agrees(b) => Agrees(b)'
  BY DEF Agrees
<1>3. Few => Few'
  BY DEF Few
<1>4. {b \in blockers' : Rank(b)' < idx' /\ block'[b]} = {b \in blockers : Rank(b) < idx /\ block[b]}
  BY <1>1
<1>5. SUFFICES ASSUME NEW l \in Locker PROVE Pass(l)'
  BY DEF Passes
<1>6. CASE locker'[l] \in Outside \cup {"tasks"}
  BY <1>6 DEF Pass, Outside
<1>7. CASE locker'[l] = locker[l]
  <2>1. Pass(l)
    BY DEF Passes
  <2>2. QED BY <1>1, <1>2, <1>3, <1>4, <1>7, <2>1 DEF Pass
<1>8. QED BY <1>6, <1>7

\* A step within a pass: there is no other call in one.
LEMMA PassesMove ==
    ASSUME Given, NEW l \in Locker, locker[l] \notin Outside, NEW p,
           locker' = [locker EXCEPT ![l] = p], Pass(l)'
    PROVE Passes'
<1>1. SUFFICES ASSUME NEW k \in Locker, k # l PROVE Pass(k)'
  BY DEF Passes
<1>2. locker'[k] = locker[k] /\ locker[k] \in Outside
  BY <1>1, OneInside DEF Given, LockerType
<1>3. QED BY <1>2 DEF Pass, Outside

LEMMA GivenRanked ==
    ASSUME Given
    PROVE /\ Ranked /\ Size \in Nat /\ idx \in Nat /\ seen \in Nat /\ batch \in Nat
          /\ \A b \in blockers : Rank(b) \in 0 .. Size - 1
<1>1. Ranked
  BY DEF Given, IdInv, BatchType, Ranked
<1>2. Size \in Nat
  BY SomeIds DEF Given, IdInv, Size
<1>3. QED BY <1>1, <1>2, RankBound DEF Given, BatchType

LEMMA SyncStep ==
    ASSUME Given, Passes, NEW l \in Locker, Sync(l)
    PROVE Passes'
<1>1. /\ locker[l] \in {"sync1", "sync2"} /\ locker[l] \notin Outside
      /\ UNCHANGED <<block, blocked, blockers, epoch, prio, batch>>
  BY DEF Sync, Outside, handshake, list
<1>2. /\ Size' = Size /\ \A b : Rank(b)' = Rank(b) /\ Agrees(b)' = Agrees(b)
      /\ Few' = Few
  BY <1>1, SameRank DEF Agrees, Few
<1>3. /\ idx < Size /\ \A b \in blockers : Rank(b) < idx => Agrees(b)
      /\ locker[l] = "sync2" => Few
  BY <1>1 DEF Passes, Pass
<1>4. /\ Size \in Nat /\ idx \in Nat /\ \A b \in blockers : Rank(b) \in 0 .. Size - 1
      /\ \A b \in blockers : Rank(b) = idx => b = At(idx)
  BY <1>3, GivenRanked, AtRank
<1>5. ASSUME NEW p \in LockerPC, locker' = [locker EXCEPT ![l] = p] PROVE locker'[l] = p
  BY <1>5 DEF Given, LockerType
<1>6. CASE ~ Agrees(At(idx))
  <2>1. /\ locker' = [locker EXCEPT ![l] = IF locker[l] = "sync1" THEN "read1" ELSE "read2"]
        /\ idx' = idx
    BY <1>6 DEF Sync, Agrees, GoLocker
  <2>2. locker'[l] = IF locker[l] = "sync1" THEN "read1" ELSE "read2"
    BY <1>5, <2>1 DEF LockerPC
  <2>3. Pass(l)'
    BY <1>1, <1>2, <1>3, <2>1, <2>2 DEF Pass
  <2>4. QED BY <1>1, <2>1, <2>3, PassesMove
<1>7. CASE Agrees(At(idx))
  <2>1. \A b \in blockers : Rank(b) < idx + 1 => Agrees(b)
    BY <1>3, <1>4, <1>7
  <2>2. Step(l, locker[l])
    BY <1>7 DEF Sync, Agrees
  <2>3. CASE idx + 1 < Size
    <3>1. idx' = idx + 1 /\ locker' = [locker EXCEPT ![l] = locker[l]]
      BY <2>2, <2>3 DEF Step, GoLocker
    <3>2. locker'[l] = locker[l]
      BY <1>1, <1>5, <3>1 DEF LockerPC
    <3>3. Pass(l)'
      BY <1>1, <1>2, <1>3, <2>1, <2>3, <3>1, <3>2 DEF Pass
    <3>4. QED BY <1>1, <3>1, <3>3, PassesMove
  <2>4. CASE ~ (idx + 1 < Size)
    <3>1. /\ idx' = 0 /\ seen' = 0
          /\ locker' = [locker EXCEPT ![l] = IF locker[l] = "sync1" THEN "extra" ELSE "held"]
      BY <1>1, <2>2, <2>4 DEF Step, GoLocker
    <3>2. locker'[l] = IF locker[l] = "sync1" THEN "extra" ELSE "held"
      BY <1>5, <3>1 DEF LockerPC
    <3>3. \A b \in blockers : Agrees(b)
      BY <1>4, <2>1, <2>4
    <3>4. CASE locker[l] = "sync2"
      <4>1. Pass(l)'
        BY <1>1, <1>2, <1>3, <3>2, <3>3, <3>4 DEF Pass
      <4>2. QED BY <1>1, <3>1, <4>1, PassesMove
    <3>5. CASE locker[l] = "sync1"
      <4>1. {b \in blockers' : Rank(b)' < idx' /\ block'[b]} = {}
        BY <1>1, <1>2, <1>4, <3>1
      <4>2. Cardinality({}) = 0
        BY FS_EmptySet
      <4>3. batch' >= 0
        BY <1>1, GivenRanked
      <4>4. Pass(l)'
        BY <1>1, <1>2, <1>3, <1>4, <3>1, <3>2, <3>3, <3>5, <4>1, <4>2, <4>3 DEF Pass
      <4>5. QED BY <1>1, <3>1, <4>4, PassesMove
    <3>6. QED BY <1>1, <3>4, <3>5
  <2>5. QED BY <2>3, <2>4
<1>8. QED BY <1>6, <1>7

LEMMA ReadStep ==
    ASSUME Given, Passes, NEW l \in Locker, SyncReads(l)
    PROVE Passes'
<1>1. /\ locker[l] \in {"read1", "read2"} /\ locker[l] \notin Outside
      /\ UNCHANGED <<block, blocked, blockers, epoch, prio, batch, idx>>
      /\ locker' = [locker EXCEPT ![l] = IF locker[l] = "read1" THEN "sync1" ELSE "sync2"]
  BY DEF SyncReads, Outside, GoLocker, list, Given, BatchType
<1>2. /\ Size' = Size /\ \A b : Rank(b)' = Rank(b) /\ Agrees(b)' = Agrees(b)
      /\ Few' = Few
  BY <1>1, SameRank DEF Agrees, Few
<1>3. locker'[l] = IF locker[l] = "read1" THEN "sync1" ELSE "sync2"
  BY <1>1 DEF Given, LockerType
<1>4. Pass(l)
  BY DEF Passes
<1>5. Pass(l)'
  BY <1>1, <1>2, <1>3, <1>4 DEF Pass
<1>6. QED BY <1>1, <1>5, PassesMove

LEMMA DoneStep ==
    ASSUME Given, Listed, NEW l \in Locker, TasksDone(l)
    PROVE Passes'
<1>1. /\ locker[l] = "tasks" /\ locker[l] \notin Outside /\ idx' = 0
      /\ UNCHANGED <<blockers, epoch, prio>>
      /\ locker' = [locker EXCEPT ![l] = "sync1"]
  BY DEF TasksDone, Outside, GoLocker, list
<1>2. Size' = Size /\ \A b : Rank(b)' = Rank(b)
  BY <1>1, SameRank
<1>3. Size > 0
  BY <1>1, OneInside DEF Given, Listed
<1>4. locker'[l] = "sync1"
  BY <1>1 DEF Given, LockerType
<1>5. \A b \in blockers' : ~ (Rank(b)' < idx')
  BY <1>1, <1>2, GivenRanked
<1>6. Pass(l)'
  BY <1>1, <1>2, <1>3, <1>4, <1>5 DEF Pass
<1>7. QED BY <1>1, <1>6, PassesMove

\* After index idx of the second pass there are no more than a batch, nor more than
\* it has counted, among those it has seen that are still asked to block.
LEMMA ExtraCounts ==
    ASSUME Given, Passes, NEW l \in Locker, Extra(l)
    PROVE LET K == {x \in blockers : Rank(x) < idx + 1 /\ block'[x]}
          IN  /\ Cardinality(K) <= seen + (IF blocked[At(idx)] THEN 1 ELSE 0)
              /\ Cardinality(K) <= batch
              /\ \A x \in blockers : Rank(x) >= idx + 1 => block'[x] = blocked[x]
<1> DEFINE b == At(idx)
           J == {x \in blockers : Rank(x) < idx /\ block[x]}
           K == {x \in blockers : Rank(x) < idx + 1 /\ block'[x]}
<1>1. /\ idx < Size /\ \A x \in blockers : Rank(x) >= idx => Agrees(x)
      /\ Cardinality(J) <= seen /\ Cardinality(J) <= batch
  BY DEF Extra, Passes, Pass
<1>2. /\ Size \in Nat /\ idx \in Nat /\ seen \in Nat /\ batch \in Nat
      /\ \A x \in blockers : Rank(x) \in Int
  BY GivenRanked
<1>3. b \in blockers /\ Rank(b) = idx /\ \A x \in blockers : Rank(x) = idx => x = b
  BY <1>1, <1>2, GivenRanked, AtRank
<1>4. /\ block \in [Id -> BOOLEAN] /\ blocked \in [Id -> BOOLEAN]
      /\ blockers \subseteq Id
  BY DEF Given, BatchType, IdInv
<1>5. block[b] = blocked[b] /\ b \in Id
  <2> HIDE DEF b
  <2>1. Rank(b) >= idx
    BY <1>2, <1>3
  <2>2. Agrees(b)
    BY <1>1, <1>3, <2>1
  <2>3. QED BY <1>3, <1>4, <2>2 DEF Agrees
<1>6. /\ blocked[b] /\ seen >= batch => block' = [block EXCEPT ![b] = FALSE]
      /\ ~ (blocked[b] /\ seen >= batch) => block' = block
  <2>1. IF blocked[b] /\ seen >= batch THEN Asks(b, FALSE) ELSE UNCHANGED <<block, request>>
    BY DEF Extra
  <2> HIDE DEF b
  <2>2. QED BY <2>1 DEF Asks
<1>7. J \subseteq Id /\ Cardinality(J) \in Nat
  BY <1>4, SomeIds
<1>8. \A x \in blockers : x # b => block'[x] = block[x] /\ (Rank(x) < idx + 1 <=> Rank(x) < idx)
  <2>1. ASSUME NEW x \in blockers, x # b PROVE block'[x] = block[x]
    BY <1>4, <1>5, <1>6, <2>1
  <2>2. ASSUME NEW x \in blockers, x # b PROVE Rank(x) < idx + 1 <=> Rank(x) < idx
    BY <1>2, <1>3, <2>2
  <2>3. QED BY <2>1, <2>2
<1> HIDE DEF b
<1>9. CASE ~ block'[b]
  <2>1. K = J
    BY <1>2, <1>3, <1>8, <1>9
  <2> HIDE DEF J, K
  <2>2. Cardinality(K) <= seen + (IF blocked[b] THEN 1 ELSE 0) /\ Cardinality(K) <= batch
    BY <1>1, <1>2, <1>7, <2>1
  <2>3. \A x \in blockers : Rank(x) >= idx + 1 => block'[x] = blocked[x]
    BY <1>1, <1>2, <1>3, <1>8 DEF Agrees
  <2>4. QED BY <2>2, <2>3 DEF b, K
<1>10. CASE block'[b]
  <2>1. blocked[b] /\ seen < batch
    BY <1>2, <1>4, <1>5, <1>6, <1>10
  <2>2. K = J \cup {b} /\ b \notin J
    BY <1>2, <1>3, <1>8, <1>10
  <2> HIDE DEF J, K
  <2>3. Cardinality(K) = Cardinality(J) + 1
    BY <1>5, <1>7, <2>2, OneMoreId
  <2>4. Cardinality(K) <= seen + (IF blocked[b] THEN 1 ELSE 0) /\ Cardinality(K) <= batch
    BY <1>1, <1>2, <1>7, <2>1, <2>3
  <2>5. \A x \in blockers : Rank(x) >= idx + 1 => block'[x] = blocked[x]
    BY <1>1, <1>2, <1>3, <1>8 DEF Agrees
  <2>6. QED BY <2>4, <2>5 DEF b, K
<1>11. QED BY <1>9, <1>10

LEMMA ExtraStep ==
    ASSUME Given, Passes, NEW l \in Locker, Extra(l)
    PROVE Passes'
<1> DEFINE K == {x \in blockers : Rank(x) < idx + 1 /\ block'[x]}
           one == IF blocked[At(idx)] THEN 1 ELSE 0
<1>1. /\ locker[l] = "extra" /\ locker[l] \notin Outside
      /\ UNCHANGED <<blocked, blockers, epoch, prio, batch>>
      /\ \/ /\ idx + 1 < Size /\ idx' = idx + 1 /\ seen' = seen + one /\ UNCHANGED locker
         \/ idx + 1 >= Size /\ Step(l, "extra")
  BY DEF Extra, Outside, list
<1>2. Size' = Size /\ \A b : Rank(b)' = Rank(b)
  BY <1>1, SameRank
<1>3. /\ Cardinality(K) <= seen + one /\ Cardinality(K) <= batch
      /\ \A x \in blockers : Rank(x) >= idx + 1 => block'[x] = blocked'[x]
  BY <1>1, ExtraCounts
<1>4. /\ Size \in Nat /\ idx \in Nat /\ \A x \in blockers : Rank(x) \in 0 .. Size - 1
  BY GivenRanked
<1>5. CASE idx + 1 < Size
  <2>1. idx' = idx + 1 /\ seen' = seen + one /\ locker' = locker
    BY <1>1, <1>4, <1>5
  <2>2. {x \in blockers' : Rank(x)' < idx' /\ block'[x]} = K
    BY <1>1, <1>2, <2>1
  <2> HIDE DEF K, one
  <2>3. Pass(l)'
    BY <1>1, <1>2, <1>3, <1>5, <2>1, <2>2 DEF Pass, Agrees
  <2>4. locker' = [locker EXCEPT ![l] = "extra"]
    BY <1>1, <2>1 DEF Given, LockerType
  <2>5. QED BY <1>1, <2>3, <2>4, PassesMove
<1>6. CASE idx + 1 >= Size
  <2>1. idx' = 0 /\ locker' = [locker EXCEPT ![l] = "sync2"]
    BY <1>1, <1>4, <1>6 DEF Step, GoLocker
  <2>2. locker'[l] = "sync2"
    BY <2>1 DEF Given, LockerType
  <2>3. {x \in blockers' : block'[x]} = K
    BY <1>1, <1>4, <1>6
  <2>4. Few'
    BY <1>1, <1>3, <2>3 DEF Few
  <2>5. Size' > 0 /\ \A x \in blockers' : ~ (Rank(x)' < idx')
    <3>1. idx < Size
      BY <1>1 DEF Passes, Pass
    <3>2. QED BY <1>1, <1>2, <1>4, <2>1, <3>1
  <2>6. Pass(l)'
    BY <2>1, <2>2, <2>4, <2>5 DEF Pass
  <2>7. QED BY <1>1, <2>1, <2>6, PassesMove
<1>7. QED BY <1>4, <1>5, <1>6

LEMMA PassesStep ==
    ASSUME Given, Listed, TasksOfLock, Passes, [Next]_vars
    PROVE Passes'
<1>t. /\ block \in [Id -> BOOLEAN] /\ blocked \in [Id -> BOOLEAN]
      /\ locker \in [Locker -> LockerPC] /\ blockers \subseteq Id
  BY DEF Given, BatchType, IdInv, LockerType
<1>1. ASSUME UNCHANGED <<block, blocked, blockers, epoch, prio, locker, batch, idx, seen>>
      PROVE Passes'
  BY <1>1, PassesStay DEF Agrees
<1>2. CASE UNCHANGED vars
  BY <1>1, <1>2 DEF vars, handshake, list, lockers
<1>3. ASSUME NEW c \in Owner, Receive(c) \/ ReadRequest(c) \/ Queue(c) \/ CancelAdd(c) \/ Wait(c) \/ Leave(c)
      PROVE Passes'
  BY <1>1, <1>3 DEF Receive, ReadRequest, Queue, CancelAdd, Wait, Leave, handshake, list, lockers
<1>4. ASSUME NEW c \in Owner, Check(c) PROVE Passes'
  <2>1. /\ UNCHANGED <<block, blockers, epoch, prio, locker, batch, idx, seen>>
        /\ blocked' = [blocked EXCEPT ![mine[c]] = block[mine[c]]]
    BY <1>4 DEF Check, list, lockers
  <2>2. \A b \in blockers : Agrees(b) => block'[b] = blocked'[b]
    BY <1>t, <2>1 DEF Agrees
  <2>3. QED BY <2>1, <2>2, PassesStay
<1>5. ASSUME NEW c \in Owner, Add(c) \/ Remove(c) PROVE Passes'
  <2>1. CASE locked
    BY <1>1, <1>5, <2>1 DEF Add, Remove, handshake, lockers
  <2>2. CASE ~ locked
    <3>1. locker' = locker
      BY <1>5 DEF Add, Remove, lockers
    <3>2. \A l \in Locker : locker[l] \in Outside
      BY <2>2, OneInside DEF Given
    <3>3. QED BY <3>1, <3>2, PassesOutside
  <2>3. QED BY <2>1, <2>2
<1>6. ASSUME NEW r \in Round, NEW b \in Id, TaskSteps(r, b) PROVE Passes'
  <2>1. task[r][b] # "none" /\ locker' = locker
    BY <1>6 DEF TaskSteps, TaskStarts, TaskSyncs, TaskReads, TaskTimesOut, TaskUndoes, lockers
  <2>2. PICK l \in Locker : locker[l] = "tasks"
    BY <2>1 DEF TasksOfLock
  <2>3. \A k \in Locker : locker[k] \in Outside \cup {"tasks"}
    BY <2>2, OneInside DEF Given, Outside
  <2>4. QED BY <2>1, <2>3, PassesOutside
<1>7. ASSUME NEW l \in Locker, Call(l) \/ NotReady(l) \/ Already(l) \/ Ready(l) \/ CancelReady(l)
      PROVE Passes'
  <2>1. UNCHANGED <<block, blocked, blockers, epoch, prio, batch, idx, seen>>
    BY <1>7 DEF Call, NotReady, Already, Ready, CancelReady, handshake, list
  <2>2. \E p \in Outside : locker' = [locker EXCEPT ![l] = p]
    BY <1>7 DEF Call, NotReady, Already, Ready, CancelReady, GoLocker, LeaveLock, Outside
  <2>3. \A k \in Locker : locker'[k] = locker[k] \/ locker'[k] \in Outside \cup {"tasks"}
    BY <1>t, <2>2
  <2>4. QED BY <2>1, <2>3, PassesStay DEF Agrees
<1>8. ASSUME NEW l \in Locker, Take(l) PROVE Passes'
  <2>1. ~ locked /\ locker' = [locker EXCEPT ![l] = "tasks"]
    BY <1>8 DEF Take, GoLocker
  <2>2. \A k \in Locker : locker[k] \in Outside
    BY <2>1, OneInside DEF Given
  <2>3. \A k \in Locker : locker'[k] \in Outside \cup {"tasks"}
    BY <1>t, <2>1, <2>2
  <2>4. QED BY <2>3, PassesOutside
<1>9. ASSUME NEW l \in Locker, Unlock(l) PROVE Passes'
  <2>1. locker[l] = "held" /\ locker' = [locker EXCEPT ![l] = "idle"]
    BY <1>9 DEF Unlock, LeaveLock, GoLocker
  <2>2. \A k \in Locker : k # l => locker[k] \in Outside
    BY <2>1, OneInside DEF Given, Outside
  <2>3. \A k \in Locker : locker'[k] \in Outside \cup {"tasks"}
    BY <1>t, <2>1, <2>2 DEF Outside
  <2>4. QED BY <2>3, PassesOutside
<1>10. ASSUME NEW l \in Locker, TasksDone(l) \/ Sync(l) \/ SyncReads(l) \/ Extra(l) PROVE Passes'
  BY <1>10, DoneStep, SyncStep, ReadStep, ExtraStep
<1>11. ASSUME NEW l \in Locker, CancelLock(l) \/ CloseLock(l) PROVE FALSE
  BY <1>11 DEF CancelLock, CloseLock, Given, BatchType
<1>12. QED
  BY <1>2, <1>3, <1>4, <1>5, <1>6, <1>7, <1>8, <1>9, <1>10, <1>11
     DEF Next, OwnerWaits, OwnerCalls, LockerWaits, LockerCalls

----------------------------------------------------------------------------
(* What lock promises, when no lock is cancelled *)

BatchInv == Given /\ Listed /\ TasksOfLock /\ Passes

LEMMA BatchInvInit == ~ Cancels /\ Init => BatchInv
<1> SUFFICES ASSUME ~ Cancels, Init PROVE BatchInv
  OBVIOUS
<1>1. LockerType /\ OneLocked
  BY DEF Init, LockerType, OneLocked, LockerPC
<1>2. IdInv /\ NoLimbo
  BY DEF Init, IdInv, NoLimbo, OwnerPC
<1>3. BatchType
  BY DEF Init, BatchType, TaskPC
<1>4. Listed /\ TasksOfLock
  BY DEF Init, Listed, TasksOfLock
<1>5. Passes
  BY DEF Init, Passes, Pass
<1>6. QED BY <1>1, <1>2, <1>3, <1>4, <1>5 DEF BatchInv, Given

LEMMA BatchInvStep == BatchInv /\ [Next]_vars => BatchInv'
<1> SUFFICES ASSUME BatchInv, [Next]_vars PROVE BatchInv'
  OBVIOUS
<1>1. Given /\ Listed /\ TasksOfLock /\ Passes
  BY DEF BatchInv
<1>2. (LockerType /\ OneLocked /\ IdInv /\ NoLimbo)'
  BY <1>1, LockStep, IdStep DEF Given
<1>3. Given'
  BY <1>1, <1>2, TypeStep DEF Given
<1>4. Listed' /\ TasksOfLock' /\ Passes'
  BY <1>1, ListedStep, TasksStep, PassesStep
<1>5. QED BY <1>3, <1>4 DEF BatchInv

LEMMA BatchInvSettled == BatchInv => Settled
BY DEF BatchInv, Passes, Pass, Settled, Held, Agrees

\* While lock is held the blocked blockers are settled: none is on its way in or
\* out, however late the owners answer and whatever the timeouts have undone.
THEOREM SettledEver == ~ Cancels /\ Spec => []Settled
BY BatchInvInit, BatchInvStep, BatchInvSettled, PTL DEF Spec

\* While lock is held no more than a batch of blockers are blocked.
THEOREM BatchHeldEver == ~ Cancels /\ Spec => []BatchHeld
<1>1. BatchInv => BatchHeld
  <2> SUFFICES ASSUME BatchInv, Held PROVE Cardinality({b \in blockers : blocked[b]}) <= batch
    BY DEF BatchHeld
  <2>1. Few /\ \A b \in blockers : Agrees(b)
    BY DEF BatchInv, Passes, Pass, Held
  <2>2. {b \in blockers : blocked[b]} = {b \in blockers : block[b]}
    BY <2>1 DEF Agrees
  <2>3. QED BY <2>1, <2>2 DEF Few
<1>2. QED BY <1>1, BatchInvInit, BatchInvStep, PTL DEF Spec

\* The owner of a blocked blocker does not get past wait_blocker, and no blocker
\* comes or goes, while lock is held.
THEOREM HeldStillEver == ~ Cancels /\ Spec => HeldStill
<1>1. BatchInv /\ [Next]_vars => [Held /\ Held' => UNCHANGED <<blockers, blocked>>]_vars
  <2> SUFFICES ASSUME BatchInv, Next, Held, Held' PROVE UNCHANGED <<blockers, blocked>>
    BY DEF vars, handshake, list
  <2>1. Given /\ Listed /\ \A b \in blockers : Agrees(b)
    BY BatchInvSettled DEF BatchInv, Settled, Agrees
  <2>2. locked /\ \A k \in Locker : locker[k] = "held" \/ locker[k] \in Outside
    BY <2>1, OneInside DEF Held, Outside, Given
  <2>3. ASSUME NEW c \in Owner, Check(c) PROVE UNCHANGED <<blockers, blocked>>
    <3>1. /\ UNCHANGED blockers /\ owner[c] = "check"
          /\ blocked' = [blocked EXCEPT ![mine[c]] = block[mine[c]]]
      BY <2>3 DEF Check, list
    <3>2. block[mine[c]] = blocked[mine[c]]
      BY <2>1, <3>1 DEF Listed, Agrees
    <3>3. QED BY <2>1, <3>1, <3>2 DEF Given, BatchType
  <2>4. ASSUME NEW c \in Owner, OwnerWaits(c) \/ OwnerCalls(c) PROVE UNCHANGED <<blockers, blocked>>
    BY <2>2, <2>3, <2>4 DEF OwnerWaits, OwnerCalls, Receive, ReadRequest, Add, Queue, CancelAdd,
       Remove, Wait, Leave, handshake, list
  <2>5. ASSUME NEW r \in Round, NEW b \in Id, TaskSteps(r, b) PROVE UNCHANGED <<blockers, blocked>>
    BY <2>5 DEF TaskSteps, TaskStarts, TaskSyncs, TaskReads, TaskTimesOut, TaskUndoes, handshake, list
  <2>6. ASSUME NEW l \in Locker, Unlock(l) PROVE FALSE
    <3>1. locker[l] = "held" /\ locker' = [locker EXCEPT ![l] = "idle"]
      BY <2>6 DEF Unlock, LeaveLock, GoLocker
    <3>2. \A k \in Locker : k # l => locker[k] \in Outside
      BY <2>1, <3>1, OneInside DEF Given, Outside
    <3>3. \A k \in Locker : locker'[k] # "held"
      BY <2>1, <3>1, <3>2 DEF Given, LockerType, Outside
    <3>4. QED BY <3>3 DEF Held
  <2>7. ASSUME NEW l \in Locker, CancelLock(l) PROVE FALSE
    BY <2>1, <2>7 DEF CancelLock, Given, BatchType
  <2>8. ASSUME NEW l \in Locker,
               \/ Call(l) \/ NotReady(l) \/ Already(l) \/ Take(l) \/ Ready(l) \/ TasksDone(l)
               \/ Sync(l) \/ SyncReads(l) \/ Extra(l) \/ CancelReady(l) \/ CloseLock(l)
        PROVE UNCHANGED <<blockers, blocked>>
    BY <2>8 DEF Call, NotReady, Already, Take, Ready, TasksDone, Sync, SyncReads, Extra,
                CancelReady, CloseLock, handshake, list
  <2>9. QED BY <2>4, <2>5, <2>6, <2>7, <2>8 DEF Next, LockerWaits, LockerCalls
<1>2. QED BY <1>1, BatchInvInit, BatchInvStep, PTL DEF Spec, HeldStill
=============================================================================
