------------------------- MODULE GrallocStack_proofs -------------------------
(***************************************************************************)
(* For any threads, requests, addresses and usages: what a client locks    *)
(* through the legacy module keeps what backs it, and the planes it gets   *)
(* are those of the mapper and lie in the object the allocator asked for.  *)
(***************************************************************************)
EXTENDS GrallocStack, FiniteSetTheorems, TLAPS

-----------------------------------------------------------------------------
(* Alignment. *)

LEMMA AlignFacts ==
    ASSUME NEW v \in Nat
    PROVE  /\ Align(v, 16) \in Nat /\ Align(v, 16) >= v
           /\ Align(v, 32) \in Nat /\ Align(v, 32) >= v
BY DEF Align

(* What is aligned to 32 when doubled is twice what is aligned to 16. *)
LEMMA AlignDoubled ==
    ASSUME NEW v \in Nat
    PROVE  Align(2 * v, 32) = 2 * Align(v, 16)
BY DEF Align

(* The products of sizes and strides are compared by this alone. *)
LEMMA Monotone ==
    ASSUME NEW a \in Nat, NEW b \in Nat, NEW c \in Nat, a <= b
    PROVE  a * c <= b * c /\ a * c \in Nat
OBVIOUS

-----------------------------------------------------------------------------
(* The planes of a lock and of the metadata agree for every size. *)
LEMMA PlanesAgree ==
    ASSUME NEW format \in YuvFormats, NEW width \in Nat \ {0}, NEW height \in Nat \ {0}
    PROVE  LayoutsAgree(format, width, height)
<1>1. CASE format = "YV12"
  BY <1>1 DEF LayoutsAgree, LockedPlanes, get_plane_layouts, Ycbcr, Layout, Interleaved
<1>2. CASE format = "YCrCb_420_SP"
  BY <1>2 DEF LayoutsAgree, LockedPlanes, get_plane_layouts, Ycbcr, Layout, Interleaved
<1>3. CASE format \in Interleaved
  BY <1>3 DEF LayoutsAgree, LockedPlanes, get_plane_layouts, Ycbcr, Layout, Interleaved
<1> QED
  BY <1>1, <1>2, <1>3 DEF YuvFormats, Planar420, Interleaved

Even(format, width, height) == format = "YV12" => width % 2 = 0 /\ height % 2 = 0

(* A planar object of any stride that holds its rows holds its planes. *)
LEMMA PlanesFitPlanar ==
    ASSUME NEW format \in Planar420, NEW width \in Nat \ {0}, NEW height \in Nat \ {0},
           Even(format, width, height),
           NEW stride \in Nat, stride >= Align(2 * GbmWidth(format, width), 32)
    PROVE  PlanesFit(format, width, height, stride)
<1> DEFINE L == get_plane_layouts(format, width, height)
<1>1. CASE format = "YV12"
  <2> DEFINE a == width \div 2
             b == height \div 2
             half == Align(a, 16)
  <2>1. /\ a \in Nat /\ b \in Nat /\ a >= 1 /\ b >= 1
        /\ width = 2 * a /\ height = 2 * b
    BY <1>1 DEF Even
  <2>2. half \in Nat /\ half >= a /\ stride >= 2 * half
    BY <1>1, <2>1, AlignFacts, AlignDoubled DEF GbmWidth
  <2> HIDE DEF half, a, b
  <2>3. /\ a * b \in Nat /\ half * b \in Nat /\ stride * b \in Nat
        /\ a * b <= half * b
        /\ 2 * (half * b) <= stride * b
    <3>1. (2 * half) * b <= stride * b
      BY <2>1, <2>2, Monotone, 2 * half \in Nat
    <3> QED
      BY <2>1, <2>2, <3>1, Monotone
  <2>4. /\ GbmHeight(format, height) = 3 * b
        /\ stride * GbmHeight(format, height) = 3 * (stride * b)
    BY <1>1, <2>1, <2>2 DEF GbmHeight
  <2>5. /\ L.Y  = Layout(0, 8, width, width, height)
        /\ L.CR = Layout(width * height, 8, half, a, b)
        /\ L.CB = Layout(width * height + (half * height) \div 2, 8, half, a, b)
    BY <1>1 DEF get_plane_layouts, half, a, b
  <2>6. /\ width * height = 4 * (a * b)
        /\ (half * height) \div 2 = half * b
    BY <2>1, <2>2, <2>3
  <2>7. (b - 1) * half = half * b - half
    BY <2>1, <2>2
  <2>8. (height - 1) * width = 4 * (a * b) - width
    BY <2>1, <2>6
  <2>9. ((width - 1) * 8) \div 8 = width - 1 /\ ((a - 1) * 8) \div 8 = a - 1
    BY <2>1
  <2>10. EndOf(L.Y) <= stride * GbmHeight(format, height)
    BY <2>1, <2>2, <2>3, <2>4, <2>5, <2>8, <2>9 DEF EndOf, Layout
  <2>11. ASSUME NEW first \in Nat, first <= 4 * (a * b) + half * b
         PROVE  EndOf(Layout(first, 8, half, a, b)) <= stride * GbmHeight(format, height)
    <3>1. EndOf(Layout(first, 8, half, a, b)) = first + (half * b - half) + (a - 1) + 1
      BY <2>7, <2>9 DEF EndOf, Layout
    <3> QED
      BY <2>1, <2>2, <2>3, <2>4, <2>11, <3>1
  <2>12. EndOf(L.CR) <= stride * GbmHeight(format, height)
    BY <2>1, <2>2, <2>3, <2>5, <2>6, <2>11
  <2>13. EndOf(L.CB) <= stride * GbmHeight(format, height)
    BY <2>1, <2>2, <2>3, <2>5, <2>6, <2>11
  <2> QED
    BY <2>10, <2>12, <2>13 DEF PlanesFit
<1>2. CASE format # "YV12"
  <2> DEFINE a == width \div 2
             b == height \div 2
             row == Align(width, 16)
  <2>1. /\ a \in Nat /\ b \in Nat /\ 2 * a <= width /\ 2 * b <= height
    OBVIOUS
  <2>2. row \in Nat /\ row >= width /\ stride >= 2 * row
    BY <1>2, AlignFacts, AlignDoubled DEF GbmWidth
  <2> HIDE DEF row, a, b
  <2>3. /\ row * height \in Nat /\ row * b \in Nat
        /\ 2 * (row * b) <= row * height
        /\ 2 * (row * height) <= stride * height
        /\ row <= row * height
    <3>1. (2 * row) * height <= stride * height
      BY <2>1, <2>2, Monotone, 2 * row \in Nat
    <3>2. (2 * b) * row <= height * row
      BY <2>1, <2>2, Monotone, 2 * b \in Nat
    <3>3. 1 * row <= height * row
      BY <2>2, Monotone
    <3> QED
      BY <2>1, <2>2, <3>1, <3>2, <3>3
  <2>4. GbmHeight(format, height) = height
    BY <1>2 DEF GbmHeight
  <2>5. /\ L.Y  = Layout(0, 8, row, width, height)
        /\ L.CR \in {Layout(row * height, 16, row, a, b), Layout(row * height + 1, 16, row, a, b)}
        /\ L.CB \in {Layout(row * height, 16, row, a, b), Layout(row * height + 1, 16, row, a, b)}
    BY <1>2 DEF get_plane_layouts, row, a, b
  <2>7. (b - 1) * row = row * b - row /\ (height - 1) * row = row * height - row
    BY <2>1, <2>2
  <2>9. ((width - 1) * 8) \div 8 = width - 1 /\ ((a - 1) * 16) \div 8 = 2 * a - 2
    BY <2>1
  <2>10. EndOf(L.Y) <= stride * GbmHeight(format, height)
    BY <2>1, <2>2, <2>3, <2>4, <2>5, <2>7, <2>9 DEF EndOf, Layout
  <2>11. ASSUME NEW first \in {row * height, row * height + 1}
         PROVE  EndOf(Layout(first, 16, row, a, b)) <= stride * GbmHeight(format, height)
    BY <2>1, <2>2, <2>3, <2>4, <2>7, <2>9 DEF EndOf, Layout
  <2>12. EndOf(L.CR) <= stride * GbmHeight(format, height)
    BY <2>5, <2>11
  <2>13. EndOf(L.CB) <= stride * GbmHeight(format, height)
    BY <2>5, <2>11
  <2> QED
    BY <2>10, <2>12, <2>13 DEF PlanesFit
<1> QED
  BY <1>1, <1>2

-----------------------------------------------------------------------------
(* The client process.  A thread's calls touch the bookkeeping of its own  *)
(* handle only, and no other thread has that handle.                       *)

ClientStates ==
    [at : {"register", "remember", "lock", "locked", "compare", "unregister", "forget"},
     handle : Handles, usage : LockUsages]

ClientTyped ==
    /\ lock_count \in [Handles -> Nat]
    /\ client \in [Clients -> ClientStates \cup {Outside}]

OneThreadPerHandle ==
    \A t, u \in Clients :
        t # u /\ client[t] # Outside /\ client[u] # Outside
        => client[t].handle # client[u].handle

ClientInv == ClientTyped /\ OneThreadPerHandle /\ LockKeepsMapping

(* What thread t holds at "locked". *)
Backed(t) ==
    /\ client[t].handle \in bos
    /\ lock_count[client[t].handle] > 0
    /\ lockUsage(t) \cap CpuUsages # {} => client[t].handle \in mapped

LEMMA StateFacts ==
    /\ Outside \notin ClientStates
    /\ Outside.at = "outside"
    /\ \A c \in ClientStates : c.at # "outside" /\ c.handle \in Handles
BY DEF Outside, ClientStates

(* A step of thread t that leaves other handles alone. *)
LEMMA OwnHandleOnly ==
    ASSUME ClientInv, NEW t \in Clients, client[t] # Outside,
           NEW next \in ClientStates \cup {Outside},
           client' = [client EXCEPT ![t] = next],
           next # Outside => next.handle = client[t].handle,
           lock_count' \in [Handles -> Nat],
           \A h \in Handles \ {client[t].handle} :
                /\ h \in bos => h \in bos'
                /\ h \in mapped => h \in mapped'
                /\ lock_count'[h] = lock_count[h],
           next.at = "locked" => Backed(t)'
    PROVE  ClientInv'
<1>1. ClientTyped'
  BY DEF ClientInv, ClientTyped
<1>2. OneThreadPerHandle'
  BY DEF ClientInv, ClientTyped, OneThreadPerHandle
<1>3. ASSUME NEW u \in Clients, At(u, "locked")'
      PROVE  Backed(u)'
  <2>1. CASE u = t
    BY <1>3, <2>1 DEF At, ClientInv, ClientTyped
  <2>2. CASE u # t
    <3>1. client'[u] = client[u] /\ At(u, "locked") /\ client[u] # Outside
      BY <1>3, <2>2, StateFacts DEF At, ClientInv, ClientTyped
    <3>2. client[u].handle \in Handles \ {client[t].handle}
      BY <2>2, <3>1, StateFacts DEF ClientInv, ClientTyped, OneThreadPerHandle
    <3>3. Backed(u)
      BY <3>1 DEF ClientInv, LockKeepsMapping, Backed
    <3> QED
      BY <3>1, <3>2, <3>3 DEF Backed, lockUsage
  <2> QED
    BY <2>1, <2>2
<1> QED
  BY <1>1, <1>2, <1>3 DEF ClientInv, LockKeepsMapping, Backed

LEMMA Somewhere ==
    ASSUME ClientInv, NEW t \in Clients, NEW place, At(t, place), place # "outside"
    PROVE  client[t] # Outside /\ client[t] \in ClientStates /\ client[t].handle \in Handles
BY StateFacts DEF At, ClientInv, ClientTyped

LEMMA Going ==
    ASSUME ClientInv, NEW t \in Clients, client[t] \in ClientStates,
           NEW place \in {"outside", "register", "remember", "lock", "locked", "compare",
                          "unregister", "forget"},
           GoTo(t, place)
    PROVE  \E next \in ClientStates \cup {Outside} :
                /\ client' = [client EXCEPT ![t] = next]
                /\ next # Outside => next.handle = client[t].handle
                /\ next.at = place
<1>1. CASE place = "outside"
  BY <1>1, StateFacts DEF GoTo
<1>2. CASE place # "outside"
  <2> DEFINE next == [client[t] EXCEPT !.at = place]
  <2>1. next \in ClientStates /\ next.handle = client[t].handle /\ next.at = place
    BY <1>2 DEF ClientStates
  <2>2. client' = [client EXCEPT ![t] = next]
    BY <1>2 DEF GoTo, ClientInv, ClientTyped
  <2> QED
    BY <2>1, <2>2
<1> QED
  BY <1>1, <1>2

(* Steps of t that register, count or map nothing and do not lock. *)
LEMMA QuietClientInv ==
    ASSUME ClientInv, NEW t \in Clients, client[t] \in ClientStates,
           NEW place \in {"outside", "register", "remember", "lock", "compare",
                          "unregister", "forget"},
           GoTo(t, place), lock_count' \in [Handles -> Nat],
           \A h \in Handles \ {client[t].handle} :
                /\ h \in bos => h \in bos'
                /\ h \in mapped => h \in mapped'
                /\ lock_count'[h] = lock_count[h]
    PROVE  ClientInv'
<1>1. PICK next \in ClientStates \cup {Outside} :
                /\ client' = [client EXCEPT ![t] = next]
                /\ next # Outside => next.handle = client[t].handle
                /\ next.at = place
  BY Going
<1> QED
  BY <1>1, OwnHandleOnly, StateFacts

LEMMA CallLockClientInv ==
    ASSUME ClientInv, NEW t \in Clients, NEW h \in Handles, NEW usage \in LockUsages,
           CallLock(t, h, usage)
    PROVE  ClientInv'
<1> DEFINE next == [at |-> "register", handle |-> h, usage |-> usage]
<1>1. next \in ClientStates /\ next.at = "register" /\ next.handle = h
  BY DEF ClientStates
<1>2. client' = [client EXCEPT ![t] = next] /\ UNCHANGED <<bos, mapped, lock_count>>
  BY DEF CallLock, gbmVars
<1> HIDE DEF next
<1>3. ClientTyped'
  BY <1>1, <1>2 DEF ClientInv, ClientTyped
<1>4. OneThreadPerHandle'
  BY <1>1, <1>2 DEF ClientInv, ClientTyped, OneThreadPerHandle, CallLock
<1>5. LockKeepsMapping'
  BY <1>1, <1>2 DEF ClientInv, ClientTyped, LockKeepsMapping, At, lockUsage
<1> QED
  BY <1>3, <1>4, <1>5 DEF ClientInv

LEMMA RegisterClientInv ==
    ASSUME ClientInv, NEW t \in Clients, Register(t)
    PROVE  ClientInv'
<1>1. client[t] \in ClientStates
  BY Somewhere DEF Register
<1>2. PICK place \in {"remember", "lock"} : GoTo(t, place)
  BY DEF Register
<1>3. bos \subseteq bos' /\ mapped' = mapped /\ lock_count' = lock_count
  BY DEF Register, gbm_mod_register, gbm_register, gbmVars
<1> QED
  BY <1>1, <1>2, <1>3, QuietClientInv DEF ClientInv, ClientTyped

LEMMA RestClientInv ==
    ASSUME ClientInv, NEW t \in Clients, Remember(t) \/ Compare(t) \/ Forget(t)
    PROVE  ClientInv'
<1>1. client[t] \in ClientStates
  BY Somewhere DEF Remember, Compare, Forget
<1>2. PICK place \in {"lock", "unregister", "outside"} : GoTo(t, place)
  BY DEF Remember, Compare, Forget
<1>3. UNCHANGED <<bos, mapped, lock_count>>
  BY DEF Remember, Compare, Forget, gbmVars
<1> QED
  BY <1>1, <1>2, <1>3, QuietClientInv DEF ClientInv, ClientTyped

(* A lock that succeeds is counted, and mapped if it is for the CPU. *)
LEMMA LockClientInv ==
    ASSUME ClientInv, NEW t \in Clients, Lock(t)
    PROVE  ClientInv'
<1> DEFINE h == client[t].handle
<1>1. client[t] # Outside /\ client[t] \in ClientStates /\ h \in Handles
  BY Somewhere DEF Lock
<1>2. PICK err \in Codes :
        /\ gbm_lock_ycbcr(h, lockUsage(t), err)
        /\ GoTo(t, IF err = "0" THEN "locked" ELSE "outside")
  BY DEF Lock
<1>3. PICK locked \in Codes :
        gbm_lock(h, lockUsage(t), locked) /\ (err = "0" => locked = "0")
  BY <1>2 DEF gbm_lock_ycbcr
<1>4. /\ bos' = bos
      /\ mapped \subseteq mapped'
      /\ lock_count' = lock_count \/ lock_count' = [lock_count EXCEPT ![h] = @ + 1]
  BY <1>3 DEF gbm_lock, gbm_map, AddLock
<1>5. ASSUME locked = "0"
      PROVE  /\ h \in bos
             /\ lock_count' = [lock_count EXCEPT ![h] = @ + 1]
             /\ lockUsage(t) \cap CpuUsages # {} => h \in mapped'
  <2>1. h \in bos
    BY <1>3, <1>5 DEF gbm_lock
  <2>2. lock_count' = [lock_count EXCEPT ![h] = @ + 1]
    BY <1>3, <1>5 DEF gbm_lock, AddLock
  <2>3. ASSUME lockUsage(t) \cap CpuUsages # {}
        PROVE  h \in mapped'
    <3>1. NeedsMap(h, lockUsage(t))
      BY <2>3 DEF NeedsMap
    <3> QED
      BY <1>3, <1>5, <3>1 DEF gbm_lock, gbm_map
  <2> QED
    BY <2>1, <2>2, <2>3
<1>6. lock_count' \in [Handles -> Nat]
  BY <1>1, <1>4 DEF ClientInv, ClientTyped
<1>7. PICK next \in ClientStates \cup {Outside} :
        /\ client' = [client EXCEPT ![t] = next]
        /\ next # Outside => next.handle = h
        /\ next.at = IF err = "0" THEN "locked" ELSE "outside"
  BY <1>1, <1>2, Going
<1>8. ASSUME next.at = "locked"
      PROVE  Backed(t)'
  <2>1. err = "0" /\ locked = "0"
    BY <1>3, <1>7, <1>8
  <2>2. client'[t] = [client[t] EXCEPT !.at = "locked"]
    BY <1>1, <1>2, <2>1 DEF GoTo, ClientInv, ClientTyped
  <2>3. client'[t].handle = h /\ client'[t].usage = client[t].usage
    BY <1>1, <2>2 DEF ClientStates
  <2> QED
    BY <1>1, <1>4, <1>5, <2>1, <2>3 DEF Backed, lockUsage, ClientInv, ClientTyped
<1> QED
  BY <1>1, <1>4, <1>6, <1>7, <1>8, OwnHandleOnly DEF ClientInv, ClientTyped

LEMMA UnlockClientInv ==
    ASSUME ClientInv, NEW t \in Clients, Unlock(t)
    PROVE  ClientInv'
<1> DEFINE h == client[t].handle
<1>1. client[t] \in ClientStates /\ h \in Handles
  BY Somewhere DEF Unlock
<1>2. PICK place \in {"compare", "outside"} : GoTo(t, place)
  BY DEF Unlock
<1>3. /\ bos' = bos
      /\ mapped' = mapped \/ mapped' = mapped \ {h}
      /\ \/ lock_count' = lock_count
         \/ lock_count[h] # 0 /\ lock_count' = [lock_count EXCEPT ![h] = @ - 1]
  BY DEF Unlock, gbm_unlock, gbmVars
<1>4. lock_count' \in [Handles -> Nat]
  BY <1>1, <1>3 DEF ClientInv, ClientTyped
<1> QED
  BY <1>1, <1>2, <1>3, <1>4, QuietClientInv DEF ClientInv, ClientTyped

LEMMA UnregisterClientInv ==
    ASSUME ClientInv, NEW t \in Clients, Unregister(t)
    PROVE  ClientInv'
<1> DEFINE h == client[t].handle
<1>1. client[t] \in ClientStates /\ h \in Handles
  BY Somewhere DEF Unregister
<1>2. GoTo(t, "forget")
  BY DEF Unregister
<1>3. /\ bos' = bos \ {h} \/ bos' = bos
      /\ mapped' = mapped \ {h} \/ mapped' = mapped
      /\ lock_count' = [lock_count EXCEPT ![h] = 0] \/ lock_count' = lock_count
  BY DEF Unregister, gbm_free
<1>4. lock_count' \in [Handles -> Nat]
  BY <1>1, <1>3 DEF ClientInv, ClientTyped
<1> QED
  BY <1>1, <1>2, <1>3, <1>4, QuietClientInv DEF ClientInv, ClientTyped

LEMMA ClientStep ==
    ASSUME ClientInv, [Next]_vars
    PROVE  ClientInv'
<1>1. CASE UNCHANGED legacyVars
  BY <1>1 DEF legacyVars, gbmVars, ClientInv, ClientTyped, OneThreadPerHandle,
              LockKeepsMapping, At, lockUsage
<1>2. ASSUME NEW t \in Clients, NEW h \in Received, NEW usage \in LockUsages,
             CallLock(t, h, usage)
      PROVE  ClientInv'
  BY <1>2, CallLockClientInv DEF Received
<1>3. ASSUME NEW t \in Clients,
             \/ Register(t) \/ Remember(t) \/ Lock(t)
             \/ Unlock(t) \/ Compare(t) \/ Unregister(t) \/ Forget(t)
      PROVE  ClientInv'
  BY <1>3, RegisterClientInv, RestClientInv, LockClientInv, UnlockClientInv,
     UnregisterClientInv
<1> QED
  BY <1>1, <1>2, <1>3 DEF Next, vars, LegacyNext

LEMMA ClientInit == Init => ClientInv
BY DEF Init, LegacyInit, GbmInit, ClientInv, ClientTyped, OneThreadPerHandle,
       LockKeepsMapping, At, Outside

(* The lock a thread holds through the legacy module keeps its             *)
(* registration, its count and its mapping, for any threads that share     *)
(* rhandle, any handles and usages.                                        *)
THEOREM LocksKeepTheirMapping == Spec => []LockKeepsMapping
<1>1. ClientInv => LockKeepsMapping
  BY DEF ClientInv
<1> QED
  BY <1>1, ClientInit, ClientStep, PTL DEF Spec

-----------------------------------------------------------------------------
(* The allocator.  A stride it returns is one of gbm for a format gbm has. *)

CallStates ==
    [at : {"create", "export", "rollback", "free"}, request : Requests,
     buffers : Seq(Nat), stride : Nat, freed : BOOLEAN]

Granted(r, stride) ==
    stride \in GbmStrides(r) /\ get_gbm_format(request[r].format) # "none"

CallsTyped ==
    /\ calls \in [Servers -> CallStates \cup {Waiting}]
    /\ results \in [Requests -> Int]

OneCallPerRequest ==
    \A s, u \in Servers :
        s # u /\ calls[s] # Waiting /\ calls[u] # Waiting
        => calls[s].request # calls[u].request

(* A call that has not answered has no result; its stride is gbm's or 0.   *)
CallGranted(s) ==
    calls[s] # Waiting =>
        /\ calls[s].at # "free" => results[calls[s].request] = NotYet
        /\ calls[s].stride # 0 => Granted(calls[s].request, calls[s].stride)

ResultsGranted == \A r \in Requests : results[r] > 0 => Granted(r, results[r])

AllocInv ==
    /\ CallsTyped
    /\ OneCallPerRequest
    /\ \A s \in Servers : CallGranted(s)
    /\ ResultsGranted

LEMMA CallFacts ==
    /\ Waiting \notin CallStates
    /\ \A c \in CallStates : c.at # "idle" /\ c.request \in Requests
BY DEF Waiting, CallStates

LEMMA StridesAreNat ==
    ASSUME NEW r \in Requests, NEW stride \in GbmStrides(r)
    PROVE  stride \in Nat
<1>1. request[r].width \in Nat
  BY AllocatorAssumption
<1>2. 2 * GbmWidth(request[r].format, request[r].width) \in Nat
  BY <1>1 DEF GbmWidth
<1> QED
  BY <1>2, AlignFacts DEF GbmStrides

(* A step of a running call that keeps its request and no other's result. *)
LEMMA OwnCallOnly ==
    ASSUME AllocInv, NEW s \in Servers, calls[s] # Waiting,
           NEW next \in CallStates \cup {Waiting},
           calls' = [calls EXCEPT ![s] = next],
           next # Waiting => /\ next.request = calls[s].request
                             /\ next.at # "free" => results' = results /\ calls[s].at # "free"
                             /\ next.stride # 0 => Granted(next.request, next.stride),
           NEW result \in Int,
           results' = [results EXCEPT ![calls[s].request] = result],
           result > 0 => Granted(calls[s].request, result)
    PROVE  AllocInv'
<1>1. CallsTyped'
  BY DEF AllocInv, CallsTyped
<1>2. OneCallPerRequest'
  BY DEF AllocInv, CallsTyped, OneCallPerRequest
<1>3. ASSUME NEW u \in Servers, calls'[u] # Waiting
      PROVE  CallGranted(u)'
  <2>1. CASE u = s
    BY <1>3, <2>1 DEF AllocInv, CallsTyped, CallGranted, Granted, GbmStrides
  <2>2. CASE u # s
    <3>1. calls'[u] = calls[u] /\ CallGranted(u) /\ calls[u].request \in Requests
      BY <1>3, <2>2, CallFacts DEF AllocInv, CallsTyped
    <3>2. calls[u].request # calls[s].request
      BY <1>3, <2>2, <3>1 DEF AllocInv, OneCallPerRequest
    <3> QED
      BY <3>1, <3>2 DEF CallGranted, Granted, GbmStrides, AllocInv, CallsTyped
  <2> QED
    BY <2>1, <2>2
<1>4. ResultsGranted'
  BY DEF AllocInv, CallsTyped, ResultsGranted, Granted, GbmStrides
<1> QED
  BY <1>1, <1>2, <1>3, <1>4 DEF AllocInv, CallGranted

LEMMA Running ==
    ASSUME AllocInv, NEW s \in Servers, calls[s].at # "idle"
    PROVE  /\ calls[s] # Waiting /\ calls[s] \in CallStates
           /\ calls[s].request \in Requests /\ results[calls[s].request] \in Int
           /\ CallGranted(s)
BY CallFacts DEF AllocInv, CallsTyped, Waiting

(* A step of a running call that answers nothing. *)
LEMMA QuietCall ==
    ASSUME AllocInv, NEW s \in Servers, calls[s].at # "idle",
           NEW next \in CallStates,
           Goto(s, next),
           next.request = calls[s].request,
           next.at = "free" <=> calls[s].at = "free",
           next.stride # 0 => Granted(next.request, next.stride),
           UNCHANGED results
    PROVE  AllocInv'
<1>1. /\ calls[s] # Waiting /\ CallGranted(s)
      /\ calls[s].request \in Requests /\ results[calls[s].request] \in Int
  BY Running
<1>2. results' = [results EXCEPT ![calls[s].request] = results[calls[s].request]]
  BY <1>1 DEF AllocInv, CallsTyped
<1>3. results[calls[s].request] > 0 => Granted(calls[s].request, results[calls[s].request])
  BY <1>1 DEF AllocInv, ResultsGranted
<1>4. calls' = [calls EXCEPT ![s] = next]
  BY DEF Goto
<1> QED
  BY <1>1, <1>2, <1>3, <1>4, OwnCallOnly

LEMMA BeginAllocInv ==
    ASSUME AllocInv, NEW s \in Servers, NEW r \in Requests, BeginAllocate(s, r)
    PROVE  AllocInv'
<1> DEFINE next == [at |-> "create", request |-> r, buffers |-> <<>>, stride |-> 0,
                    freed |-> FALSE]
<1>1. /\ next \in CallStates
      /\ next.at = "create" /\ next.request = r /\ next.stride = 0
  BY DEF CallStates
<1>2. /\ calls' = [calls EXCEPT ![s] = next] /\ UNCHANGED results
      /\ results[r] = NotYet
      /\ \A other \in Servers : calls[other] # Waiting => calls[other].request # r
  BY DEF BeginAllocate, Goto
<1> HIDE DEF next
<1>3. CallsTyped' /\ OneCallPerRequest' /\ ResultsGranted'
  BY <1>1, <1>2 DEF AllocInv, CallsTyped, OneCallPerRequest, ResultsGranted, Granted, GbmStrides
<1>4. ASSUME NEW u \in Servers
      PROVE  CallGranted(u)'
  BY <1>1, <1>2 DEF AllocInv, CallsTyped, CallGranted, Granted, GbmStrides
<1> QED
  BY <1>3, <1>4 DEF AllocInv

(* A buffer keeps the stride of the call or gives it its own. *)
LEMMA PushAllocInv ==
    ASSUME AllocInv, NEW s \in Servers, calls[s].at = "create",
           NEW buffer \in Nat, NEW stride \in Nat,
           stride # 0 => Granted(calls[s].request, stride),
           PushBuffer(s, buffer, stride), UNCHANGED results
    PROVE  AllocInv'
<1>1. PICK at \in {"create", "export", "rollback"} :
        Goto(s, [calls[s] EXCEPT !.buffers = Append(@, buffer),
                                 !.stride = IF @ = 0 THEN stride ELSE @,
                                 !.at = at])
  BY DEF PushBuffer
<1> DEFINE next == [calls[s] EXCEPT !.buffers = Append(@, buffer),
                                    !.stride = IF @ = 0 THEN stride ELSE @,
                                    !.at = at]
<1>2. calls[s] \in CallStates /\ CallGranted(s) /\ calls[s] # Waiting
  BY Running
<1>3. Append(calls[s].buffers, buffer) \in Seq(Nat)
  BY <1>2 DEF CallStates
<1>4. /\ next \in CallStates /\ next.request = calls[s].request /\ next.at = at
      /\ next.stride = IF calls[s].stride = 0 THEN stride ELSE calls[s].stride
  BY <1>2, <1>3 DEF CallStates
<1>5. Goto(s, next)
  BY <1>1
<1> HIDE DEF next
<1>6. next.stride # 0 => Granted(next.request, next.stride)
  BY <1>2, <1>4 DEF CallGranted
<1> QED
  BY <1>2, <1>4, <1>5, <1>6, QuietCall

LEMMA CreateAllocInv ==
    ASSUME AllocInv, NEW s \in Servers,
           CreateBuffer(s) \/ CreateFails(s) \/ CreateFailsSilently(s)
    PROVE  AllocInv'
<1>1. calls[s].at = "create" /\ UNCHANGED results
  BY DEF CreateBuffer, CreateFails, CreateFailsSilently
<1>2. calls[s] \in CallStates /\ CallGranted(s) /\ calls[s].request \in Requests
      /\ calls[s] # Waiting
  BY <1>1, Running
<1>3. CASE CreateBuffer(s)
  <2>1. PICK a \in Addresses, stride \in GbmStrides(calls[s].request) : PushBuffer(s, a, stride)
    BY <1>3 DEF CreateBuffer
  <2>2. a \in Nat /\ stride \in Nat
    BY <1>2, StridesAreNat, AllocatorAssumption
  <2>3. Granted(calls[s].request, stride)
    BY <1>3 DEF CreateBuffer, Granted
  <2> QED
    BY <1>1, <2>1, <2>2, <2>3, PushAllocInv
<1>4. CASE CreateFails(s)
  <2> DEFINE next == [calls[s] EXCEPT !.at = "rollback"]
  <2>1. /\ next \in CallStates /\ next.at = "rollback" /\ next.request = calls[s].request
        /\ next.stride = calls[s].stride
    BY <1>2 DEF CallStates
  <2>2. Goto(s, next)
    BY <1>4 DEF CreateFails
  <2> HIDE DEF next
  <2> QED
    BY <1>1, <1>2, <2>1, <2>2, QuietCall DEF CallGranted
<1>5. CASE CreateFailsSilently(s)
  BY <1>1, <1>5, PushAllocInv DEF CreateFailsSilently, Null
<1> QED
  BY <1>3, <1>4, <1>5

LEMMA ExportAllocInv ==
    ASSUME AllocInv, NEW s \in Servers, Export(s)
    PROVE  AllocInv' /\ results[calls[s].request] = NotYet
<1>1. calls[s] \in CallStates /\ CallGranted(s) /\ calls[s] # Waiting
      /\ calls[s].request \in Requests /\ calls[s].at = "export"
  BY Running DEF Export
<1> DEFINE next == [calls[s] EXCEPT !.at = "free"]
           stride == calls[s].stride
<1>2. /\ next \in CallStates /\ next.at = "free" /\ next.request = calls[s].request
      /\ next.stride = stride /\ stride \in Nat
  BY <1>1 DEF CallStates
<1>3. /\ calls' = [calls EXCEPT ![s] = next]
      /\ results' = [results EXCEPT ![calls[s].request] = stride]
  BY DEF Export, Goto
<1> HIDE DEF next, stride
<1>4. stride # 0 => Granted(calls[s].request, stride)
  BY <1>1 DEF CallGranted, stride
<1>5. AllocInv'
  <2>1. stride \in Int /\ (stride > 0 => Granted(calls[s].request, stride))
    BY <1>2, <1>4
  <2>2. next.stride # 0 => Granted(next.request, next.stride)
    BY <1>2, <1>4
  <2> QED
    BY <1>1, <1>2, <1>3, <2>1, <2>2, OwnCallOnly
<1> QED
  BY <1>1, <1>5 DEF CallGranted

(* The calls that had not answered fail; what was given stays given. *)
LEMMA CrashAllocInv ==
    ASSUME AllocInv, NEW s \in Servers, Crash(s)
    PROVE  AllocInv' /\ \A r \in Requests : results'[r] \in {Failed, results[r]}
<1>1. /\ calls' = [other \in Servers |-> Waiting]
      /\ results' \in [Requests -> Int]
      /\ \A r \in Requests : results'[r] \in {Failed, results[r]}
  BY DEF Crash, AllocInv, CallsTyped, Failed
<1> QED
  BY <1>1 DEF AllocInv, CallsTyped, OneCallPerRequest, CallGranted, ResultsGranted, Granted,
              GbmStrides, Failed

LEMMA FreeAllocInv ==
    ASSUME AllocInv, NEW s \in Servers, FreeObject(s) \/ DeleteHandle(s)
    PROVE  AllocInv'
<1>1. calls[s].at \in {"rollback", "free"} /\ calls[s].buffers # <<>> /\ UNCHANGED results
  BY DEF FreeObject, DeleteHandle, Freeing
<1>2. calls[s] \in CallStates /\ CallGranted(s) /\ calls[s] # Waiting
  BY <1>1, Running
<1>3. Tail(calls[s].buffers) \in Seq(Nat)
  BY <1>1, <1>2 DEF CallStates
<1>4. PICK next \in CallStates :
        /\ Goto(s, next)
        /\ next.request = calls[s].request /\ next.at = calls[s].at
        /\ next.stride = calls[s].stride
  <2>1. CASE FreeObject(s)
    <3>1. [calls[s] EXCEPT !.freed = TRUE] \in CallStates
      BY <1>2 DEF CallStates
    <3> QED
      BY <1>2, <2>1, <3>1 DEF FreeObject, CallStates
  <2>2. CASE DeleteHandle(s)
    <3>1. [calls[s] EXCEPT !.freed = FALSE, !.buffers = Tail(@)] \in CallStates
      BY <1>2, <1>3 DEF CallStates
    <3> QED
      BY <1>2, <2>2, <3>1 DEF DeleteHandle, CallStates
  <2> QED
    BY <2>1, <2>2
<1>5. calls[s].at # "idle"
  BY <1>1
<1>6. next.stride # 0 => Granted(next.request, next.stride)
  BY <1>2, <1>4 DEF CallGranted
<1> QED
  BY <1>1, <1>4, <1>5, <1>6, QuietCall

LEMMA ReturnAllocInv ==
    ASSUME AllocInv, NEW s \in Servers, AllocateReturns(s)
    PROVE  /\ AllocInv'
           /\ \A r \in Requests : results[r] > 0 => results'[r] = results[r]
<1>1. /\ calls[s] # Waiting /\ CallGranted(s)
      /\ calls[s].request \in Requests /\ results[calls[s].request] \in Int
  BY Running DEF AllocateReturns
<1>2. PICK result \in Int :
        /\ results' = [results EXCEPT ![calls[s].request] = result]
        /\ result \in {Failed, results[calls[s].request]}
        /\ calls[s].at = "free" => result = results[calls[s].request]
  <2> DEFINE result == IF calls[s].at = "free" THEN results[calls[s].request] ELSE Failed
  <2>1. results \in [Requests -> Int]
    BY DEF AllocInv, CallsTyped
  <2>2. result \in Int /\ result \in {Failed, results[calls[s].request]}
    BY <1>1 DEF Failed
  <2>3. results' = [results EXCEPT ![calls[s].request] = result]
    BY <1>1, <2>1 DEF AllocateReturns
  <2> QED
    BY <2>2, <2>3
<1>3. calls' = [calls EXCEPT ![s] = Waiting]
  BY DEF AllocateReturns, Goto
<1>4. result > 0 => Granted(calls[s].request, result)
  BY <1>1, <1>2 DEF AllocInv, ResultsGranted, Failed
<1>5. AllocInv'
  BY <1>1, <1>2, <1>3, <1>4, OwnCallOnly
<1>6. ASSUME NEW r \in Requests, results[r] > 0
      PROVE  results'[r] = results[r]
  BY <1>1, <1>2, <1>6 DEF CallGranted, NotYet, AllocInv, CallsTyped
<1> QED
  BY <1>5, <1>6

(* A result, once given, is not taken back. *)
LEMMA AllocStep ==
    ASSUME AllocInv, AllocatorNext \/ UNCHANGED allocatorVars
    PROVE  /\ AllocInv'
           /\ \A r \in Requests : results[r] > 0 => results'[r] = results[r]
<1>1. CASE UNCHANGED allocatorVars
  BY <1>1 DEF allocatorVars, AllocInv, CallsTyped, OneCallPerRequest, CallGranted,
              ResultsGranted, Granted, GbmStrides
<1>2. ASSUME NEW s \in Servers, NEW r \in Requests, BeginAllocate(s, r)
      PROVE  AllocInv' /\ results' = results
  BY <1>2, BeginAllocInv DEF BeginAllocate
<1>3. ASSUME NEW s \in Servers, CreateBuffer(s) \/ CreateFails(s) \/ CreateFailsSilently(s)
      PROVE  AllocInv' /\ results' = results
  BY <1>3, CreateAllocInv DEF CreateBuffer, CreateFails, CreateFailsSilently
<1>4. ASSUME NEW s \in Servers, FreeObject(s) \/ DeleteHandle(s)
      PROVE  AllocInv' /\ results' = results
  BY <1>4, FreeAllocInv, Zenon DEF FreeObject, DeleteHandle
<1>5. ASSUME NEW s \in Servers, Export(s)
      PROVE  /\ AllocInv'
             /\ \A r \in Requests : results[r] > 0 => results'[r] = results[r]
  <2>1. results' = [results EXCEPT ![calls[s].request] = calls[s].stride]
    BY <1>5 DEF Export
  <2> QED
    BY <1>5, <2>1, ExportAllocInv DEF AllocInv, CallsTyped, NotYet
<1>6. ASSUME NEW s \in Servers, Crash(s)
      PROVE  /\ AllocInv'
             /\ \A r \in Requests : results[r] > 0 => results'[r] = results[r]
  <2>1. ASSUME NEW r \in Requests, results[r] > 0
        PROVE  results'[r] = results[r]
    <3>1. ~ \E other \in Servers : calls[other] # Waiting /\ calls[other].request = r
                /\ calls[other].at # "free"
      BY <2>1 DEF AllocInv, CallGranted, NotYet
    <3> QED
      BY <1>6, <3>1 DEF Crash
  <2> QED
    BY <1>6, <2>1, CrashAllocInv
<1>7. ASSUME NEW s \in Servers, AllocateReturns(s)
      PROVE  /\ AllocInv'
             /\ \A r \in Requests : results[r] > 0 => results'[r] = results[r]
  BY <1>7, ReturnAllocInv
<1> QED
  BY <1>1, <1>2, <1>3, <1>4, <1>5, <1>6, <1>7 DEF AllocatorNext

LEMMA AllocInit == AllocatorInit => AllocInv
BY DEF AllocatorInit, AllocInv, CallsTyped, OneCallPerRequest, CallGranted, ResultsGranted,
       NotYet

-----------------------------------------------------------------------------
(* What the allocator holds.  Each address is in one place of one call,    *)
(* and the map has an object for it until the call has freed that.         *)

(* What a call has yet to free: its buffers, of which the first may have   *)
(* lost its object already.                                                *)
Kept(s)  == IF calls[s] = Waiting THEN <<>> ELSE calls[s].buffers
Freed(s) == calls[s] # Waiting /\ calls[s].freed

Keeps(s, a)      == \E i \in DOMAIN Kept(s) : Kept(s)[i] = a
Registered(s, a) == \E i \in DOMAIN Kept(s) : Kept(s)[i] = a /\ ~ (i = 1 /\ Freed(s))

HeapTyped ==
    /\ gbm_bo_handle_map \in [Addresses -> Objects \cup {0}]
    /\ \A s \in Servers : Kept(s) \in Seq(Addresses \cup {Null})
    /\ \A s \in Servers : Freed(s) => calls[s].at \in {"rollback", "free"} /\ Kept(s) # <<>>

(* A handle is in one place of one call. *)
KeptOnce ==
    \A s, u \in Servers : \A i \in DOMAIN Kept(s), j \in DOMAIN Kept(u) :
        Kept(s)[i] = Kept(u)[j] /\ Kept(s)[i] # Null => s = u /\ i = j

(* The heap, the map and gbm hold what the calls have to free. *)
HeapAccounted ==
    /\ heap = {a \in Addresses : \E s \in Servers : Keeps(s, a)}
    /\ \A a \in Addresses :
        gbm_bo_handle_map[a] # 0 <=> \E s \in Servers : Registered(s, a)
    /\ \A a, b \in Addresses :
        gbm_bo_handle_map[a] = gbm_bo_handle_map[b] /\ gbm_bo_handle_map[a] # 0 => a = b
    /\ objects = {gbm_bo_handle_map[a] : a \in Addresses} \ {0}

HeapInv == HeapTyped /\ KeptOnce /\ HeapAccounted

LEMMA SmallestIs ==
    ASSUME NEW S \in SUBSET Nat, S # {}
    PROVE  Min(S) \in S
<1>1. \E m \in S : \A n \in S : ~ (<<n, m>> \in OpToRel(<, Nat))
  BY NatLessThanWellFounded, WFMin
<1>2. \A n, m \in Nat : <<n, m>> \in OpToRel(<, Nat) <=> n < m
  BY DEF OpToRel
<1>3. \E m \in S : \A n \in S : m <= n
  <2>1. \A n, m \in Nat : ~ (n < m) => m <= n
    OBVIOUS
  <2> QED
    BY <1>1, <1>2, <2>1
<1> QED
  BY <1>3 DEF Min


(* The map is consulted for the addresses of the heap only. *)
LEMMA HeapFacts ==
    ASSUME HeapInv
    PROVE  /\ Null \notin Addresses /\ Addresses \subseteq Nat
           /\ heap \subseteq Addresses
           /\ \A s \in Servers, a \in Addresses : Keeps(s, a) => a \in heap
           /\ \A a \in Addresses : a \notin heap => gbm_bo_handle_map[a] = 0
<1>1. Null \notin Addresses /\ Addresses \subseteq Nat
  BY AllocatorAssumption DEF Null
<1>2. heap \subseteq Addresses /\ \A s \in Servers, a \in Addresses : Keeps(s, a) => a \in heap
  BY DEF HeapInv, HeapAccounted
<1>3. \A s \in Servers, a \in Addresses : Registered(s, a) => Keeps(s, a)
  BY DEF Registered, Keeps
<1> QED
  BY <1>1, <1>2, <1>3 DEF HeapInv, HeapAccounted

(* A step that keeps every buffer and object where it is. *)
LEMMA QuietHeap ==
    ASSUME HeapInv, UNCHANGED <<gbm_bo_handle_map, objects, heap>>,
           \A s \in Servers :
                /\ Kept(s)' = Kept(s) /\ Freed(s)' = Freed(s)
                /\ Freed(s)' => calls'[s].at \in {"rollback", "free"}
    PROVE  HeapInv'
<1>1. HeapTyped'
  BY DEF HeapInv, HeapTyped
<1>2. KeptOnce'
  BY DEF HeapInv, KeptOnce
<1>3. \A s \in Servers, a \in Addresses :
        Keeps(s, a)' = Keeps(s, a) /\ Registered(s, a)' = Registered(s, a)
  BY DEF Keeps, Registered
<1>4. HeapAccounted'
  BY <1>3 DEF HeapInv, HeapAccounted
<1> QED
  BY <1>1, <1>2, <1>4 DEF HeapInv

(* Only the call of s moves. *)
OthersStay(s) ==
    \A u \in Servers \ {s} : UNCHANGED <<calls[u], Kept(u), Freed(u)>>

LEMMA OneMoves ==
    ASSUME AllocInv, NEW s \in Servers, NEW next, Goto(s, next)
    PROVE  calls'[s] = next /\ OthersStay(s)
BY DEF AllocInv, CallsTyped, Goto, OthersStay, Kept, Freed

LEMMA PushMoves ==
    ASSUME AllocInv, NEW s \in Servers, calls[s] \in CallStates,
           NEW buffer, NEW stride, PushBuffer(s, buffer, stride)
    PROVE  /\ OthersStay(s)
           /\ calls'[s].buffers = Append(calls[s].buffers, buffer)
           /\ calls'[s].freed = calls[s].freed
           /\ calls'[s] # Waiting
<1>1. PICK next :
        /\ Goto(s, next) /\ next.at \in {"rollback", "export", "create"}
        /\ next.buffers = Append(calls[s].buffers, buffer) /\ next.freed = calls[s].freed
  <2>1. PICK at \in {"rollback", "export", "create"} : \E other :
            Goto(s, [calls[s] EXCEPT !.buffers = Append(@, buffer), !.stride = other, !.at = at])
    BY DEF PushBuffer, CallStates
  <2>2. PICK other :
            Goto(s, [calls[s] EXCEPT !.buffers = Append(@, buffer), !.stride = other, !.at = at])
    BY <2>1
  <2> DEFINE next == [calls[s] EXCEPT !.buffers = Append(@, buffer), !.stride = other, !.at = at]
  <2>3. /\ next.at = at /\ next.buffers = Append(calls[s].buffers, buffer)
        /\ next.freed = calls[s].freed
    BY DEF CallStates
  <2> QED
    BY <2>2, <2>3
<1>2. next # Waiting
  BY <1>1 DEF Waiting
<1> QED
  BY <1>1, <1>2, OneMoves

(* A new buffer, or a null one, is put behind the others. *)
LEMMA AppendHeap ==
    ASSUME HeapInv, NEW s \in Servers, NEW a \in (Addresses \cup {Null}) \ heap, OthersStay(s),
           Kept(s)' = Append(Kept(s), a), ~Freed(s), ~Freed(s)',
           gbm_bo_handle_map' \in [Addresses -> Objects \cup {0}]
    PROVE  /\ HeapTyped' /\ KeptOnce'
           /\ \A u \in Servers, b \in Addresses :
                /\ Keeps(u, b)' <=> Keeps(u, b) \/ (u = s /\ b = a)
                /\ Registered(u, b)' <=> Registered(u, b) \/ (u = s /\ b = a)
<1>1. /\ Kept(s) \in Seq(Addresses \cup {Null}) /\ Len(Kept(s)) \in Nat
      /\ DOMAIN Kept(s) = 1 .. Len(Kept(s))
  BY DEF HeapInv, HeapTyped
<1>2. /\ Kept(s)' \in Seq(Addresses \cup {Null})
      /\ DOMAIN Kept(s)' = 1 .. Len(Kept(s)) + 1
      /\ \A i \in DOMAIN Kept(s) : Kept(s)'[i] = Kept(s)[i]
      /\ Kept(s)'[Len(Kept(s)) + 1] = a
  BY <1>1
<1>3. \A i \in DOMAIN Kept(s)' : i \in DOMAIN Kept(s) \/ i = Len(Kept(s)) + 1
  BY <1>1, <1>2
<1>4. DOMAIN Kept(s) \subseteq DOMAIN Kept(s)' /\ Len(Kept(s)) + 1 \in DOMAIN Kept(s)'
  BY <1>1, <1>2
<1>5. HeapTyped'
  BY <1>2 DEF HeapInv, HeapTyped, OthersStay
<1>6. \A u \in Servers, b \in Addresses : Keeps(u, b)' <=> Keeps(u, b) \/ (u = s /\ b = a)
  <2>1. \A b : Keeps(s, b)' <=> Keeps(s, b) \/ b = a
    BY <1>2, <1>3, <1>4 DEF Keeps
  <2>2. \A u \in Servers \ {s} : \A b : Keeps(u, b)' <=> Keeps(u, b)
    BY DEF Keeps, OthersStay
  <2> QED
    BY <2>1, <2>2
<1>7. \A u \in Servers, b \in Addresses :
        Registered(u, b)' <=> Registered(u, b) \/ (u = s /\ b = a)
  <2>1. \A b : Registered(s, b)' <=> Registered(s, b) \/ b = a
    BY <1>2, <1>3, <1>4 DEF Registered
  <2>2. \A u \in Servers \ {s} : \A b : Registered(u, b)' <=> Registered(u, b)
    BY DEF Registered, OthersStay
  <2> QED
    BY <2>1, <2>2
<1>8. KeptOnce'
  <2>1. \A u \in Servers : \A i \in DOMAIN Kept(u) : Kept(u)[i] = a => a = Null
    <3>1. \A u \in Servers : \A i \in DOMAIN Kept(u) : Kept(u)[i] \in Addresses \cup {Null}
      BY DEF HeapInv, HeapTyped
    <3> QED
      BY <3>1, HeapFacts DEF Keeps
  <2>2. ASSUME NEW u \in Servers, NEW v \in Servers,
               NEW i \in DOMAIN Kept(u)', NEW j \in DOMAIN Kept(v)',
               Kept(u)'[i] = Kept(v)'[j], Kept(u)'[i] # Null
        PROVE  u = v /\ i = j
    <3>1. ASSUME NEW w \in Servers, NEW n \in DOMAIN Kept(w)'
          PROVE  \/ n \in DOMAIN Kept(w) /\ Kept(w)'[n] = Kept(w)[n]
                 \/ w = s /\ n = Len(Kept(s)) + 1 /\ Kept(w)'[n] = a
      BY <3>1, <1>2, <1>3 DEF OthersStay
    <3>2. /\ \/ i \in DOMAIN Kept(u) /\ Kept(u)'[i] = Kept(u)[i]
             \/ u = s /\ i = Len(Kept(s)) + 1 /\ Kept(u)'[i] = a
          /\ \/ j \in DOMAIN Kept(v) /\ Kept(v)'[j] = Kept(v)[j]
             \/ v = s /\ j = Len(Kept(s)) + 1 /\ Kept(v)'[j] = a
      BY <3>1
    <3> QED
      BY <2>1, <2>2, <3>2 DEF HeapInv, KeptOnce
  <2> QED
    BY <2>2 DEF KeptOnce
<1> QED
  BY <1>5, <1>6, <1>7, <1>8

(* gbm can make an object as long as there is room for a handle: each      *)
(* object is registered at an address of its own.                          *)
LEMMA ObjectIsFree ==
    ASSUME HeapInv, NEW a \in Addresses \ heap
    PROVE  Min(Objects \ objects) \in Objects \ objects
<1> DEFINE registered == {b \in Addresses : gbm_bo_handle_map[b] # 0}
<1>1. IsFiniteSet(Addresses) /\ Cardinality(Addresses) \in Nat
  BY AllocatorAssumption, FS_CardinalityType
<1>2. registered \subseteq Addresses \ {a}
  BY HeapFacts
<1>3. /\ IsFiniteSet(Addresses \ {a})
      /\ Cardinality(Addresses \ {a}) = Cardinality(Addresses) - 1
  BY <1>1, FS_RemoveElement
<1>4. IsFiniteSet(registered) /\ Cardinality(registered) <= Cardinality(Addresses) - 1
  BY <1>2, <1>3, FS_Subset
<1>5. objects = {gbm_bo_handle_map[b] : b \in registered}
  BY DEF HeapInv, HeapAccounted
<1> HIDE DEF registered
<1>6. IsFiniteSet(objects) /\ Cardinality(objects) <= Cardinality(registered)
  <2> DEFINE object == [b \in registered |-> gbm_bo_handle_map[b]]
  <2>1. object \in Surjection(registered, objects)
    BY <1>5 DEF Surjection
  <2> QED
    BY <1>4, <2>1, FS_Surjection
<1>7. Cardinality(registered) \in Nat /\ Cardinality(objects) \in Nat
  BY <1>4, <1>6, FS_CardinalityType
<1>8. Cardinality(Objects) = Cardinality(Addresses)
  BY <1>1, FS_Interval DEF Objects
<1>9. Objects \ objects # {}
  <2> SUFFICES ASSUME Objects \subseteq objects PROVE FALSE
    OBVIOUS
  <2>1. Cardinality(Objects) <= Cardinality(objects)
    BY <1>6, FS_Subset
  <2> QED
    BY <1>1, <1>4, <1>6, <1>7, <1>8, <2>1
<1>10. Objects \ objects \in SUBSET Nat
  BY <1>1 DEF Objects
<1> QED
  BY <1>9, <1>10, SmallestIs

LEMMA CreateHeap ==
    ASSUME AllocInv, HeapInv, NEW s \in Servers, CreateBuffer(s)
    PROVE  HeapInv'
<1>1. calls[s].at = "create" /\ calls[s] \in CallStates /\ calls[s] # Waiting
  BY Running DEF CreateBuffer
<1>2. PICK a \in Addresses \ heap, stride \in GbmStrides(calls[s].request) :
        LET bo == Min(Objects \ objects) IN
        /\ heap' = heap \cup {a}
        /\ objects' = objects \cup {bo}
        /\ gbm_bo_handle_map' = [gbm_bo_handle_map EXCEPT ![a] = IF @ = 0 THEN bo ELSE @]
        /\ PushBuffer(s, a, stride)
  BY DEF CreateBuffer
<1> DEFINE bo == Min(Objects \ objects)
<1>3. bo \in Objects \ objects /\ bo # 0
  <2>1. bo \in Objects \ objects
    BY ObjectIsFree
  <2>2. Cardinality(Addresses) \in Nat
    BY AllocatorAssumption, FS_CardinalityType
  <2>3. 0 \notin Objects
    BY <2>2 DEF Objects
  <2> QED
    BY <2>1, <2>3
<1> HIDE DEF bo
<1>4. gbm_bo_handle_map \in [Addresses -> Objects \cup {0}] /\ gbm_bo_handle_map[a] = 0
  BY <1>2, HeapFacts DEF HeapInv, HeapTyped
<1>5. /\ heap' = heap \cup {a} /\ objects' = objects \cup {bo}
      /\ gbm_bo_handle_map' = [gbm_bo_handle_map EXCEPT ![a] = bo]
  BY <1>2, <1>4 DEF bo
<1>6. /\ gbm_bo_handle_map' \in [Addresses -> Objects \cup {0}]
      /\ gbm_bo_handle_map'[a] = bo
      /\ \A b \in Addresses \ {a} : gbm_bo_handle_map'[b] = gbm_bo_handle_map[b]
  BY <1>3, <1>4, <1>5
<1>7. /\ OthersStay(s) /\ calls'[s].buffers = Append(calls[s].buffers, a)
      /\ calls'[s].freed = calls[s].freed /\ calls'[s] # Waiting
  BY <1>1, <1>2, PushMoves
<1>8. Kept(s)' = Append(Kept(s), a) /\ ~Freed(s) /\ ~Freed(s)'
  BY <1>1, <1>7 DEF Kept, Freed, HeapInv, HeapTyped
<1>9. /\ HeapTyped' /\ KeptOnce'
      /\ \A u \in Servers, b \in Addresses :
            /\ Keeps(u, b)' <=> Keeps(u, b) \/ (u = s /\ b = a)
            /\ Registered(u, b)' <=> Registered(u, b) \/ (u = s /\ b = a)
  BY <1>6, <1>7, <1>8, AppendHeap
<1>10. HeapAccounted'
  <2>1. heap' = {b \in Addresses : \E u \in Servers : Keeps(u, b)'}
    BY <1>5, <1>9 DEF HeapInv, HeapAccounted
  <2>2. \A b \in Addresses : gbm_bo_handle_map'[b] # 0 <=> \E u \in Servers : Registered(u, b)'
    BY <1>3, <1>6, <1>9 DEF HeapInv, HeapAccounted
  <2>3. \A b \in Addresses : gbm_bo_handle_map[b] \in objects \cup {0}
    BY DEF HeapInv, HeapAccounted
  <2>4. \A b, c \in Addresses :
            gbm_bo_handle_map'[b] = gbm_bo_handle_map'[c] /\ gbm_bo_handle_map'[b] # 0 => b = c
    BY <1>3, <1>6, <2>3 DEF HeapInv, HeapAccounted
  <2>5. objects' = {gbm_bo_handle_map'[b] : b \in Addresses} \ {0}
    BY <1>3, <1>4, <1>5, <1>6 DEF HeapInv, HeapAccounted
  <2> QED
    BY <2>1, <2>2, <2>4, <2>5 DEF HeapAccounted
<1> QED
  BY <1>9, <1>10 DEF HeapInv

LEMMA CreateFailsHeap ==
    ASSUME AllocInv, HeapInv, NEW s \in Servers, CreateFails(s) \/ CreateFailsSilently(s)
    PROVE  HeapInv'
<1>1. /\ calls[s].at = "create" /\ calls[s] \in CallStates /\ calls[s] # Waiting
      /\ UNCHANGED <<gbm_bo_handle_map, objects, heap>>
  BY Running DEF CreateFails, CreateFailsSilently
<1>2. ~Freed(s)
  BY <1>1 DEF HeapInv, HeapTyped
<1>3. CASE CreateFails(s)
  <2>1. /\ OthersStay(s)
        /\ calls'[s] = [calls[s] EXCEPT !.at = "rollback"]
    BY <1>3, OneMoves DEF CreateFails
  <2>2. Kept(s)' = Kept(s) /\ Freed(s)' = Freed(s)
    BY <1>1, <2>1, CallFacts DEF Kept, Freed, CallStates, Waiting
  <2> QED
    BY <1>1, <1>2, <2>1, <2>2, QuietHeap DEF OthersStay, HeapInv, HeapTyped
<1>4. CASE CreateFailsSilently(s)
  <2>1. /\ OthersStay(s) /\ calls'[s].buffers = Append(calls[s].buffers, Null)
        /\ calls'[s].freed = calls[s].freed /\ calls'[s] # Waiting
    BY <1>1, <1>4, PushMoves DEF CreateFailsSilently, Null
  <2>2. Kept(s)' = Append(Kept(s), Null) /\ ~Freed(s)'
    BY <1>1, <1>2, <2>1 DEF Kept, Freed
  <2>3. Null \notin heap /\ Null \notin Addresses
    BY HeapFacts
  <2>4. /\ HeapTyped' /\ KeptOnce'
        /\ \A u \in Servers, b \in Addresses :
            (Keeps(u, b)' <=> Keeps(u, b)) /\ (Registered(u, b)' <=> Registered(u, b))
    <3>1. gbm_bo_handle_map' \in [Addresses -> Objects \cup {0}]
      BY <1>1 DEF HeapInv, HeapTyped
    <3>2. /\ HeapTyped' /\ KeptOnce'
          /\ \A u \in Servers, b \in Addresses :
                /\ Keeps(u, b)' <=> Keeps(u, b) \/ (u = s /\ b = Null)
                /\ Registered(u, b)' <=> Registered(u, b) \/ (u = s /\ b = Null)
      BY <1>2, <2>1, <2>2, <2>3, <3>1, AppendHeap
    <3> QED
      BY <2>3, <3>2
  <2>5. HeapAccounted'
    BY <1>1, <2>4 DEF HeapInv, HeapAccounted
  <2> QED
    BY <2>4, <2>5 DEF HeapInv
<1> QED
  BY <1>3, <1>4

LEMMA BeginHeap ==
    ASSUME AllocInv, HeapInv, NEW s \in Servers, NEW r \in Requests, BeginAllocate(s, r)
    PROVE  HeapInv'
<1> DEFINE next == [at |-> "create", request |-> r, buffers |-> <<>>, stride |-> 0,
                    freed |-> FALSE]
<1>1. calls'[s] = next /\ OthersStay(s) /\ calls[s] = Waiting
  BY OneMoves DEF BeginAllocate
<1>2. Kept(s)' = Kept(s) /\ Freed(s)' = Freed(s) /\ ~Freed(s)
  BY <1>1 DEF Kept, Freed
<1>3. UNCHANGED <<gbm_bo_handle_map, objects, heap>>
  BY DEF BeginAllocate
<1> QED
  BY <1>1, <1>2, <1>3, QuietHeap DEF OthersStay, HeapInv, HeapTyped

LEMMA ExportHeap ==
    ASSUME AllocInv, HeapInv, NEW s \in Servers, Export(s)
    PROVE  HeapInv'
<1>1. calls[s].at = "export" /\ calls[s] \in CallStates /\ calls[s] # Waiting
  BY Running DEF Export
<1>2. calls'[s] = [calls[s] EXCEPT !.at = "free"] /\ OthersStay(s)
  BY OneMoves DEF Export
<1>3. Kept(s)' = Kept(s) /\ Freed(s)' = Freed(s) /\ ~Freed(s)
  <2>1. calls'[s].buffers = calls[s].buffers /\ calls'[s].freed = calls[s].freed
    BY <1>1, <1>2 DEF CallStates
  <2>2. calls'[s] # Waiting
    BY <1>1, <1>2 DEF CallStates, Waiting
  <2> QED
    BY <1>1, <2>1, <2>2 DEF Kept, Freed, HeapInv, HeapTyped
<1>4. UNCHANGED <<gbm_bo_handle_map, objects, heap>>
  BY DEF Export
<1> QED
  BY <1>2, <1>3, <1>4, QuietHeap DEF OthersStay, HeapInv, HeapTyped

LEMMA ReturnHeap ==
    ASSUME AllocInv, HeapInv, NEW s \in Servers, AllocateReturns(s)
    PROVE  HeapInv'
<1>1. calls[s].at # "idle" /\ calls[s].buffers = <<>>
  BY DEF AllocateReturns
<1>2. calls[s] # Waiting
  BY <1>1 DEF Waiting
<1>3. calls'[s] = Waiting /\ OthersStay(s)
  BY OneMoves DEF AllocateReturns
<1>4. Kept(s)' = Kept(s) /\ Freed(s)' = Freed(s) /\ ~Freed(s)
  BY <1>1, <1>2, <1>3 DEF Kept, Freed, HeapInv, HeapTyped
<1>5. UNCHANGED <<gbm_bo_handle_map, objects, heap>>
  BY DEF AllocateReturns
<1> QED
  BY <1>3, <1>4, <1>5, QuietHeap DEF OthersStay, HeapInv, HeapTyped

(* The kernel takes back everything. *)
LEMMA CrashHeap ==
    ASSUME HeapInv, NEW s \in Servers, Crash(s)
    PROVE  HeapInv'
<1>1. /\ calls' = [other \in Servers |-> Waiting]
      /\ gbm_bo_handle_map' = [a \in Addresses |-> 0]
      /\ objects' = {} /\ heap' = {}
  BY DEF Crash
<1>2. \A u \in Servers : Kept(u)' = <<>> /\ ~Freed(u)'
  BY <1>1 DEF Kept, Freed
<1>3. HeapTyped' /\ KeptOnce'
  <2>1. <<>> \in Seq(Addresses \cup {Null}) /\ DOMAIN <<>> = {}
    OBVIOUS
  <2>2. gbm_bo_handle_map' \in [Addresses -> Objects \cup {0}]
    BY <1>1
  <2>3. HeapTyped'
    BY <1>2, <2>1, <2>2 DEF HeapTyped
  <2>4. KeptOnce'
    BY <1>2, <2>1 DEF KeptOnce
  <2> QED
    BY <2>3, <2>4
<1>4. \A u \in Servers, a \in Addresses : ~Keeps(u, a)' /\ ~Registered(u, a)'
  BY <1>2 DEF Keeps, Registered
<1>5. HeapAccounted'
  BY <1>1, <1>4 DEF HeapAccounted
<1> QED
  BY <1>3, <1>5 DEF HeapInv

(* The first buffer loses its entry and its object. *)
LEMMA FreeObjectHeap ==
    ASSUME AllocInv, HeapInv, NEW s \in Servers, FreeObject(s)
    PROVE  HeapInv'
<1> DEFINE a == Kept(s)[1]
<1>1. /\ calls[s].at \in {"rollback", "free"} /\ calls[s] # Waiting
      /\ calls[s] \in CallStates /\ calls[s].buffers # <<>> /\ ~calls[s].freed
  BY Running DEF FreeObject, Freeing
<1>2. /\ calls'[s] = [calls[s] EXCEPT !.freed = TRUE] /\ OthersStay(s)
      /\ heap' = heap
  BY OneMoves DEF FreeObject
<1>3. /\ Kept(s) = calls[s].buffers /\ Kept(s)' = Kept(s) /\ ~Freed(s) /\ Freed(s)'
      /\ calls'[s].at = calls[s].at
  <2>1. /\ calls'[s].buffers = calls[s].buffers /\ calls'[s].freed
        /\ calls'[s].at = calls[s].at
    BY <1>1, <1>2 DEF CallStates
  <2>2. calls'[s] # Waiting
    BY <1>1, <2>1 DEF Waiting
  <2> QED
    BY <1>1, <2>1, <2>2 DEF Kept, Freed
<1>4. /\ Kept(s) \in Seq(Addresses \cup {Null}) /\ 1 \in DOMAIN Kept(s)
      /\ a \in Addresses \cup {Null} /\ Head(Kept(s)) = a
  BY <1>1, <1>3 DEF HeapInv, HeapTyped
<1>5. /\ a = Null => UNCHANGED <<gbm_bo_handle_map, objects>>
      /\ a # Null => /\ objects' = objects \ {gbm_bo_handle_map[a]}
                     /\ gbm_bo_handle_map' = [gbm_bo_handle_map EXCEPT ![a] = 0]
  BY <1>3, <1>4 DEF FreeObject
<1>6. HeapTyped'
  <2>1. gbm_bo_handle_map' \in [Addresses -> Objects \cup {0}]
    BY <1>4, <1>5 DEF HeapInv, HeapTyped
  <2>2. \A u \in Servers : Kept(u)' \in Seq(Addresses \cup {Null})
    BY <1>2, <1>3 DEF HeapInv, HeapTyped, OthersStay
  <2>3. Kept(s) # <<>>
    BY <1>1, <1>3
  <2>4. calls'[s].at \in {"rollback", "free"} /\ Kept(s)' # <<>>
    BY <1>1, <1>3, <2>3
  <2>5. \A u \in Servers \ {s} :
            Freed(u)' => calls'[u].at \in {"rollback", "free"} /\ Kept(u)' # <<>>
    BY <1>2 DEF HeapInv, HeapTyped, OthersStay
  <2> QED
    BY <2>1, <2>2, <2>4, <2>5 DEF HeapTyped
<1>7. \A u \in Servers : Kept(u)' = Kept(u)
  BY <1>2, <1>3 DEF OthersStay
<1>8. KeptOnce'
  BY <1>7 DEF HeapInv, KeptOnce
<1>9. \A u \in Servers, b \in Addresses : Keeps(u, b)' <=> Keeps(u, b)
  BY <1>7 DEF Keeps
<1>10. \A u \in Servers, b \in Addresses :
        Registered(u, b)' <=> Registered(u, b) /\ b # a
  <2>1. ASSUME NEW u \in Servers \ {s}, NEW b \in Addresses
        PROVE  Registered(u, b)' <=> Registered(u, b) /\ b # a
    <3>1. Registered(u, b)' <=> Registered(u, b)
      BY <1>2, <2>1 DEF Registered, OthersStay
    <3>2. Registered(u, b) => b # a
      BY <1>4, <2>1, HeapFacts DEF Registered, HeapInv, KeptOnce
    <3> QED
      BY <3>1, <3>2
  <2>2. ASSUME NEW b \in Addresses
        PROVE  Registered(s, b)' <=> Registered(s, b) /\ b # a
    <3>1. Registered(s, b)' <=> \E i \in DOMAIN Kept(s) : Kept(s)[i] = b /\ i # 1
      BY <1>3 DEF Registered
    <3>2. Registered(s, b) <=> \E i \in DOMAIN Kept(s) : Kept(s)[i] = b
      BY <1>3 DEF Registered
    <3>3. \A i \in DOMAIN Kept(s) : Kept(s)[i] = b /\ i # 1 => b # a
      BY <1>4, <2>2, HeapFacts DEF HeapInv, KeptOnce
    <3> QED
      BY <3>1, <3>2, <3>3
  <2> QED
    BY <2>1, <2>2
<1>11. HeapAccounted'
  <2>1. heap' = {b \in Addresses : \E u \in Servers : Keeps(u, b)'}
    BY <1>2, <1>9 DEF HeapInv, HeapAccounted
  <2>2. CASE a = Null
    BY <1>5, <1>10, <2>1, <2>2, HeapFacts DEF HeapInv, HeapAccounted
  <2>3. CASE a # Null
    <3>1. /\ a \in Addresses /\ objects' = objects \ {gbm_bo_handle_map[a]}
          /\ gbm_bo_handle_map'[a] = 0
          /\ \A b \in Addresses \ {a} : gbm_bo_handle_map'[b] = gbm_bo_handle_map[b]
      BY <1>4, <1>5, <2>3 DEF HeapInv, HeapTyped
    <3>2. \A b \in Addresses :
            gbm_bo_handle_map'[b] # 0 <=> \E u \in Servers : Registered(u, b)'
      BY <1>10, <3>1 DEF HeapInv, HeapAccounted
    <3>3. \A b, c \in Addresses :
            gbm_bo_handle_map'[b] = gbm_bo_handle_map'[c] /\ gbm_bo_handle_map'[b] # 0 => b = c
      BY <3>1 DEF HeapInv, HeapAccounted
    <3>4. objects' = {gbm_bo_handle_map'[b] : b \in Addresses} \ {0}
      BY <3>1 DEF HeapInv, HeapAccounted
    <3> QED
      BY <2>1, <3>2, <3>3, <3>4 DEF HeapAccounted
  <2> QED
    BY <2>2, <2>3
<1> QED
  BY <1>6, <1>8, <1>11 DEF HeapInv

(* Then it leaves the heap and the call. *)
LEMMA DeleteHandleHeap ==
    ASSUME AllocInv, HeapInv, NEW s \in Servers, DeleteHandle(s)
    PROVE  HeapInv'
<1> DEFINE a == Kept(s)[1]
<1>1. /\ calls[s].at \in {"rollback", "free"} /\ calls[s] # Waiting
      /\ calls[s] \in CallStates /\ calls[s].buffers # <<>> /\ calls[s].freed
  BY Running DEF DeleteHandle, Freeing
<1>2. /\ calls'[s] = [calls[s] EXCEPT !.freed = FALSE, !.buffers = Tail(@)]
      /\ OthersStay(s)
      /\ UNCHANGED <<gbm_bo_handle_map, objects>>
  BY OneMoves DEF DeleteHandle
<1>3. /\ Kept(s) = calls[s].buffers /\ Kept(s)' = Tail(Kept(s)) /\ Freed(s) /\ ~Freed(s)'
  <2>1. /\ calls'[s].buffers = Tail(calls[s].buffers) /\ ~calls'[s].freed
        /\ calls'[s].at = calls[s].at
    BY <1>1, <1>2 DEF CallStates
  <2>2. calls'[s] # Waiting
    BY <1>1, <2>1 DEF Waiting
  <2> QED
    BY <1>1, <2>1, <2>2 DEF Kept, Freed
<1>4. /\ Kept(s) \in Seq(Addresses \cup {Null}) /\ 1 \in DOMAIN Kept(s)
      /\ a \in Addresses \cup {Null} /\ heap' = heap \ {a}
      /\ Len(Kept(s)) \in Nat \ {0} /\ DOMAIN Kept(s) = 1 .. Len(Kept(s))
  BY <1>1, <1>3 DEF HeapInv, HeapTyped, DeleteHandle
<1>5. /\ Kept(s)' \in Seq(Addresses \cup {Null})
      /\ DOMAIN Kept(s)' = 1 .. Len(Kept(s)) - 1
      /\ \A i \in DOMAIN Kept(s)' : i + 1 \in DOMAIN Kept(s) /\ Kept(s)'[i] = Kept(s)[i + 1]
      /\ \A i \in DOMAIN Kept(s) : i = 1 \/ (i - 1 \in DOMAIN Kept(s)' /\ i = (i - 1) + 1)
  <2>1. Kept(s) # <<>>
    BY <1>1, <1>3
  <2>2. /\ Tail(Kept(s)) \in Seq(Addresses \cup {Null})
        /\ Len(Tail(Kept(s))) = Len(Kept(s)) - 1
        /\ \A i \in 1 .. Len(Kept(s)) - 1 : Tail(Kept(s))[i] = Kept(s)[i + 1]
    BY <1>4, <2>1
  <2>3. DOMAIN Tail(Kept(s)) = 1 .. Len(Kept(s)) - 1
    BY <2>2
  <2> QED
    BY <1>3, <1>4, <2>2, <2>3
<1>6. HeapTyped'
  BY <1>2, <1>3, <1>5 DEF HeapInv, HeapTyped, OthersStay
<1>7. KeptOnce'
  <2>1. ASSUME NEW w \in Servers, NEW n \in DOMAIN Kept(w)'
        PROVE  IF w = s THEN n + 1 \in DOMAIN Kept(w) /\ Kept(w)'[n] = Kept(w)[n + 1]
                        ELSE n \in DOMAIN Kept(w) /\ Kept(w)'[n] = Kept(w)[n]
    BY <1>2, <1>5, <2>1 DEF OthersStay
  <2>2. ASSUME NEW u \in Servers, NEW v \in Servers,
               NEW i \in DOMAIN Kept(u)', NEW j \in DOMAIN Kept(v)',
               Kept(u)'[i] = Kept(v)'[j], Kept(u)'[i] # Null
        PROVE  u = v /\ i = j
    <3>1. u = v
      BY <2>1, <2>2 DEF HeapInv, KeptOnce
    <3>2. CASE u = s
      <4>1. i + 1 = j + 1
        BY <2>1, <2>2, <3>1, <3>2 DEF HeapInv, KeptOnce
      <4>2. i \in Int /\ j \in Int
        BY <1>4, <1>5, <2>2, <3>1, <3>2
      <4> QED
        BY <3>1, <4>1, <4>2
    <3>3. CASE u # s
      BY <2>1, <2>2, <3>1, <3>3 DEF HeapInv, KeptOnce
    <3> QED
      BY <3>2, <3>3
  <2> QED
    BY <2>2 DEF KeptOnce
<1>8. ASSUME NEW u \in Servers, NEW b \in Addresses
      PROVE  /\ Keeps(u, b)' <=> Keeps(u, b) /\ b # a
             /\ Registered(u, b)' <=> Registered(u, b)
  <2>1. CASE u # s
    <3>1. (Keeps(u, b)' <=> Keeps(u, b)) /\ (Registered(u, b)' <=> Registered(u, b))
      BY <1>2, <2>1 DEF Keeps, Registered, OthersStay
    <3>2. Keeps(u, b) => b # a
      BY <1>4, <1>8, <2>1, HeapFacts DEF Keeps, HeapInv, KeptOnce
    <3> QED
      BY <3>1, <3>2
  <2>2. CASE u = s
    <3>1. (\E i \in DOMAIN Kept(s)' : Kept(s)'[i] = b)
            <=> \E i \in DOMAIN Kept(s) : Kept(s)[i] = b /\ i # 1
      <4>1. ASSUME NEW i \in DOMAIN Kept(s)'
            PROVE  i + 1 # 1
        BY <1>4, <1>5, <4>1
      <4> QED
        BY <1>5, <4>1
    <3>2. \A i \in DOMAIN Kept(s) : Kept(s)[i] = b /\ i # 1 => b # a
      BY <1>4, <1>8, HeapFacts DEF HeapInv, KeptOnce
    <3>3. Keeps(s, b)' <=> \E i \in DOMAIN Kept(s) : Kept(s)[i] = b /\ i # 1
      BY <3>1 DEF Keeps
    <3>4. Registered(s, b)' <=> \E i \in DOMAIN Kept(s) : Kept(s)[i] = b /\ i # 1
      BY <1>3, <3>1 DEF Registered
    <3>5. Registered(s, b) <=> \E i \in DOMAIN Kept(s) : Kept(s)[i] = b /\ i # 1
      BY <1>3 DEF Registered
    <3>6. Keeps(s, b) /\ b # a => \E i \in DOMAIN Kept(s) : Kept(s)[i] = b /\ i # 1
      BY DEF Keeps
    <3>7. (\E i \in DOMAIN Kept(s) : Kept(s)[i] = b /\ i # 1) => Keeps(s, b) /\ b # a
      BY <3>2 DEF Keeps
    <3> QED
      BY <2>2, <3>3, <3>4, <3>5, <3>6, <3>7
  <2> QED
    BY <2>1, <2>2
<1>9. HeapAccounted'
  <2>1. heap' = {b \in Addresses : \E u \in Servers : Keeps(u, b)'}
    BY <1>4, <1>8 DEF HeapInv, HeapAccounted
  <2> QED
    BY <1>2, <1>8, <2>1 DEF HeapInv, HeapAccounted
<1> QED
  BY <1>6, <1>7, <1>9 DEF HeapInv

LEMMA HeapStep ==
    ASSUME AllocInv, HeapInv, AllocatorNext \/ UNCHANGED allocatorVars
    PROVE  HeapInv'
<1>1. CASE UNCHANGED allocatorVars
  BY <1>1, QuietHeap DEF allocatorVars, Kept, Freed, HeapInv, HeapTyped
<1>2. CASE AllocatorNext
  BY <1>2, BeginHeap, CreateHeap, CreateFailsHeap, ExportHeap, CrashHeap, FreeObjectHeap,
     DeleteHandleHeap, ReturnHeap
  DEF AllocatorNext
<1> QED
  BY <1>1, <1>2

LEMMA HeapInit == AllocatorInit => HeapInv
<1> SUFFICES ASSUME AllocatorInit PROVE HeapInv
  OBVIOUS
<1>1. \A s \in Servers : Kept(s) = <<>> /\ ~Freed(s)
  BY DEF AllocatorInit, Kept, Freed
<1>2. <<>> \in Seq(Addresses \cup {Null}) /\ DOMAIN <<>> = {}
  OBVIOUS
<1>3. \A s \in Servers, a \in Addresses : ~Keeps(s, a) /\ ~Registered(s, a)
  BY <1>1, <1>2 DEF Keeps, Registered
<1>4. HeapTyped /\ KeptOnce
  BY <1>1, <1>2 DEF AllocatorInit, HeapTyped, KeptOnce
<1>5. HeapAccounted
  BY <1>3 DEF AllocatorInit, HeapAccounted
<1> QED
  BY <1>4, <1>5 DEF HeapInv

LEMMA HeapIsHeld ==
    ASSUME AllocInv, HeapInv
    PROVE  NoBufferLeaks
<1>1. \A s \in Servers : HeldBy(s) = {a \in Addresses : Keeps(s, a)}
  <2>1. ASSUME NEW s \in Servers
        PROVE  HeldBy(s) = {Kept(s)[i] : i \in DOMAIN Kept(s)} \ {Null}
    BY DEF HeldBy, Kept
  <2>2. \A s \in Servers : \A i \in DOMAIN Kept(s) : Kept(s)[i] \in Addresses \cup {Null}
    BY DEF HeapInv, HeapTyped
  <2> QED
    BY <2>1, <2>2, HeapFacts DEF Keeps
<1>2. \A s \in Servers :
        ObjectsHeldBy(s) = {gbm_bo_handle_map[a] : a \in {b \in Addresses : Registered(s, b)}}
  <2>1. ASSUME NEW s \in Servers
        PROVE  HeldBy(s) \ (IF Freeing(s) /\ calls[s].freed THEN {Head(calls[s].buffers)} ELSE {})
                = {a \in Addresses : Registered(s, a)}
    <3>1. CASE ~Freed(s)
      <4>1. ~(Freeing(s) /\ calls[s].freed)
        BY <3>1 DEF Freed, Freeing, Waiting
      <4>2. \A a \in Addresses : Registered(s, a) <=> Keeps(s, a)
        BY <3>1 DEF Registered, Keeps
      <4> QED
        BY <1>1, <4>1, <4>2
    <3>2. CASE Freed(s)
      <4>1. /\ Freeing(s) /\ calls[s].freed /\ Kept(s) = calls[s].buffers
            /\ Kept(s) \in Seq(Addresses \cup {Null}) /\ Kept(s) # <<>>
        BY <3>2 DEF Freed, Freeing, HeapInv, HeapTyped, Kept
      <4>2. Head(calls[s].buffers) = Kept(s)[1] /\ 1 \in DOMAIN Kept(s)
        BY <4>1
      <4>3. \A a \in Addresses : Registered(s, a) <=> Keeps(s, a) /\ a # Kept(s)[1]
        <5>1. \A a \in Addresses : Registered(s, a)
                <=> \E i \in DOMAIN Kept(s) : Kept(s)[i] = a /\ i # 1
          BY <3>2 DEF Registered
        <5>2. \A a \in Addresses : \A i \in DOMAIN Kept(s) :
                Kept(s)[i] = a /\ i # 1 => a # Kept(s)[1]
          BY <4>2, HeapFacts DEF HeapInv, KeptOnce
        <5> QED
          BY <5>1, <5>2 DEF Keeps
      <4> QED
        BY <1>1, <4>1, <4>2, <4>3
    <3> QED
      BY <3>1, <3>2
  <2> QED
    BY <2>1 DEF ObjectsHeldBy
<1>3. heap = UNION {HeldBy(s) : s \in Servers}
  BY <1>1 DEF HeapInv, HeapAccounted
<1>4. objects = UNION {ObjectsHeldBy(s) : s \in Servers}
  <2>1. objects = {gbm_bo_handle_map[a] : a \in {b \in Addresses : gbm_bo_handle_map[b] # 0}}
    BY DEF HeapInv, HeapAccounted
  <2>2. \A a \in Addresses :
            gbm_bo_handle_map[a] # 0 <=> \E s \in Servers : Registered(s, a)
    BY DEF HeapInv, HeapAccounted
  <2>3. \A o : o \in objects <=> \E s \in Servers : o \in ObjectsHeldBy(s)
    BY <1>2, <2>1, <2>2
  <2> QED
    BY <2>3
<1>5. ASSUME NEW s \in Servers, NEW u \in Servers, s # u,
             NEW o \in ObjectsHeldBy(s) \cap ObjectsHeldBy(u)
      PROVE  FALSE
  <2>1. PICK a \in Addresses : Registered(s, a) /\ o = gbm_bo_handle_map[a]
    BY <1>2, <1>5
  <2>2. PICK b \in Addresses : Registered(u, b) /\ o = gbm_bo_handle_map[b]
    BY <1>2, <1>5
  <2>3. a = b
    BY <2>1, <2>2 DEF HeapInv, HeapAccounted
  <2> QED
    BY <1>5, <2>1, <2>2, <2>3, HeapFacts DEF Registered, HeapInv, KeptOnce
<1> QED
  BY <1>3, <1>4, <1>5 DEF NoBufferLeaks

(* The service keeps nothing of a call that returned, and the handles and  *)
(* objects that exist are each held by one call, whichever of its steps    *)
(* failed and whichever call has used the address before.                  *)
THEOREM NothingLeaks == Spec => []NoBufferLeaks
<1>1. Init => AllocInv /\ HeapInv
  BY HeapInit, AllocInit DEF Init
<1>2. AllocInv /\ HeapInv /\ [Next]_vars => (AllocInv /\ HeapInv)'
  BY AllocStep, HeapStep DEF Next, vars
<1> QED
  BY <1>1, <1>2, HeapIsHeld, PTL DEF Spec

-----------------------------------------------------------------------------
(* The stack: a client has a handle only of a request that was answered,   *)
(* and a lock of a YUV format only.                                        *)

StackInv ==
    /\ ClientInv
    /\ AllocInv
    /\ \A t \in Clients :
        /\ client[t] # Outside => results[client[t].handle[1]] > 0
        /\ At(t, "locked") => formatOf[client[t].handle] \in YuvFormats

LEMMA HandlesOfRequests ==
    ASSUME NEW h \in Handles
    PROVE  h[1] \in Requests /\ formatOf[h] = request[h[1]].format
BY StackAssumption

(* How a step of the client process moves a thread. *)
LEMMA ThreadMoves ==
    ASSUME ClientInv, LegacyNext(Received, LockUsages), NEW t \in Clients,
           client'[t] # Outside
    PROVE  /\ \/ client[t] # Outside /\ client'[t].handle = client[t].handle
              \/ client'[t].handle \in Received /\ client'[t].at = "register"
           /\ client'[t].at = "locked" =>
                \/ client[t].at = "locked"
                \/ formatOf[client'[t].handle] \in YuvFormats
<1>1. ASSUME NEW u \in Clients, NEW h \in Received, NEW usage \in LockUsages,
             CallLock(u, h, usage)
      PROVE  \/ client'[t] = client[t]
             \/ client'[t].handle \in Received /\ client'[t].at = "register"
  BY <1>1 DEF CallLock, ClientInv, ClientTyped
<1>2. ASSUME NEW u \in Clients, NEW place, place # "outside", At(u, place),
             NEW next \in {"outside", "register", "remember", "lock", "locked", "compare",
                           "unregister", "forget"},
             GoTo(u, next)
      PROVE  \/ client'[t] = client[t]
             \/ /\ t = u /\ client[t] # Outside
                /\ client'[t].handle = client[t].handle
                /\ client'[t].at = next
  <2>1. client[u] # Outside /\ client[u] \in ClientStates
    BY <1>2, Somewhere
  <2>2. PICK state \in ClientStates \cup {Outside} :
            /\ client' = [client EXCEPT ![u] = state]
            /\ state # Outside => state.handle = client[u].handle
            /\ state.at = next
    BY <1>2, <2>1, Going
  <2> QED
    BY <2>1, <2>2 DEF ClientInv, ClientTyped
<1>3. ASSUME NEW u \in Clients,
             \/ Register(u) \/ Remember(u)
             \/ Unlock(u) \/ Compare(u) \/ Unregister(u) \/ Forget(u)
      PROVE  \/ client'[t] = client[t]
             \/ /\ client[t] # Outside
                /\ client'[t].handle = client[t].handle
                /\ client'[t].at # "locked"
  <2>1. PICK place \in {"register", "remember", "locked", "compare", "unregister", "forget"},
             next \in {"outside", "remember", "lock", "compare", "unregister", "forget"} :
            At(u, place) /\ GoTo(u, next)
    BY <1>3 DEF Register, Remember, Unlock, Compare, Unregister, Forget
  <2> QED
    BY <1>2, <2>1
<1>4. ASSUME NEW u \in Clients, Lock(u)
      PROVE  \/ client'[t] = client[t]
             \/ /\ client[t] # Outside
                /\ client'[t].handle = client[t].handle
                /\ client'[t].at = "locked" => formatOf[client'[t].handle] \in YuvFormats
  <2>1. PICK err \in Codes :
            /\ gbm_lock_ycbcr(client[u].handle, lockUsage(u), err)
            /\ GoTo(u, IF err = "0" THEN "locked" ELSE "outside")
    BY <1>4 DEF Lock
  <2>2. err = "0" => formatOf[client[u].handle] \in YuvFormats
    BY <2>1 DEF gbm_lock_ycbcr
  <2>3. At(u, "lock")
    BY <1>4 DEF Lock
  <2>4. CASE err = "0"
    BY <1>2, <2>1, <2>2, <2>3, <2>4
  <2>5. CASE err # "0"
    BY <1>2, <2>1, <2>3, <2>5
  <2> QED
    BY <2>4, <2>5
<1> QED
  BY <1>1, <1>3, <1>4 DEF LegacyNext

LEMMA StackStep ==
    ASSUME StackInv, [Next]_vars
    PROVE  StackInv'
<1>1. ClientInv'
  BY ClientStep DEF StackInv
<1>2. AllocInv' /\ \A r \in Requests : results[r] > 0 => results'[r] = results[r]
  BY AllocStep DEF StackInv, Next, vars
<1>3. ASSUME NEW t \in Clients
      PROVE  /\ client'[t] # Outside => results'[client'[t].handle[1]] > 0
             /\ client'[t].at = "locked" => formatOf[client'[t].handle] \in YuvFormats
  <2>1. ASSUME client' = client
        PROVE  /\ client'[t] # Outside => results'[client'[t].handle[1]] > 0
               /\ client'[t].at = "locked" => formatOf[client'[t].handle] \in YuvFormats
    <3>1. ASSUME client[t] # Outside
          PROVE  client[t].handle[1] \in Requests
      BY <3>1, StateFacts, HandlesOfRequests DEF StackInv, ClientInv, ClientTyped
    <3> QED
      BY <1>2, <2>1, <3>1 DEF StackInv, At
  <2>2. ASSUME LegacyNext(Received, LockUsages), UNCHANGED allocatorVars
        PROVE  /\ client'[t] # Outside => results'[client'[t].handle[1]] > 0
               /\ client'[t].at = "locked" => formatOf[client'[t].handle] \in YuvFormats
    <3>1. results' = results
      BY <2>2 DEF allocatorVars
    <3>2. client'[t] = Outside => client'[t].at # "locked"
      BY StateFacts
    <3>3. CASE client'[t] # Outside
      <4>1. /\ \/ client[t] # Outside /\ client'[t].handle = client[t].handle
               \/ client'[t].handle \in Received /\ client'[t].at = "register"
            /\ client'[t].at = "locked" =>
                 \/ client[t].at = "locked"
                 \/ formatOf[client'[t].handle] \in YuvFormats
        BY <2>2, <3>3, ThreadMoves DEF StackInv
      <4> QED
        BY <3>1, <4>1 DEF StackInv, Received, At
    <3> QED
      BY <3>2, <3>3
  <2> QED
    BY <2>1, <2>2 DEF Next, vars, legacyVars
<1> QED
  BY <1>1, <1>2, <1>3 DEF StackInv, At

LEMMA StackInit == Init => StackInv
<1> SUFFICES ASSUME Init PROVE StackInv
  OBVIOUS
<1>1. ClientInv
  BY ClientInit
<1>2. AllocInv
  BY AllocInit DEF Init
<1>3. \A t \in Clients : client[t] = Outside
  BY DEF Init, LegacyInit
<1> QED
  BY <1>1, <1>2, <1>3, StateFacts DEF StackInv, At

(* The planes a thread has locked are those the mapper describes and lie   *)
(* in the object the allocator had from gbm, for requests of any size with *)
(* an even YV12 one, and any strides of gbm.                               *)
THEOREM PlanesStayInBuffer ==
    ASSUME \A r \in Requests :
                Even(request[r].format, request[r].width, request[r].height)
    PROVE  Spec => []PlanesInBuffer
<1>1. StackInv => PlanesInBuffer
  <2> SUFFICES ASSUME StackInv, NEW t \in Clients, At(t, "locked")
               PROVE  LET r == client[t].handle[1] IN
                      /\ LayoutsAgree(request[r].format, request[r].width, request[r].height)
                      /\ PlanesFit(request[r].format, request[r].width, request[r].height,
                                   results[r])
    BY DEF PlanesInBuffer
  <2> DEFINE h == client[t].handle
             r == h[1]
             format == request[r].format
             width == request[r].width
             height == request[r].height
  <2>1. h \in Handles /\ client[t] # Outside
    BY Somewhere DEF StackInv
  <2>2. r \in Requests /\ formatOf[h] = format
    BY <2>1, HandlesOfRequests
  <2>3. width \in Nat \ {0} /\ height \in Nat \ {0}
    BY <2>2, AllocatorAssumption
  <2>4. format \in YuvFormats
    BY <2>2 DEF StackInv
  <2>5. results[r] \in GbmStrides(r) /\ get_gbm_format(format) # "none"
    BY <2>1, <2>2 DEF StackInv, AllocInv, ResultsGranted, Granted
  <2>6. format \in Planar420
    BY <2>4, <2>5 DEF YuvFormats, get_gbm_format, Planar420, Rgba32
  <2>7. results[r] \in Nat
    BY <2>2, <2>5, StridesAreNat
  <2>8. 2 * GbmWidth(format, width) \in Nat
    BY <2>3 DEF GbmWidth
  <2>9. results[r] >= Align(2 * GbmWidth(format, width), 32)
    BY <2>5, <2>8, AlignFacts DEF GbmStrides
  <2>10. Even(format, width, height)
    BY <2>2
  <2> HIDE DEF format, width, height, r
  <2>11. LayoutsAgree(format, width, height)
    BY <2>3, <2>4, PlanesAgree
  <2>12. PlanesFit(format, width, height, results[r])
    BY <2>3, <2>6, <2>7, <2>9, <2>10, PlanesFitPlanar
  <2> QED
    BY <2>11, <2>12 DEF format, width, height, r
<1> QED
  BY <1>1, StackInit, StackStep, PTL DEF Spec

-----------------------------------------------------------------------------
(* The two translations of a usage.  BufferUsage names no other values of  *)
(* the bits of its two CPU masks.                                          *)
Named(usage) ==
    /\ usage \cap CpuReadMask \in {{}, ReadRarely, ReadOften}
    /\ usage \cap CpuWriteMask \in {{}, WriteRarely, WriteOften}

LEMMA BitsOf ==
    ASSUME NEW R \in SUBSET (0 .. 31), Named(R)
    PROVE  /\ readBits(R) = IF 0 \in R THEN {1, 2} ELSE IF 1 \in R THEN {1} ELSE {}
           /\ writeBits(R) = IF 4 \in R THEN {5, 6} ELSE IF 5 \in R THEN {5} ELSE {}
           /\ 0 \in R => 1 \in R
           /\ 4 \in R => 5 \in R
           /\ R \cap (CpuReadMask \cup CpuWriteMask) \subseteq {0, 1, 4, 5}
<1>1. /\ 0 \in CpuReadMask /\ 1 \in CpuReadMask /\ 4 \in CpuWriteMask /\ 5 \in CpuWriteMask
  BY DEF CpuReadMask, CpuWriteMask
<1>2. /\ 0 \in R <=> R \cap CpuReadMask = {0, 1}
      /\ 1 \in R /\ 0 \notin R <=> R \cap CpuReadMask = {1}
  BY <1>1 DEF Named, ReadRarely, ReadOften
<1>3. /\ 4 \in R <=> R \cap CpuWriteMask = {4, 5}
      /\ 5 \in R /\ 4 \notin R <=> R \cap CpuWriteMask = {5}
  BY <1>1 DEF Named, WriteRarely, WriteOften
<1>4. readBits(R) = IF 0 \in R THEN {1, 2} ELSE IF 1 \in R THEN {1} ELSE {}
  BY <1>2 DEF readBits, ReadRarely, ReadOften, CpuRead, CpuReadOften
<1>5. writeBits(R) = IF 4 \in R THEN {5, 6} ELSE IF 5 \in R THEN {5} ELSE {}
  BY <1>3 DEF writeBits, WriteRarely, WriteOften, CpuWrite, CpuWriteOften
<1>6. R \cap (CpuReadMask \cup CpuWriteMask) \subseteq {0, 1, 4, 5}
  BY DEF Named, ReadRarely, ReadOften, WriteRarely, WriteOften
<1> QED
  BY <1>1, <1>2, <1>3, <1>4, <1>5, <1>6

(* The usage of a lock is within that of the allocation, whatever part of  *)
(* it the lock asks for.                                                   *)
LEMMA TranslationsAgree ==
    ASSUME NEW R \in SUBSET (0 .. 31), Named(R), NEW u \in SUBSET R
    PROVE  /\ android_convertGralloc0To1Usage(u)
                \subseteq toProducerUsage(R) \cup toConsumerUsage(R)
           /\ u \cap (CpuReadMask \cup CpuWriteMask) # {}
                => (toProducerUsage(R) \cup toConsumerUsage(R))
                        \cap (CpuReadOften \cup CpuWriteOften) # {}
<1> DEFINE all == toProducerUsage(R) \cup toConsumerUsage(R)
<1>1. /\ \A x \in R : x \notin 0 .. 7 => x \in all
      /\ readBits(R) \subseteq all /\ writeBits(R) \subseteq all
  BY DEF toProducerUsage, toConsumerUsage, CpuReadMask, CpuWriteMask, GpuData, SensorDirect
<1> HIDE DEF all
<1>2. /\ 1 \in R => 1 \in all
      /\ 5 \in R => 5 \in all
      /\ 0 \in R => {1, 2} \subseteq all
      /\ 4 \in R => {5, 6} \subseteq all
  BY <1>1, BitsOf
<1>3. u \cap Gralloc0Mask \subseteq all
  <2>1. \A x \in Gralloc0Mask : x = 1 \/ x = 5 \/ x \notin 0 .. 7
    BY DEF Gralloc0Mask, CpuRead, CpuWrite
  <2> QED
    BY <1>1, <1>2, <2>1
<1>4. /\ ReadOften \subseteq u => CpuReadOften \subseteq all
      /\ WriteOften \subseteq u => CpuWriteOften \subseteq all
  BY <1>2 DEF ReadOften, WriteOften, CpuReadOften, CpuWriteOften
<1>5. android_convertGralloc0To1Usage(u) \subseteq all
  BY <1>3, <1>4 DEF android_convertGralloc0To1Usage
<1>6. u \cap (CpuReadMask \cup CpuWriteMask) # {} => all \cap (CpuReadOften \cup CpuWriteOften) # {}
  <2>1. ASSUME NEW x \in u \cap (CpuReadMask \cup CpuWriteMask)
        PROVE  1 \in R \/ 5 \in R
    <3>1. x \in R \cap (CpuReadMask \cup CpuWriteMask)
      BY <2>1
    <3>2. x \in {0, 1, 4, 5} /\ x \in R
      BY <3>1, BitsOf
    <3> QED
      BY <3>2, BitsOf
  <2> QED
    BY <1>2, <2>1 DEF CpuReadOften, CpuWriteOften
<1> QED
  BY <1>5, <1>6 DEF all

(* What was allocated for a usage can be locked for it or a part of it     *)
(* (toProducerUsage and toConsumerUsage against                            *)
(* android_convertGralloc0To1Usage), and is linear if that is a CPU usage. *)
THEOREM AllocatedIsLockable ==
    ASSUME \A r \in Requests : Named(request[r].usage)
    PROVE  Spec => []LockableAsAllocated
<1>1. ClientInv => LockableAsAllocated
  <2> SUFFICES ASSUME ClientInv, NEW t \in Clients, At(t, "lock"),
                      client[t].usage \subseteq request[client[t].handle[1]].usage
               PROVE  /\ UsageAllowed(client[t].handle, lockUsage(t))
                      /\ client[t].usage \cap (CpuReadMask \cup CpuWriteMask) # {}
                            => "LINEAR" \in get_pipe_bind(handleUsage[client[t].handle])
    BY DEF LockableAsAllocated
  <2> DEFINE h == client[t].handle
             R == request[h[1]].usage
  <2>1. h \in Handles
    BY Somewhere
  <2>2. h[1] \in Requests
    BY <2>1, HandlesOfRequests
  <2>3. R \in SUBSET (0 .. 31) /\ Named(R)
    BY <2>2, AllocatorAssumption
  <2>4. handleUsage[h] = toProducerUsage(R) \cup toConsumerUsage(R)
    BY <2>1, StackAssumption DEF allocatedUsage
  <2>5. lockUsage(t) \subseteq handleUsage[h]
    BY <2>3, <2>4, TranslationsAgree DEF lockUsage
  <2>6. client[t].usage \cap (CpuReadMask \cup CpuWriteMask) # {}
            => handleUsage[h] \cap (CpuReadOften \cup CpuWriteOften) # {}
    BY <2>3, <2>4, TranslationsAgree
  <2> QED
    BY <2>5, <2>6 DEF UsageAllowed, get_pipe_bind
<1> QED
  BY <1>1, ClientInit, ClientStep, PTL DEF Spec

-----------------------------------------------------------------------------
(* The type invariant. *)

LEMMA LockUsagesAreUsages ==
    ASSUME NEW usage \in SUBSET Usages
    PROVE  android_convertGralloc0To1Usage(usage) \in SUBSET Usages
<1>1. CpuReadOften \subseteq Usages /\ CpuWriteOften \subseteq Usages
  BY StackAssumption DEF CpuReadOften, CpuWriteOften
<1>2. usage \cap Gralloc0Mask \subseteq Usages
  OBVIOUS
<1> QED
  BY <1>1, <1>2 DEF android_convertGralloc0To1Usage

LEMMA LegacyTyped ==
    ASSUME LegacyTypeOK, ClientInv, [Next]_vars
    PROVE  LegacyTypeOK'
<1>1. CASE UNCHANGED legacyVars
  BY <1>1 DEF legacyVars, gbmVars, LegacyTypeOK, GbmTypeOK
<1>2. ASSUME NEW t \in Clients, NEW h \in Received, NEW usage \in LockUsages,
             CallLock(t, h, usage)
      PROVE  GbmTypeOK' /\ gbm' \in BOOLEAN /\ rhandle' \in Handles \cup {NoHandle}
  BY <1>2 DEF CallLock, gbmVars, LegacyTypeOK, GbmTypeOK
<1>3. ASSUME NEW t \in Clients, Register(t)
      PROVE  GbmTypeOK' /\ gbm' \in BOOLEAN /\ rhandle' \in Handles \cup {NoHandle}
  <2>1. client[t].handle \in Handles
    BY <1>3, Somewhere DEF Register
  <2>2. gbm' \in BOOLEAN /\ rhandle' = rhandle
    BY <1>3 DEF Register, gbm_mod_register, gbm_mod_init, LegacyTypeOK
  <2>3. \/ UNCHANGED gbmVars
        \/ /\ keys' = keys \cup {client[t].handle} /\ bos' = bos \cup {client[t].handle}
           /\ UNCHANGED <<hasData, mapped, lock_count, locked_for>>
    BY <1>3 DEF Register, gbm_mod_register, gbm_register, gbmVars
  <2>4. GbmTypeOK'
    BY <2>1, <2>3 DEF gbmVars, GbmTypeOK, LegacyTypeOK
  <2> QED
    BY <2>2, <2>4 DEF LegacyTypeOK
<1>4. ASSUME NEW t \in Clients, Remember(t) \/ Compare(t) \/ Forget(t)
      PROVE  GbmTypeOK' /\ gbm' \in BOOLEAN /\ rhandle' \in Handles \cup {NoHandle}
  <2>1. client[t].handle \in Handles
    BY <1>4, Somewhere DEF Remember, Compare, Forget
  <2>2. UNCHANGED <<gbmVars, gbm>> /\ rhandle' \in {rhandle, NoHandle, client[t].handle}
    BY <1>4 DEF Remember, Compare, Forget
  <2> QED
    BY <2>1, <2>2 DEF gbmVars, GbmTypeOK, LegacyTypeOK
<1>5. ASSUME NEW t \in Clients, Lock(t)
      PROVE  GbmTypeOK' /\ gbm' \in BOOLEAN /\ rhandle' \in Handles \cup {NoHandle}
  <2> DEFINE h == client[t].handle
  <2>1. h \in Handles /\ client[t] \in ClientStates
    BY <1>5, Somewhere DEF Lock
  <2>2. lockUsage(t) \in SUBSET Usages
    BY <2>1, LockUsagesAreUsages, StackAssumption DEF ClientStates, lockUsage
  <2>3. PICK locked \in Codes : gbm_lock(h, lockUsage(t), locked)
    BY <1>5 DEF Lock, gbm_lock_ycbcr
  <2>4. /\ keys' = keys \cup {h} /\ bos' = bos
        /\ \/ UNCHANGED <<hasData, mapped, lock_count, locked_for>>
           \/ /\ h \in bos /\ hasData' = hasData \cup {h}
              /\ mapped' = mapped \/ mapped' = mapped \cup {h}
              /\ \/ UNCHANGED <<lock_count, locked_for>>
                 \/ /\ lock_count' = [lock_count EXCEPT ![h] = @ + 1]
                    /\ locked_for' = [locked_for EXCEPT ![h] = @ \cup lockUsage(t)]
    BY <2>3 DEF gbm_lock, gralloc_gbm_bo_from_handle, gbm_map, AddLock
  <2>5. /\ lock_count' \in [Handles -> Nat]
        /\ locked_for' \in [Handles -> SUBSET Usages]
    BY <2>1, <2>2, <2>4 DEF LegacyTypeOK, GbmTypeOK
  <2>6. GbmTypeOK'
    BY <2>1, <2>4, <2>5 DEF LegacyTypeOK, GbmTypeOK
  <2> QED
    BY <1>5, <2>6 DEF Lock, LegacyTypeOK
<1>6. ASSUME NEW t \in Clients, Unlock(t)
      PROVE  GbmTypeOK' /\ gbm' \in BOOLEAN /\ rhandle' \in Handles \cup {NoHandle}
  <2> DEFINE h == client[t].handle
  <2>1. h \in Handles
    BY <1>6, Somewhere DEF Unlock
  <2>2. \/ UNCHANGED gbmVars
        \/ /\ keys' = keys \cup {h} /\ UNCHANGED <<bos, hasData>>
           /\ mapped' \subseteq mapped
           /\ \/ UNCHANGED <<lock_count, locked_for>>
              \/ /\ lock_count[h] # 0 /\ lock_count' = [lock_count EXCEPT ![h] = @ - 1]
                 /\ locked_for' = [locked_for EXCEPT ![h] = IF lock_count[h] = 1 THEN {} ELSE @]
    BY <1>6 DEF Unlock, gbm_unlock, gralloc_gbm_bo_from_handle
  <2>3. /\ lock_count' \in [Handles -> Nat]
        /\ locked_for' \in [Handles -> SUBSET Usages]
    BY <2>1, <2>2 DEF LegacyTypeOK, GbmTypeOK, gbmVars
  <2>4. GbmTypeOK'
    BY <2>1, <2>2, <2>3 DEF LegacyTypeOK, GbmTypeOK, gbmVars
  <2> QED
    BY <1>6, <2>4 DEF Unlock, LegacyTypeOK
<1>7. ASSUME NEW t \in Clients, Unregister(t)
      PROVE  GbmTypeOK' /\ gbm' \in BOOLEAN /\ rhandle' \in Handles \cup {NoHandle}
  <2>1. client[t].handle \in Handles
    BY <1>7, Somewhere DEF Unregister
  <2>2. GbmTypeOK'
    BY <1>7, <2>1 DEF Unregister, gbm_free, gralloc_gbm_bo_from_handle, LegacyTypeOK, GbmTypeOK
  <2> QED
    BY <1>7, <2>2 DEF Unregister, LegacyTypeOK
<1>8. \A t \in Clients : client'[t].at \in
        {"outside", "register", "remember", "lock", "locked", "compare", "unregister", "forget"}
  <2>1. client' \in [Clients -> ClientStates \cup {Outside}]
    BY ClientStep DEF ClientInv, ClientTyped
  <2> QED
    BY <2>1, StateFacts DEF ClientStates
<1>9. CASE LegacyNext(Received, LockUsages)
  <2>1. GbmTypeOK' /\ gbm' \in BOOLEAN /\ rhandle' \in Handles \cup {NoHandle}
    BY <1>2, <1>3, <1>4, <1>5, <1>6, <1>7, <1>9 DEF LegacyNext
  <2> QED
    BY <1>8, <2>1 DEF LegacyTypeOK
<1> QED
  BY <1>1, <1>9 DEF Next, vars

LEMMA LegacyTypedInit == LegacyInit => LegacyTypeOK
<1> SUFFICES ASSUME LegacyInit PROVE LegacyTypeOK
  OBVIOUS
<1>1. GbmTypeOK
  BY DEF LegacyInit, GbmInit, GbmTypeOK
<1>2. \A t \in Clients : client[t] = Outside
  BY DEF LegacyInit
<1>3. gbm \in BOOLEAN /\ rhandle \in Handles \cup {NoHandle}
  BY DEF LegacyInit
<1> QED
  BY <1>1, <1>2, <1>3, StateFacts DEF LegacyTypeOK

(* Types of both processes' state. *)
THEOREM TypeCorrect == Spec => []TypeOK
<1>1. AllocInv /\ HeapInv => AllocatorTypeOK
  <2> SUFFICES ASSUME AllocInv, HeapInv PROVE AllocatorTypeOK
    OBVIOUS
  <2>1. \A s \in Servers : calls[s].at \in {"idle", "create", "export", "rollback", "free"}
    BY DEF AllocInv, CallsTyped, CallStates, Waiting
  <2>2. gbm_bo_handle_map \in [Addresses -> Objects \cup {0}]
    BY DEF HeapInv, HeapTyped
  <2>3. objects \subseteq Objects /\ heap \subseteq Addresses
    BY <2>2 DEF HeapInv, HeapAccounted
  <2> QED
    BY <2>1, <2>2, <2>3 DEF AllocatorTypeOK
<1>2. Init => AllocInv /\ HeapInv /\ ClientInv /\ LegacyTypeOK
  BY HeapInit, AllocInit, ClientInit, LegacyTypedInit DEF Init
<1>3. AllocInv /\ HeapInv /\ ClientInv /\ LegacyTypeOK /\ [Next]_vars
        => (AllocInv /\ HeapInv /\ ClientInv /\ LegacyTypeOK)'
  BY AllocStep, HeapStep, ClientStep, LegacyTyped DEF Next, vars
<1>4. AllocatorTypeOK /\ LegacyTypeOK => TypeOK
  BY DEF TypeOK
<1> QED
  BY <1>1, <1>2, <1>3, <1>4, PTL DEF Spec
=============================================================================
