----------------------------- MODULE SyncProofs -----------------------------
(***************************************************************************)
(* The syncer keeps the order of each file's uploads, whether the store    *)
(* works or fails, and a page that does not show the files is always due   *)
(* to be generated again, for any callers, files, contents and capacity    *)
(* and any number of regenerations waiting for each other.                 *)
(***************************************************************************)
EXTENDS Viz, SequenceTheorems, TLAPS

-----------------------------------------------------------------------------
(* Uploads.                                                                *)

\* A caller is busy with one file of its own.
CallersOwn ==
    /\ changed \in [Caller -> SUBSET Key]
    /\ \A c \in Caller : \A k \in changed[c] : Owner[k] = c /\ changed[c] = {k}
    /\ \A c \in Caller : ~NoCall(c) => Owner[call[c][1].key] = c

OrderInv == TypeOK /\ CallersOwn /\ NewestIsLast

Calls == {<< >>} \union {<<r>> : r \in Request}

-----------------------------------------------------------------------------
\* A call holds one request.
LEMMA CallShape ==
    ASSUME TypeOK, NEW c \in Caller, ~NoCall(c)
    PROVE  /\ call[c] = <<call[c][1]>>
           /\ call[c][1] \in Request
<1>1. PICK r \in Request : call[c] = <<r>>
  BY DEF TypeOK, NoCall
<1> QED BY <1>1

LEMMA InitOrder == Init => OrderInv
<1> SUFFICES ASSUME Init PROVE OrderInv
  OBVIOUS
<1>1. TypeOK
  BY CapacityAssumption DEF Init, TypeOK
<1>2. CallersOwn
  BY DEF Init, CallersOwn, NoCall
<1>3. NewestIsLast
  BY OwnerAssumption DEF Init, NewestIsLast, Unsent, NoCall
<1> QED BY <1>1, <1>2, <1>3 DEF OrderInv

-----------------------------------------------------------------------------
(* One lemma per step.                                                     *)

LEMMA ChangeKeepsOrder ==
    ASSUME OrderInv, NEW c \in Caller, NEW k \in Key, NEW d \in Data \union {Absent},
           Change(c, k, d)
    PROVE  OrderInv'
<1>1. TypeOK'
  BY DEF OrderInv, Change, TypeOK
<1>2. CallersOwn'
  BY DEF OrderInv, CallersOwn, Change, NoCall
<1>3. NewestIsLast'
  <2> SUFFICES ASSUME NEW j \in Key, open, j \notin changed'[Owner[j]]
               PROVE  IF Unsent(j)' THEN call'[Owner[j]][1].data = local'[j]
                      ELSE \A n \in 1..Len(queue') :
                              LastQueued(j, n)' => queue'[n].data = local'[j]
    BY DEF NewestIsLast, Change
  <2>1. j # k
    BY DEF Change, OrderInv, CallersOwn
  <2>2. j \notin changed[Owner[j]]
    <3>1. Owner[j] \in Caller
      BY OwnerAssumption
    <3>2. CASE Owner[j] = c
      BY <3>2 DEF Change
    <3>3. CASE Owner[j] # c
      BY <3>1, <3>3 DEF Change, OrderInv, CallersOwn
    <3> QED BY <3>2, <3>3
  <2>3. local'[j] = local[j]
    BY <2>1 DEF Change, OrderInv, TypeOK
  <2> QED
    BY <2>2, <2>3 DEF OrderInv, NewestIsLast, Change, Unsent, NoCall, LastQueued
<1> QED BY <1>1, <1>2, <1>3 DEF OrderInv

\* Both hooks leave one request for the file, with what the file holds.
LEMMA HookSends ==
    ASSUME OrderInv, NEW c \in Caller, NEW k \in changed[c],
           IF local[k] = Absent THEN DeleteFile(c, k) ELSE PushFile(c, k)
    PROVE  /\ NoCall(c)
           /\ call' = [call EXCEPT ![c] = <<[key |-> k, data |-> local[k]]>>]
           /\ UNCHANGED <<local, store, queue, open>>
BY DEF PushFile, DeleteFile

LEMMA HookKeepsOrder ==
    ASSUME OrderInv, NEW c \in Caller, Hook(c)
    PROVE  OrderInv'
<1>1. PICK k \in changed[c] :
         /\ IF local[k] = Absent THEN DeleteFile(c, k) ELSE PushFile(c, k)
         /\ changed' = [changed EXCEPT ![c] = {}]
  BY DEF Hook
<1>2. k \in Key /\ Owner[k] = c /\ changed[c] = {k}
  BY DEF OrderInv, CallersOwn
<1> DEFINE sent == [key |-> k, data |-> local[k]]
<1>3. /\ NoCall(c)
      /\ call' = [call EXCEPT ![c] = <<sent>>]
      /\ UNCHANGED <<local, store, queue, open>>
  BY <1>1, HookSends
<1>4. sent \in Request
  BY <1>2 DEF OrderInv, TypeOK, Request
<1>5. TypeOK'
  BY <1>3, <1>4 DEF OrderInv, TypeOK
<1>6. call'[c] = <<sent>> /\ \A b \in Caller \ {c} : call'[b] = call[b]
  BY <1>3 DEF OrderInv, TypeOK
<1>7. changed'[c] = {} /\ \A b \in Caller \ {c} : changed'[b] = changed[b]
  BY <1>1 DEF OrderInv, CallersOwn
<1>8. CallersOwn'
  <2>1. changed' \in [Caller -> SUBSET Key]
    BY <1>1 DEF OrderInv, CallersOwn
  <2>2. ASSUME NEW b \in Caller, ~NoCall(b)'
        PROVE  Owner[call'[b][1].key] = b
    <3>1. CASE b = c
      BY <3>1, <1>2, <1>6
    <3>2. CASE b # c
      BY <3>2, <2>2, <1>6 DEF OrderInv, CallersOwn, NoCall
    <3> QED BY <3>1, <3>2
  <2> QED BY <2>1, <2>2, <1>7 DEF OrderInv, CallersOwn
<1>9. NewestIsLast'
  <2> SUFFICES ASSUME NEW j \in Key, open, j \notin changed'[Owner[j]]
               PROVE  IF Unsent(j)' THEN call'[Owner[j]][1].data = local[j]
                      ELSE \A n \in 1..Len(queue) :
                              LastQueued(j, n) => queue[n].data = local[j]
    BY <1>3 DEF NewestIsLast, LastQueued
  <2>1. Owner[j] \in Caller
    BY OwnerAssumption
  <2>2. CASE j = k
    BY <2>2, <1>2, <1>6 DEF Unsent, NoCall
  <2>3. CASE j # k /\ Owner[j] = c
    <3>1. j \notin changed[c] /\ ~Unsent(j)
      BY <2>3, <1>2, <1>3 DEF Unsent
    <3>2. ~Unsent(j)'
      BY <2>3, <1>6 DEF Unsent
    <3> QED BY <3>1, <3>2, <2>3 DEF OrderInv, NewestIsLast
  <2>4. CASE Owner[j] # c
    <3>1. j \notin changed[Owner[j]] /\ (Unsent(j)' <=> Unsent(j))
      BY <2>1, <2>4, <1>6, <1>7 DEF Unsent, NoCall
    <3> QED BY <3>1, <2>1, <2>4, <1>6 DEF OrderInv, NewestIsLast
  <2> QED BY <2>2, <2>3, <2>4
<1> QED BY <1>5, <1>8, <1>9 DEF OrderInv

LEMMA SendKeepsOrder ==
    ASSUME OrderInv, NEW c \in Caller, Send(c), UNCHANGED changed
    PROVE  OrderInv'
<1> DEFINE sent == call[c][1]
           size == Len(queue)
<1>1. call[c] = <<sent>> /\ sent \in Request /\ Owner[sent.key] = c
  BY CallShape DEF OrderInv, CallersOwn, Send
<1>2. queue \in Seq(Request) /\ size \in Nat
  BY DEF OrderInv, TypeOK
<1>3. queue' = Append(queue, sent)
  BY <1>1, <1>2 DEF Send
<1>4. /\ Len(queue') = size + 1
      /\ queue'[size + 1] = sent
      /\ \A n \in 1..size : queue'[n] = queue[n]
  BY <1>2, <1>3
<1>5. call'[c] = << >> /\ \A b \in Caller \ {c} : call'[b] = call[b]
  BY DEF Send, OrderInv, TypeOK
<1>6. TypeOK'
  <2>1. queue' \in Seq(Request)
    BY <1>1, <1>2, <1>3
  <2>2. Len(queue') <= Capacity
    BY <1>2, <1>4, CapacityAssumption DEF Send
  <2>3. call' \in [Caller -> {<< >>} \union {<<r>> : r \in Request}]
    BY DEF Send, OrderInv, TypeOK
  <2> QED BY <2>1, <2>2, <2>3 DEF Send, OrderInv, TypeOK
<1>7. CallersOwn'
  BY <1>5 DEF OrderInv, CallersOwn, NoCall
<1>8. NewestIsLast'
  <2> SUFFICES ASSUME NEW j \in Key, open, j \notin changed[Owner[j]]
               PROVE  IF Unsent(j)' THEN call'[Owner[j]][1].data = local[j]
                      ELSE \A n \in 1..Len(queue') :
                              LastQueued(j, n)' => queue'[n].data = local[j]
    BY DEF NewestIsLast, Send
  <2>1. Owner[j] \in Caller
    BY OwnerAssumption
  <2>2. ASSUME j # sent.key, NEW n \in 1..Len(queue'), LastQueued(j, n)'
        PROVE  n \in 1..size /\ LastQueued(j, n) /\ queue'[n] = queue[n]
    <3>1. queue'[n].key = j /\ \A m \in (n + 1)..(size + 1) : queue'[m].key # j
      BY <2>2, <1>4 DEF LastQueued
    <3>2. n \in 1..size
      BY <3>1, <2>2, <1>2, <1>4
    <3>3. \A m \in (n + 1)..size : queue[m].key # j
      BY <3>1, <3>2, <1>2, <1>4
    <3> QED BY <3>1, <3>2, <3>3, <1>4 DEF LastQueued
  <2>3. CASE Owner[j] = c
    <3>1. ~Unsent(j)'
      BY <2>3, <1>5 DEF Unsent, NoCall
    <3>2. CASE j = sent.key
      <4>1. sent.data = local[j]
        BY <3>2, <2>3, <1>1 DEF OrderInv, NewestIsLast, Unsent, NoCall, Send
      <4>2. ASSUME NEW n \in 1..Len(queue'), LastQueued(j, n)'
            PROVE  n = size + 1
        <5>1. \A m \in (n + 1)..(size + 1) : queue'[m].key # j
          BY <4>2, <1>4 DEF LastQueued
        <5>2. ~(size + 1 \in (n + 1)..(size + 1))
          BY <5>1, <1>4, <3>2
        <5> QED BY <5>2, <1>2, <1>4
      <4> QED BY <3>1, <4>1, <4>2, <1>4
    <3>3. CASE j # sent.key
      <4>1. ~Unsent(j)
        BY <3>3, <2>3 DEF Unsent
      <4>2. \A n \in 1..size : LastQueued(j, n) => queue[n].data = local[j]
        BY <4>1 DEF OrderInv, NewestIsLast
      <4> QED BY <3>1, <3>3, <4>2, <2>2
    <3> QED BY <3>2, <3>3
  <2>4. CASE Owner[j] # c
    <3>1. j # sent.key
      BY <2>4, <1>1
    <3>2. Unsent(j)' <=> Unsent(j)
      BY <2>1, <2>4, <1>5 DEF Unsent, NoCall
    <3>3. CASE Unsent(j)
      BY <3>2, <3>3, <2>1, <2>4, <1>5 DEF OrderInv, NewestIsLast
    <3>4. CASE ~Unsent(j)
      <4>1. \A n \in 1..size : LastQueued(j, n) => queue[n].data = local[j]
        BY <3>4 DEF OrderInv, NewestIsLast
      <4> QED BY <3>1, <3>2, <3>4, <4>1, <2>2
    <3> QED BY <3>3, <3>4
  <2> QED BY <2>3, <2>4
<1> QED BY <1>6, <1>7, <1>8 DEF OrderInv

LEMMA SendPanicsKeepsOrder ==
    ASSUME OrderInv, NEW c \in Caller, SendPanics(c), UNCHANGED changed
    PROVE  OrderInv'
<1>1. TypeOK'
  BY DEF OrderInv, TypeOK, SendPanics
<1>2. call'[c] = << >> /\ \A b \in Caller \ {c} : call'[b] = call[b]
  BY DEF SendPanics, OrderInv, TypeOK
<1>3. CallersOwn'
  BY <1>2 DEF OrderInv, CallersOwn, NoCall
<1>4. NewestIsLast'
  BY DEF SendPanics, NewestIsLast
<1> QED BY <1>1, <1>3, <1>4 DEF OrderInv

LEMMA LoopKeepsOrder ==
    ASSUME OrderInv, LoopStep, UNCHANGED changed
    PROVE  OrderInv'
<1>1. /\ queue # << >>
      /\ queue' = Tail(queue)
      /\ UNCHANGED <<local, call, open>>
  BY DEF LoopStep, Deliver, DeliverFails
<1>2. queue \in Seq(Request) /\ Len(queue) \in Nat
  BY DEF OrderInv, TypeOK
<1>3. /\ queue' \in Seq(Request)
      /\ Len(queue') = Len(queue) - 1
      /\ \A n \in 1..Len(queue') : queue'[n] = queue[n + 1]
  BY <1>1, <1>2
<1>4. store' \in [Key -> Data \union {Absent}]
  <2>1. Head(queue) \in Request
    BY <1>1, <1>2
  <2> QED
    BY <2>1 DEF LoopStep, Deliver, DeliverFails, OrderInv, TypeOK, Request
<1>5. TypeOK'
  BY <1>1, <1>2, <1>3, <1>4, CapacityAssumption DEF OrderInv, TypeOK
<1>6. CallersOwn'
  BY <1>1 DEF OrderInv, CallersOwn, NoCall
<1>7. NewestIsLast'
  <2> SUFFICES ASSUME NEW j \in Key, open, j \notin changed[Owner[j]]
               PROVE  IF Unsent(j) THEN call[Owner[j]][1].data = local[j]
                      ELSE \A n \in 1..Len(queue') :
                              LastQueued(j, n)' => queue'[n].data = local[j]
    BY <1>1 DEF NewestIsLast, Unsent, NoCall
  <2>1. ASSUME NEW n \in 1..Len(queue'), LastQueued(j, n)'
        PROVE  n + 1 \in 1..Len(queue) /\ LastQueued(j, n + 1)
    <3>1. \A m \in (n + 2)..Len(queue) :
             m - 1 \in (n + 1)..Len(queue') /\ queue[m] = queue'[m - 1]
      BY <1>2, <1>3
    <3> QED BY <3>1, <2>1, <1>2, <1>3 DEF LastQueued
  <2> QED BY <2>1, <1>3 DEF OrderInv, NewestIsLast
<1> QED BY <1>5, <1>6, <1>7 DEF OrderInv

LEMMA NextOrder == OrderInv /\ [Next]_syncVars => OrderInv'
<1> SUFFICES ASSUME OrderInv, [Next]_syncVars PROVE OrderInv'
  OBVIOUS
<1>1. CASE \E c \in Caller, k \in Key, d \in Data \union {Absent} : Change(c, k, d)
  BY <1>1, ChangeKeepsOrder
<1>2. CASE \E c \in Caller : Hook(c)
  BY <1>2, HookKeepsOrder
<1>3. CASE \E c \in Caller : Send(c) /\ UNCHANGED changed
  BY <1>3, SendKeepsOrder
<1>4. CASE \E c \in Caller : SendPanics(c) /\ UNCHANGED changed
  BY <1>4, SendPanicsKeepsOrder
<1>5. CASE LoopStep /\ UNCHANGED changed
  BY <1>5, LoopKeepsOrder
<1>6. CASE Close /\ UNCHANGED changed
  <2>1. TypeOK' /\ CallersOwn'
    BY <1>6 DEF Close, OrderInv, TypeOK, CallersOwn, NoCall
  <2>2. NewestIsLast'
    BY <1>6 DEF Close, NewestIsLast
  <2> QED BY <2>1, <2>2 DEF OrderInv
<1>7. CASE UNCHANGED syncVars
  BY <1>7 DEF syncVars, OrderInv, TypeOK, CallersOwn, NewestIsLast, NoCall, Unsent, LastQueued
<1> QED BY <1>1, <1>2, <1>3, <1>4, <1>5, <1>6, <1>7 DEF Next

-----------------------------------------------------------------------------
LEMMA OrderInvariant == Init /\ [][Next]_syncVars => []OrderInv
<1> QED BY InitOrder, NextOrder, PTL

\* Whatever callers do and the store answers, the channel never holds more
\* than its capacity, and every call is for one request.
THEOREM SyncTypeCorrect == Spec => []TypeOK
<1>1. OrderInv => TypeOK
  BY DEF OrderInv
<1> QED BY <1>1, OrderInvariant, PTL DEF Spec

\* The youngest content of a file with one writer is always the last to be
\* uploaded: the push loop cannot leave an older one in the object store.
THEOREM UploadsKeepOrder == Spec => []NewestIsLast
<1>1. OrderInv => NewestIsLast
  BY DEF OrderInv
<1> QED BY <1>1, OrderInvariant, PTL DEF Spec

-----------------------------------------------------------------------------
(* The page.                                                               *)

\* Someone will list the files again.
Due == Unscheduled \/ timer # "off" \/ waiting > 0

VizType ==
    /\ changed \in [Caller -> SUBSET Key]
    /\ shown \in BOOLEAN /\ failed \in BOOLEAN /\ open \in BOOLEAN
    /\ timer \in {"off", "armed", "elapsed"}
    /\ waiting \in Nat
    /\ listed \in {<< >>, <<TRUE>>, <<FALSE>>}

\* An outdated listing may yet be written over a page that shows the files.
StaleListingIsDue == listed = <<FALSE>> /\ open => Due

PageInv == VizType /\ StaleListingIsDue /\ StalePageIsDue

-----------------------------------------------------------------------------
LEMMA InitPage == VizInit => PageInv
<1> SUFFICES ASSUME VizInit PROVE PageInv
  OBVIOUS
<1>1. changed \in [Caller -> SUBSET Key]
  BY DEF VizInit, Init
<1>2. VizType
  BY <1>1 DEF VizInit, Init, VizType
<1>3. listed = << >> /\ shown
  BY DEF VizInit
<1>4. listed # <<FALSE>>
  BY <1>3
<1> QED BY <1>2, <1>3, <1>4 DEF PageInv, StaleListingIsDue, StalePageIsDue

\* An outdated listing, as a change makes one of any listing there is.
LEMMA OutdatedListing ==
    ASSUME NEW f, f = [n \in 1..1 |-> FALSE]
    PROVE  f = <<FALSE>>
<1>1. f \in Seq(BOOLEAN) /\ Len(f) = 1 /\ f[1] = FALSE
  OBVIOUS
<1>2. <<FALSE>> \in Seq(BOOLEAN) /\ Len(<<FALSE>>) = 1 /\ <<FALSE>>[1] = FALSE
  OBVIOUS
<1>3. ASSUME NEW g \in Seq(BOOLEAN), Len(g) = 1, g[1] = FALSE
      PROVE  f = g
  BY <1>1, <1>3, SeqEqual
<1> QED BY <1>1, <1>2, <1>3

LEMMA OneListing ==
    ASSUME NEW b \in BOOLEAN
    PROVE  DOMAIN <<b>> = 1..1 /\ Head(<<b>>) = b /\ Tail(<<b>>) = << >>
  OBVIOUS

LEMMA ListingShape ==
    ASSUME VizType, listed # << >>
    PROVE  \E b \in BOOLEAN : listed = <<b>>
  BY DEF VizType

\* A change leaves its caller with a hook to run.
LEMMA ChangePage ==
    ASSUME PageInv, NEW c \in Caller, NEW k \in Key, NEW d \in Data \union {Absent},
           VizChange(c, k, d)
    PROVE  PageInv'
<1>1. changed' = [changed EXCEPT ![c] = {k}] /\ changed \in [Caller -> SUBSET Key]
  BY DEF VizChange, Change, PageInv, VizType
<1>2. changed'[c] # {} /\ changed' \in [Caller -> SUBSET Key]
  BY <1>1
<1>3. Unscheduled'
  BY <1>2 DEF Unscheduled
<1>4. listed' \in {<< >>, <<TRUE>>, <<FALSE>>}
  <2>1. CASE listed = << >>
    BY <2>1 DEF VizChange
  <2>2. CASE listed # << >>
    <3>1. DOMAIN listed = 1..1
      BY <2>2, ListingShape, OneListing DEF PageInv
    <3>2. listed' = [n \in 1..1 |-> FALSE]
      BY <3>1 DEF VizChange
    <3> QED BY <3>2, OutdatedListing
  <2> QED BY <2>1, <2>2
<1>5. VizType'
  BY <1>2, <1>4 DEF VizChange, Change, PageInv, VizType
<1> QED BY <1>3, <1>5 DEF PageInv, StaleListingIsDue, StalePageIsDue, Due

\* The hook of a caller hands on what the change started.
LEMMA HookPage ==
    ASSUME PageInv, NEW c \in Caller, HookStep(c)
    PROVE  PageInv'
<1>1. CASE VizHook(c)
  <2>1. PICK k \in changed[c] :
           /\ IF local[k] = Absent THEN DeleteFile(c, k) ELSE PushFile(c, k)
           /\ changed' = [changed EXCEPT ![c] = {}]
    BY <1>1 DEF VizHook, Hook
  <2>2. open' = open
    BY <2>1 DEF DeleteFile, PushFile
  <2>3. Unscheduled'
    BY <1>1 DEF VizHook, Unscheduled
  <2>4. VizType'
    BY <1>1, <2>1, <2>2 DEF VizHook, page, PageInv, VizType
  <2> QED BY <2>3, <2>4 DEF PageInv, StaleListingIsDue, StalePageIsDue, Due
<1>2. CASE VizSend(c)
  BY <1>2 DEF VizSend, Send, page, PageInv, VizType, StaleListingIsDue, StalePageIsDue,
     Due, Unscheduled
<1>3. CASE VizPanics(c)
  BY <1>3 DEF VizPanics, SendPanics, page, PageInv, VizType, StaleListingIsDue, StalePageIsDue
<1>4. CASE Schedule(c)
  BY <1>4 DEF Schedule, page, syncVars, PageInv, VizType, StaleListingIsDue,
     StalePageIsDue, Due
<1> QED BY <1>1, <1>2, <1>3, <1>4 DEF HookStep

\* The timer becomes a regeneration, and a regeneration a page.
LEMMA TimerPage ==
    ASSUME PageInv, Elapse \/ Fire
    PROVE  PageInv'
<1>1. waiting \in Nat
  BY DEF PageInv, VizType
<1>2. CASE Elapse
  <2>1. VizType'
    BY <1>2 DEF Elapse, page, syncVars, PageInv, VizType
  <2>2. timer' # "off"
    BY <1>2 DEF Elapse
  <2> QED BY <2>1, <2>2 DEF PageInv, StaleListingIsDue, StalePageIsDue, Due
<1>3. CASE Fire
  <2>1. waiting' \in Nat /\ waiting' > 0
    BY <1>1, <1>3 DEF Fire
  <2>2. VizType'
    BY <1>3, <2>1 DEF Fire, syncVars, PageInv, VizType
  <2> QED BY <2>1, <2>2 DEF PageInv, StaleListingIsDue, StalePageIsDue, Due
<1> QED BY <1>2, <1>3

LEMMA RegeneratePage ==
    ASSUME PageInv, Regenerate
    PROVE  PageInv'
<1>1. CASE List
  BY <1>1 DEF List, syncVars, PageInv, VizType, StaleListingIsDue, StalePageIsDue
<1>2. CASE ListFails
  BY <1>2 DEF ListFails, syncVars, PageInv, VizType, StaleListingIsDue, StalePageIsDue
<1>3. CASE WritePage
  <2>0. PICK b \in BOOLEAN : listed = <<b>>
    BY <1>3, ListingShape DEF WritePage, PageInv
  <2>1. Head(listed) \in BOOLEAN /\ Tail(listed) = << >>
        /\ (~Head(listed) => listed = <<FALSE>>)
    BY <2>0, OneListing
  <2>2. VizType'
    BY <1>3, <2>1 DEF WritePage, syncVars, PageInv, VizType
  <2>3. ~shown' /\ open => Due'
    BY <1>3, <2>1 DEF WritePage, syncVars, PageInv, StaleListingIsDue, Due, Unscheduled
  <2>4. listed' = << >> /\ open' = open
    BY <1>3, <2>1 DEF WritePage, syncVars
  <2>5. StaleListingIsDue'
    BY <2>4 DEF StaleListingIsDue
  <2>6. StalePageIsDue'
    BY <2>3, <2>4 DEF StalePageIsDue, Due
  <2> QED BY <2>2, <2>5, <2>6 DEF PageInv
<1>4. CASE PageFails
  <2>1. Tail(listed) = << >>
    BY <1>4, ListingShape, OneListing DEF PageFails, PageInv
  <2>2. listed' = << >> /\ failed' = TRUE
    BY <1>4, <2>1 DEF PageFails
  <2>3. VizType'
    BY <1>4, <2>2 DEF PageFails, syncVars, PageInv, VizType
  <2> QED BY <2>2, <2>3 DEF PageInv, StaleListingIsDue, StalePageIsDue
<1> QED BY <1>1, <1>2, <1>3, <1>4 DEF Regenerate

LEMMA NextPage == PageInv /\ [VizNext]_vizVars => PageInv'
<1> SUFFICES ASSUME PageInv, [VizNext]_vizVars PROVE PageInv'
  OBVIOUS
<1>1. CASE Quietly(LoopStep)
  <2>1. UNCHANGED <<changed, page, timer, due, open>>
    BY <1>1 DEF Quietly, LoopStep, Deliver, DeliverFails
  <2> QED BY <2>1 DEF page, PageInv, VizType, StaleListingIsDue, StalePageIsDue, Due,
          Unscheduled
<1>2. CASE Quietly(Close)
  BY <1>2 DEF Quietly, Close, page, PageInv, VizType, StaleListingIsDue, StalePageIsDue
<1>3. CASE UNCHANGED vizVars
  BY <1>3 DEF vizVars, page, PageInv, VizType, StaleListingIsDue, StalePageIsDue, Due,
     Unscheduled
<1> QED BY <1>1, <1>2, <1>3, ChangePage, HookPage, TimerPage, RegeneratePage DEF VizNext

\* A page that does not show the files will be regenerated, unless the last
\* regeneration failed or the server is going down.
THEOREM StalePagesAreDue == VizSpec => []StalePageIsDue
<1>1. PageInv => StalePageIsDue
  BY DEF PageInv
<1> QED BY InitPage, NextPage, <1>1, PTL DEF VizSpec

-----------------------------------------------------------------------------
(* Uploads and the page together.                                          *)

\* The page adds steps of its own and delays the writers, and no more.
LEMMA StepOfMirror == VizNext => Next \/ UNCHANGED syncVars
<1> SUFFICES ASSUME VizNext PROVE Next \/ UNCHANGED syncVars
  OBVIOUS
<1>1. ASSUME NEW c \in Caller, NEW k \in Key, NEW d \in Data \union {Absent},
             VizChange(c, k, d)
      PROVE  Next
  BY <1>1 DEF VizChange, Next
<1>2. ASSUME NEW c \in Caller, HookStep(c) PROVE Next \/ UNCHANGED syncVars
  <2>1. CASE VizHook(c)
    BY <2>1 DEF VizHook, Next
  <2>2. CASE VizSend(c)
    BY <2>2 DEF VizSend, Next
  <2>3. CASE VizPanics(c)
    BY <2>3 DEF VizPanics, Next
  <2>4. CASE Schedule(c)
    BY <2>4 DEF Schedule, syncVars
  <2> QED BY <1>2, <2>1, <2>2, <2>3, <2>4 DEF HookStep
<1>3. CASE Elapse \/ Fire
  BY <1>3 DEF Elapse, Fire, syncVars
<1>4. CASE Regenerate
  BY <1>4 DEF Regenerate, List, ListFails, WritePage, PageFails, syncVars
<1>5. CASE Quietly(LoopStep)
  BY <1>5 DEF Quietly, Next
<1>6. CASE Quietly(Close)
  BY <1>6 DEF Quietly, Next
<1> QED BY <1>1, <1>2, <1>3, <1>4, <1>5, <1>6 DEF VizNext

\* The server with its page does to the channel and the store only what
\* Mirror lets callers, push loop and Close do.
THEOREM PagesLeaveUploads == VizSpec => Init /\ [][Next]_syncVars
<1>1. VizInit => Init
  BY DEF VizInit
<1>2. [VizNext]_vizVars => [Next]_syncVars
  <2>1. UNCHANGED vizVars => UNCHANGED syncVars
    BY DEF vizVars, syncVars
  <2> QED BY <2>1, StepOfMirror
<1> QED BY <1>1, <1>2, PTL DEF VizSpec

\* So calls and channel have their types and uploads keep their order beside
\* any timers and regenerations.
THEOREM PagesKeepOrder == VizSpec => [](TypeOK /\ NewestIsLast)
<1>1. OrderInv => TypeOK /\ NewestIsLast
  BY DEF OrderInv
<1> QED BY <1>1, PagesLeaveUploads, OrderInvariant, PTL
=============================================================================
