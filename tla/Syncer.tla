------------------------------- MODULE Syncer -------------------------------
(***************************************************************************)
(* storage.Syncer: the local directory is mirrored to an object store by   *)
(* requests that callers put into one bounded channel and a single push    *)
(* loop takes out.  PushFile reads the file first and sends what it read   *)
(* afterwards, blocking while the channel is full; nothing orders it with  *)
(* other writers of the file.  A failed request is logged and forgotten.   *)
(***************************************************************************)
EXTENDS Naturals, Sequences

CONSTANTS
    Caller,      \* goroutines running tool handlers
    Key,         \* object keys, which are the local relative paths
    Data,        \* file contents
    Absent,      \* no file, no object; in a request, a deletion
    Capacity,    \* of the channel (100 in the code)
    StoreFails   \* whether the object store may answer with an error

ASSUME AbsentAssumption == Absent \notin Data
ASSUME CapacityAssumption == Capacity \in Nat \ {0}

VARIABLES
    local,   \* key -> content of the local file
    store,   \* key -> content of the object
    queue,   \* the channel, oldest request first
    call,    \* caller -> the request it is about to send, or << >>
    open     \* the channel is open

vars == <<local, store, queue, call, open>>

Request == [key : Key, data : Data \union {Absent}]

NoCall(c) == call[c] = << >>

-----------------------------------------------------------------------------
\* PushFile reads the file; one that cannot be read is only warned about.
PushFile(c, k) ==
    /\ NoCall(c)
    /\ IF local[k] # Absent
       THEN call' = [call EXCEPT ![c] = <<[key |-> k, data |-> local[k]]>>]
       ELSE UNCHANGED call
    /\ UNCHANGED <<local, store, queue, open>>

DeleteFile(c, k) ==
    /\ NoCall(c)
    /\ call' = [call EXCEPT ![c] = <<[key |-> k, data |-> Absent]>>]
    /\ UNCHANGED <<local, store, queue, open>>

\* Mutant: what was sent last is uploaded first.
SendFirst(c) ==
    /\ ~NoCall(c) /\ open /\ Len(queue) < Capacity
    /\ queue' = call[c] \o queue
    /\ call' = [call EXCEPT ![c] = << >>]
    /\ UNCHANGED <<local, store, open>>

\* Mutant: the channel is unbounded.
SendUnbounded(c) ==
    /\ ~NoCall(c) /\ open
    /\ queue' = queue \o call[c]
    /\ call' = [call EXCEPT ![c] = << >>]
    /\ UNCHANGED <<local, store, open>>

\* The channel send, which blocks while the channel is full.
Send(c) ==
    /\ ~NoCall(c) /\ open /\ Len(queue) < Capacity
    /\ queue' = queue \o call[c]
    /\ call' = [call EXCEPT ![c] = << >>]
    /\ UNCHANGED <<local, store, open>>

\* A send on the closed channel panics: the request is gone.
SendPanics(c) ==
    /\ ~NoCall(c) /\ ~open
    /\ call' = [call EXCEPT ![c] = << >>]
    /\ UNCHANGED <<local, store, queue, open>>

\* The push loop takes the oldest request and the store carries it out.
Deliver ==
    /\ queue # << >>
    /\ store' = [store EXCEPT ![Head(queue).key] = Head(queue).data]
    /\ queue' = Tail(queue)
    /\ UNCHANGED <<local, call, open>>

\* Mutant: the loop puts a failed request back into the channel.
Requeued ==
    /\ StoreFails
    /\ queue # << >>
    /\ queue' = Append(Tail(queue), Head(queue))
    /\ UNCHANGED <<local, store, call, open>>

\* The store answers with an error, which is logged.
DeliverFails ==
    /\ StoreFails
    /\ queue # << >>
    /\ queue' = Tail(queue)
    /\ UNCHANGED <<local, store, call, open>>

LoopStep == Deliver \/ DeliverFails

Close ==
    /\ open
    /\ open' = FALSE
    /\ UNCHANGED <<local, store, queue, call>>

-----------------------------------------------------------------------------
TypeOK ==
    /\ local \in [Key -> Data \union {Absent}]
    /\ store \in [Key -> Data \union {Absent}]
    /\ queue \in Seq(Request) /\ Len(queue) <= Capacity
    /\ call \in [Caller -> {<< >>} \union {<<r>> : r \in Request}]
    /\ open \in BOOLEAN
=============================================================================
