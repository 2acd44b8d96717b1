------------------------------- MODULE Mirror -------------------------------
(***************************************************************************)
(* The syncer at work for callers that change a local file and then push   *)
(* it, or remove one and delete its object, as the hooks of the tool       *)
(* handlers do.  Here every file is written by one caller only; Server     *)
(* has the handlers as they are, which share files.                        *)
(***************************************************************************)
EXTENDS Syncer

CONSTANT Owner   \* key -> the caller that writes it

ASSUME OwnerAssumption == Owner \in [Key -> Caller]

\* A key whose local file was changed and whose hook has not run yet.
VARIABLE changed

syncVars == <<local, store, queue, call, open, changed>>

Init ==
    /\ store \in [Key -> Data \union {Absent}]
    /\ local = store
    /\ queue = << >>
    /\ call = [c \in Caller |-> << >>]
    /\ open = TRUE
    /\ changed = [c \in Caller |-> {}]

\* A handler changes one of its files, not before it is done with the last.
Change(c, k, d) ==
    /\ Owner[k] = c /\ NoCall(c) /\ changed[c] = {}
    /\ local[k] # d
    /\ local' = [local EXCEPT ![k] = d]
    /\ changed' = [changed EXCEPT ![c] = {k}]
    /\ UNCHANGED <<store, queue, call, open>>

\* The hook that follows the change.
Hook(c) ==
    \E k \in changed[c] :
        /\ IF local[k] = Absent THEN DeleteFile(c, k) ELSE PushFile(c, k)
        /\ changed' = [changed EXCEPT ![c] = {}]

Next ==
    \/ \E c \in Caller :
          \/ \E k \in Key, d \in Data \union {Absent} : Change(c, k, d)
          \/ Hook(c)
          \/ Send(c) /\ UNCHANGED changed
          \/ SendPanics(c) /\ UNCHANGED changed
    \/ LoopStep /\ UNCHANGED changed
    \/ Close /\ UNCHANGED changed

\* The object store answers every call, with a result or an error; a blocked
\* sender is served in its turn (channel senders wait in FIFO order).
Fairness ==
    /\ WF_syncVars(LoopStep /\ UNCHANGED changed)
    /\ \A c \in Caller :
          /\ WF_syncVars(Hook(c))
          /\ SF_syncVars(Send(c) /\ UNCHANGED changed)
          /\ WF_syncVars(SendPanics(c) /\ UNCHANGED changed)

Spec == Init /\ [][Next]_syncVars /\ Fairness

-----------------------------------------------------------------------------
\* The owner of k has read k, or found it gone, and not sent it yet.
Unsent(k) == ~NoCall(Owner[k]) /\ call[Owner[k]][1].key = k

LastQueued(k, n) ==
    queue[n].key = k /\ \A m \in (n + 1)..Len(queue) : queue[m].key # k

\* Of all requests for a file which only one caller writes, the youngest is
\* the last to be carried out, and it is what the file holds, until the
\* channel is closed: requests leave the channel in the order they were sent.
NewestIsLast ==
    \A k \in Key :
        open /\ k \notin changed[Owner[k]] =>
            IF Unsent(k) THEN call[Owner[k]][1].data = local[k]
            ELSE \A n \in 1..Len(queue) : LastQueued(k, n) => queue[n].data = local[k]

\* Whoever calls PushFile or DeleteFile gets to return, whether the store
\* works, fails or the channel is full or being closed.
CallsReturn == \A c \in Caller : ~NoCall(c) ~> NoCall(c)
=============================================================================
