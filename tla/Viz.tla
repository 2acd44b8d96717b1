--------------------------------- MODULE Viz ---------------------------------
(***************************************************************************)
(* viz.html of cmd/server: a page generated from all local files.  Every   *)
(* write and every deletion, once its push to the syncer has returned,     *)
(* restarts a 250 ms timer; when that elapses a goroutine regenerates the  *)
(* page under vizMu.  Stopping the timer does not stop a regeneration that *)
(* has begun, and one that fails is logged and not repeated.               *)
(*                                                                         *)
(* Of a page, or of what a regeneration has listed, only this is kept:     *)
(* whether no file has been changed since.                                 *)
(***************************************************************************)
EXTENDS Mirror

CONSTANT MaxWaiting   \* bound on the regenerations waiting for vizMu

ASSUME WaitingAssumption == MaxWaiting \in Nat \ {0}

VARIABLES
    shown,    \* viz.html shows the files as they are
    timer,    \* of the next regeneration: "off", "armed" or "elapsed"
    waiting,  \* regenerations that wait for vizMu
    listed,   \* of the one that holds vizMu: << >>, or whether the files are
              \* still as it has listed them
    due,      \* callers whose hook has still to call scheduleViz
    failed    \* the last regeneration failed

page == <<shown, waiting, listed, failed>>
vizVars == <<local, store, queue, call, open, changed, page, timer, due>>

-----------------------------------------------------------------------------
(* The handlers.                                                           *)

\* A handler changes a file: pages and listings made so far are outdated.
VizChange(c, k, d) ==
    /\ c \notin due
    /\ Change(c, k, d)
    /\ shown' = FALSE
    /\ listed' = [n \in DOMAIN listed |-> FALSE]
    /\ UNCHANGED <<waiting, failed, timer, due>>

VizHook(c) ==
    /\ Hook(c)
    /\ due' = due \union {c}
    /\ UNCHANGED <<page, timer>>

VizSend(c) ==
    /\ Send(c)
    /\ UNCHANGED <<changed, page, timer, due>>

\* The hook panics in the push: scheduleViz is not reached.
VizPanics(c) ==
    /\ SendPanics(c)
    /\ due' = due \ {c}
    /\ UNCHANGED <<changed, page, timer>>

\* Mutant: a regeneration that has begun is taken for the one of this write.
ScheduleIfIdle(c) ==
    /\ c \in due /\ NoCall(c)
    /\ due' = due \ {c}
    /\ timer' = IF waiting > 0 \/ listed # << >> THEN timer ELSE "armed"
    /\ UNCHANGED <<syncVars, page>>

\* scheduleViz, once the push has returned: the timer starts anew.
Schedule(c) ==
    /\ c \in due /\ NoCall(c)
    /\ due' = due \ {c}
    /\ timer' = "armed"
    /\ UNCHANGED <<syncVars, page>>

-----------------------------------------------------------------------------
(* The timer and the regenerations.                                        *)

\* 250 ms without a write.
Elapse ==
    /\ timer = "armed"
    /\ timer' = "elapsed"
    /\ UNCHANGED <<syncVars, page, due>>

\* The timer starts a goroutine, which waits for vizMu.
Fire ==
    /\ timer = "elapsed"
    /\ waiting < MaxWaiting
    /\ timer' = "off"
    /\ waiting' = waiting + 1
    /\ UNCHANGED <<syncVars, shown, listed, failed, due>>

\* Mutant: the files are listed before vizMu is taken.
ListUnlocked ==
    /\ waiting > 0 /\ Len(listed) < 2
    /\ waiting' = waiting - 1
    /\ listed' = <<TRUE>> \o listed
    /\ UNCHANGED <<syncVars, shown, failed, timer, due>>

\* With vizMu held all files are listed, under the bundle's lock.
List ==
    /\ waiting > 0 /\ listed = << >>
    /\ waiting' = waiting - 1
    /\ listed' = <<TRUE>>
    /\ UNCHANGED <<syncVars, shown, failed, timer, due>>

WritePage ==
    /\ listed # << >>
    /\ shown' = Head(listed)
    /\ listed' = Tail(listed)
    /\ failed' = FALSE
    /\ UNCHANGED <<syncVars, waiting, timer, due>>

\* The files cannot be listed.
ListFails ==
    /\ waiting > 0 /\ listed = << >>
    /\ waiting' = waiting - 1
    /\ failed' = TRUE
    /\ UNCHANGED <<syncVars, shown, listed, timer, due>>

\* The page cannot be written, or only in part.
PageFails ==
    /\ listed # << >>
    /\ shown' \in {shown, FALSE}
    /\ listed' = Tail(listed)
    /\ failed' = TRUE
    /\ UNCHANGED <<syncVars, waiting, timer, due>>

Regenerate == List \/ ListFails \/ WritePage \/ PageFails

-----------------------------------------------------------------------------
\* main generates the page before it serves the first request.
VizInit ==
    /\ Init
    /\ shown = TRUE
    /\ timer = "off" /\ waiting = 0 /\ listed = << >>
    /\ due = {} /\ failed = FALSE

Quietly(A) == A /\ UNCHANGED <<changed, page, timer, due>>

\* A handler goes on with its hook.
HookStep(c) == VizHook(c) \/ VizSend(c) \/ VizPanics(c) \/ Schedule(c)

VizNext ==
    \/ \E c \in Caller :
          \/ \E k \in Key, d \in Data \union {Absent} : VizChange(c, k, d)
          \/ HookStep(c)
    \/ Elapse \/ Fire \/ Regenerate
    \/ Quietly(LoopStep)
    \/ Quietly(Close)

\* As in Mirror the object store answers every call and blocked senders are
\* served in turn; time passes and locks are granted.  Of Elapse only weak
\* fairness is assumed: writes may restart the timer for ever.
VizFairness ==
    /\ WF_vizVars(Quietly(LoopStep))
    /\ \A c \in Caller : SF_vizVars(HookStep(c))
    /\ WF_vizVars(Elapse \/ Fire)
    /\ WF_vizVars(Regenerate)

VizSpec == VizInit /\ [][VizNext]_vizVars /\ VizFairness

-----------------------------------------------------------------------------
\* A change is on its way to the timer.
Unscheduled == due # {} \/ \E c \in Caller : changed[c] # {}

\* A page that does not show the files will be regenerated: a regeneration
\* that has still to list them is due, or one has listed what they still are,
\* unless the last one failed or a handler panicked on the closed channel.
\* An older listing never replaces a newer page for good.
StalePageIsDue ==
    ~shown /\ open /\ ~failed =>
        Unscheduled \/ timer # "off" \/ waiting > 0 \/ listed = <<TRUE>>

AnyChange ==
    \E c \in Caller, k \in Key, d \in Data \union {Absent} : VizChange(c, k, d)

\* When writes pause the page comes to show the files and stays so, unless
\* the regeneration failed; writes that keep coming may postpone it for ever.
PageCatchesUp ==
    []<><<AnyChange>>_vizVars \/ <>[](shown \/ failed \/ ~open)
=============================================================================
