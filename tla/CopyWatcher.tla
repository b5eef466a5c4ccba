----------------------------- MODULE CopyWatcher -----------------------------
(***************************************************************************)
(* The threads of the demo watcher: HTTP handlers that start it, pause it  *)
(* or ask for one cycle, and the loop threads it starts.  They share the   *)
(* flags below under one lock that is never held while a cycle runs, and   *)
(* loops read `_stop_event' without it.  What a cycle does to the tables   *)
(* is CopyEngine's matter.                                                 *)
(***************************************************************************)
EXTENDS NoValue, FiniteSets

CONSTANTS
  Loop,             \* loop threads, one per start(); finite, it bounds the starts
  Caller            \* threads that serve HTTP requests

ASSUME ConstantsOK == Loop \cap Caller = {} /\ None \notin Loop \cup Caller

Thread == Loop \cup Caller

VARIABLES
  enabled,    \* _enabled
  running,    \* _running: a cycle is being executed
  thread,     \* _thread
  stopEvent,  \* _stop_event; named after the loop it was made for
  isSet,      \* the events that are set
  pc,         \* where each thread is
  held,       \* the event a loop waits on, the thread a stop() joins
  raised      \* history: a client or session factory has raised

vars == <<enabled, running, thread, stopEvent, isSet, pc, held, raised>>

LoopPc == {"new", "check", "try", "make", "body", "recheck", "wait", "exit",
           "done", "dead"}
CallerPc == {"idle", "make", "body", "joining"}

Init ==
  /\ enabled = FALSE /\ running = FALSE
  /\ thread = None /\ stopEvent = None /\ isSet = {}
  /\ pc = [x \in Thread |-> IF x \in Loop THEN "new" ELSE "idle"]
  /\ held = [x \in Thread |-> None]
  /\ raised = FALSE

Goto(x, where) == pc' = [pc EXCEPT ![x] = where]

Alive(l) == l \in Loop /\ pc[l] \notin {"new", "done", "dead"}

-------------------------------------------------------------------------------
(* start() and stop().                                                     *)

\* Mutant: the event of the previous start is kept.
StartOldEvent(c) ==
  /\ pc[c] = "idle"
  /\ ~(enabled /\ Alive(thread))
  /\ \E l \in Loop :
       /\ pc[l] = "new"
       /\ stopEvent' = IF stopEvent = None THEN l ELSE stopEvent
       /\ thread' = l
       /\ Goto(l, "check")
  /\ enabled' = TRUE
  /\ UNCHANGED <<running, isSet, held, raised>>

\* One atomic section: a new event and a new thread, unless the watcher is enabled
\* and the thread it remembers lives.
Start(c) ==
  /\ pc[c] = "idle"
  /\ ~(enabled /\ Alive(thread))
  /\ \E l \in Loop :
       /\ pc[l] = "new"
       /\ stopEvent' = l
       /\ thread' = l
       /\ Goto(l, "check")
  /\ enabled' = TRUE
  /\ UNCHANGED <<running, isSet, held, raised>>

\* Mutant: the loop is not told.
StopSilently(c) ==
  /\ pc[c] = "idle"
  /\ enabled' = FALSE
  /\ held' = [held EXCEPT ![c] = thread]
  /\ Goto(c, "joining")
  /\ UNCHANGED <<running, thread, stopEvent, isSet, raised>>

StopBegin(c) ==
  /\ pc[c] = "idle"
  /\ enabled' = FALSE
  /\ isSet' = isSet \cup {stopEvent}
  /\ held' = [held EXCEPT ![c] = thread]
  /\ Goto(c, "joining")
  /\ UNCHANGED <<running, thread, stopEvent, raised>>

\* The join gives up after a quarter of a second, the thread alive or not.
StopEnd(c) ==
  /\ pc[c] = "joining"
  /\ thread' = IF thread = held[c] /\ ~Alive(held[c]) THEN None ELSE thread
  /\ held' = [held EXCEPT ![c] = None]
  /\ Goto(c, "idle")
  /\ UNCHANGED <<enabled, running, stopEvent, isSet, raised>>

-------------------------------------------------------------------------------
(* run_once().                                                             *)

MayRun(x) == pc[x] = "try" \/ (x \in Caller /\ pc[x] = "idle")

BeginRun(x) ==
  /\ MayRun(x)
  /\ ~running
  /\ running' = TRUE
  /\ Goto(x, "make")
  /\ UNCHANGED <<enabled, thread, stopEvent, isSet, held, raised>>

\* A loop that finds a cycle running tries again after its interval.
RunRefused(l) ==
  /\ pc[l] = "try"
  /\ running
  /\ Goto(l, "recheck")
  /\ UNCHANGED <<enabled, running, thread, stopEvent, isSet, held, raised>>

MakeClients(x) ==
  /\ pc[x] = "make"
  /\ Goto(x, "body")
  /\ UNCHANGED <<enabled, running, thread, stopEvent, isSet, held, raised>>

\* The factories are called outside the try block: nothing resets _running, and a
\* loop thread dies of the exception.
FactoryFails(x) ==
  /\ pc[x] = "make"
  /\ Goto(x, IF x \in Loop THEN "dead" ELSE "idle")
  /\ raised' = TRUE
  /\ UNCHANGED <<enabled, running, thread, stopEvent, isSet, held>>

\* Mutant: the flag stays up.
EndRunKeepsFlag(x) ==
  /\ pc[x] = "body"
  /\ Goto(x, IF x \in Loop THEN "recheck" ELSE "idle")
  /\ UNCHANGED <<enabled, running, thread, stopEvent, isSet, held, raised>>

\* The cycle ends, well or with an exception that is recorded, and the finally block
\* resets the flag, whoever has set it.
EndRun(x) ==
  /\ pc[x] = "body"
  /\ running' = FALSE
  /\ Goto(x, IF x \in Loop THEN "recheck" ELSE "idle")
  /\ UNCHANGED <<enabled, thread, stopEvent, isSet, held, raised>>

-------------------------------------------------------------------------------
(* _watcher_loop().                                                        *)

\* The loop looks at the event the watcher has now, not at the one it was started with.
Check(l) ==
  /\ pc[l] \in {"check", "recheck"}
  /\ IF stopEvent \in isSet
     THEN Goto(l, "exit") /\ UNCHANGED held
     ELSE IF pc[l] = "check"
     THEN Goto(l, "try") /\ UNCHANGED held
     ELSE Goto(l, "wait") /\ held' = [held EXCEPT ![l] = stopEvent]
  /\ UNCHANGED <<enabled, running, thread, stopEvent, isSet, raised>>

\* The wait ends when its event is set, or by timeout.
Wake(l) ==
  /\ pc[l] = "wait"
  /\ Goto(l, IF held[l] \in isSet THEN "exit" ELSE "check")
  /\ held' = [held EXCEPT ![l] = None]
  /\ UNCHANGED <<enabled, running, thread, stopEvent, isSet, raised>>

\* A loop that ends clears the shared flags, also when they are about another one.
Exit(l) ==
  /\ pc[l] = "exit"
  /\ running' = FALSE
  /\ thread' = None
  /\ Goto(l, "done")
  /\ UNCHANGED <<enabled, stopEvent, isSet, held, raised>>

-------------------------------------------------------------------------------
LoopStep(l) == RunRefused(l) \/ Check(l) \/ Wake(l) \/ Exit(l)
RunStep(x) == MakeClients(x) \/ FactoryFails(x) \/ EndRun(x)

Next ==
  \/ \E c \in Caller : Start(c) \/ StopBegin(c) \/ StopEnd(c)
  \/ \E x \in Thread : BeginRun(x) \/ RunStep(x)
  \/ \E l \in Loop : LoopStep(l)

Spec == Init /\ [][Next]_vars

\* Threads are scheduled and cycles end; nobody owes a request.
Fairness ==
  /\ \A l \in Loop : WF_vars(LoopStep(l) \/ RunStep(l) \/ BeginRun(l))
  /\ \A c \in Caller : WF_vars(RunStep(c)) /\ WF_vars(StopEnd(c))

FairSpec == Spec /\ Fairness

-------------------------------------------------------------------------------
(* Properties.                                                             *)

\* Every variable holds values of its kind.
TypeOK ==
  /\ enabled \in BOOLEAN /\ running \in BOOLEAN
  /\ thread \in Loop \cup {None} /\ stopEvent \in Loop \cup {None}
  /\ isSet \subseteq Loop \cup {None}
  /\ pc \in [Thread -> LoopPc \cup CallerPc]
  /\ \A l \in Loop : pc[l] \in LoopPc
  /\ \A c \in Caller : pc[c] \in CallerPc
  /\ held \in [Thread -> Loop \cup {None}]
  /\ raised \in BOOLEAN

Working == {x \in Thread : pc[x] \in {"make", "body"}}

\* While the flag says that a cycle runs, some thread runs one, so the flag comes down
\* again: no order of starts, pauses and requests blocks the cycles for good.  Only a
\* factory that raised can.
RunningMeansWork == running => Working # {} \/ raised

\* An enabled watcher keeps running cycles, though threads of earlier starts linger
\* and clear the flags under the new one.
RunsGoOn == enabled ~> Working # {} \/ ~enabled \/ raised

\* A pause stops every loop, those included that a quick restart left behind.
PauseStopsLoops == ~enabled ~> enabled \/ \A l \in Loop : ~Alive(l)

\* docs/copy-trading-plan.md: an internal lock avoids overlapping executions.  The code
\* lets a loop that ends reset the flag under a cycle another thread is running.
RunsDoNotOverlap == \A x, y \in Working : x = y
===============================================================================
