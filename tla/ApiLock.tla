------------------------------ MODULE ApiLock ------------------------------
(***************************************************************************)
(* The engine lock around the host callbacks of a JSCallbackObject, seen  *)
(* from several host threads (JSCallbackObjectFunctions.h).                *)
(*                                                                         *)
(* Every engine entry point runs holding the engine lock (JSLock), which  *)
(* is recursive per thread.  Where the code declares a                     *)
(* JSLock::DropAllLocks, every recursion level of the lock is released    *)
(* before the callback and all of them are re-taken when the guard goes   *)
(* out of scope.  During a callback the host may                          *)
(*   - return,                                                             *)
(*   - call back into the engine on its own thread (a nested engine call), *)
(*   - hand a call to another, idle thread and wait until that thread's   *)
(*     engine call has returned (a synchronous dispatch to a worker).     *)
(* A callback does at most one of the last two before it returns: it runs *)
(* to completion (spec.md, scheduling model).                              *)
(*                                                                         *)
(* An engine call is abstracted to the one callback site it reaches, or   *)
(* none; the data of the call is the business of CallbackObject.          *)
(***************************************************************************)
EXTENDS Naturals, Sequences

CONSTANTS
    Threads,        \* host threads
    Sites,          \* the callback kinds the calls reach
    NoThread,       \* model value: the lock is free / no thread
    MaxDepth        \* bound on the frames of one thread's stack

VARIABLES
    owner,          \* the thread holding the engine lock, or NoThread
    count,          \* the lock's recursion count
    stack,          \* stack[t]: t's frames, innermost last
    served          \* served[t]: the thread t's callback handed a call to

vars == <<owner, count, stack, served>>

(***************************************************************************)
(* Frames.  An engine frame runs engine code; a callback frame is a host  *)
(* callback in progress, with the recursion count DropAllLocks saved.     *)
(***************************************************************************)
Acquiring(for) == [kind |-> "acquiring", for |-> for]
Engine(for) == [kind |-> "engine", for |-> for, called |-> FALSE]
Callback(cb, dropped, saved) ==
    [kind |-> "callback", cb |-> cb, dropped |-> dropped, saved |-> saved, stage |-> "running"]

Top(t) == stack[t][Len(stack[t])]
Busy(t) == stack[t] # <<>>
TopIs(t, kind) == Busy(t) /\ Top(t).kind = kind
SetTop(t, f) == [stack EXCEPT ![t][Len(stack[t])] = f]
Pop(t) == [stack EXCEPT ![t] = SubSeq(@, 1, Len(@) - 1)]

(***************************************************************************)
(* Which call sites wrap their callback in DropAllLocks: all of them but  *)
(* convertToType in defaultValue and finalize in the destructor.  The     *)
(* mutant keeps the lock at every site.                                    *)
(***************************************************************************)
DropsLock_Never(cb) == FALSE
DropsLock(cb) == cb \notin {"convertToType", "finalize"}

(***************************************************************************)
(* Whether the engine inspects the callback's answer inside the guard's   *)
(* scope, before the lock is re-taken: the hasProperty branch of          *)
(* getOwnPropertySlot declares DropAllLocks in the block that tests the   *)
(* answer and calls slot.setCustom.  The other sites close the scope      *)
(* around the call alone.                                                  *)
(***************************************************************************)
InspectsUnlocked_All(cb) == TRUE
InspectsUnlocked(cb) == cb = "hasProperty"

Init ==
    /\ owner = NoThread
    /\ count = 0
    /\ stack = [t \in Threads |-> <<>>]
    /\ served = [t \in Threads |-> NoThread]

(* An idle thread calls an API function (APIEntryShim takes the lock).    *)
Start(t) ==
    /\ ~Busy(t)
    /\ stack' = [stack EXCEPT ![t] = <<Acquiring(NoThread)>>]
    /\ UNCHANGED <<owner, count, served>>

(* JSLock::lock: free, or already held by this thread (recursive).        *)
Acquire(t) ==
    /\ TopIs(t, "acquiring")
    /\ owner \in {NoThread, t}
    /\ owner' = t
    /\ count' = count + 1
    /\ stack' = SetTop(t, Engine(Top(t).for))
    /\ UNCHANGED served

(* The engine call reaches a callback site.                                *)
Invoke(t, cb) ==
    /\ TopIs(t, "engine")
    /\ ~Top(t).called
    /\ Len(stack[t]) < MaxDepth
    /\ LET f == [Top(t) EXCEPT !.called = TRUE]
       IN IF DropsLock(cb)
          THEN /\ stack' = [stack EXCEPT ![t] = Append(SubSeq(@, 1, Len(@) - 1) \o <<f>>,
                                                       Callback(cb, TRUE, count))]
               /\ owner' = NoThread
               /\ count' = 0
          ELSE /\ stack' = [stack EXCEPT ![t] = Append(SubSeq(@, 1, Len(@) - 1) \o <<f>>,
                                                       Callback(cb, FALSE, 0))]
               /\ UNCHANGED <<owner, count>>
    /\ UNCHANGED served

(* The engine call returns: one recursion level of the lock is released. *)
(* A call run for another thread's callback lets that callback go on.     *)
Leave(t) ==
    /\ TopIs(t, "engine")
    /\ count' = count - 1
    /\ owner' = IF count = 1 THEN NoThread ELSE t
    /\ stack' = Pop(t)
    /\ served' = IF Top(t).for = NoThread THEN served
                 ELSE [served EXCEPT ![Top(t).for] = NoThread]

(* The host callback calls back into the engine on its own thread.        *)
Reenter(t) ==
    /\ TopIs(t, "callback")
    /\ Top(t).stage = "running"
    /\ Len(stack[t]) + 1 < MaxDepth
    /\ stack' = [stack EXCEPT ![t] = Append(SubSeq(@, 1, Len(@) - 1)
                                     \o <<[Top(t) EXCEPT !.stage = "after"]>>, Acquiring(NoThread))]
    /\ UNCHANGED <<owner, count, served>>

(* The host callback hands a call to an idle thread u and waits for it.   *)
HandOff(t, u) ==
    /\ TopIs(t, "callback")
    /\ Top(t).stage = "running"
    /\ u # t
    /\ ~Busy(u)
    /\ served' = [served EXCEPT ![t] = u]
    /\ stack' = [SetTop(t, [Top(t) EXCEPT !.stage = "waiting"]) EXCEPT ![u] = <<Acquiring(t)>>]
    /\ UNCHANGED <<owner, count>>

(* The handed-off call has returned.                                       *)
Resume(t) ==
    /\ TopIs(t, "callback")
    /\ Top(t).stage = "waiting"
    /\ served[t] = NoThread
    /\ stack' = SetTop(t, [Top(t) EXCEPT !.stage = "after"])
    /\ UNCHANGED <<owner, count, served>>

(* The host callback returns.                                              *)
Return(t) ==
    /\ TopIs(t, "callback")
    /\ Top(t).stage \in {"running", "after"}
    /\ stack' = SetTop(t, [Top(t) EXCEPT !.stage = "returned"])
    /\ UNCHANGED <<owner, count, served>>

(* The engine tests the answer (and, for hasProperty, fills the slot).    *)
Inspect(t) ==
    /\ TopIs(t, "callback")
    /\ Top(t).stage = "returned"
    /\ Top(t).dropped => InspectsUnlocked(Top(t).cb)
    /\ stack' = SetTop(t, [Top(t) EXCEPT !.stage = "inspected"])
    /\ UNCHANGED <<owner, count, served>>

Reacquire(t) ==
    /\ TopIs(t, "callback")
    /\ Top(t).dropped
    /\ Top(t).stage = IF InspectsUnlocked(Top(t).cb) THEN "inspected" ELSE "returned"
    /\ owner = NoThread
    /\ owner' = t
    /\ count' = Top(t).saved
    /\ stack' = SetTop(t, [Top(t) EXCEPT !.dropped = FALSE])
    /\ UNCHANGED served

(* Engine code after the callback site runs on.                            *)
Continue(t) ==
    /\ TopIs(t, "callback")
    /\ Top(t).stage = "inspected"
    /\ ~Top(t).dropped
    /\ stack' = Pop(t)
    /\ UNCHANGED <<owner, count, served>>

(* The steps of a call in progress, apart from taking the lock.            *)
Progress(t) ==
    \/ \E cb \in Sites : Invoke(t, cb)
    \/ Leave(t) \/ Reenter(t) \/ Return(t) \/ Resume(t)
    \/ Inspect(t) \/ Continue(t)
    \/ \E u \in Threads : HandOff(t, u)

Next ==
    \E t \in Threads :
        Start(t) \/ Acquire(t) \/ Reacquire(t) \/ Progress(t)

(***************************************************************************)
(* Fairness.  A thread inside a call keeps running (weak fairness of its  *)
(* progress; the host callbacks run to completion).  The lock is taken    *)
(* under strong fairness, because WTF::Lock, under JSLock, hands the lock *)
(* over fairly to a waiter that keeps asking.  Starting a call is up to   *)
(* the host and is not fair.                                               *)
(***************************************************************************)
Fairness ==
    \A t \in Threads :
        /\ WF_vars(Progress(t))
        /\ SF_vars(Acquire(t))
        /\ SF_vars(Reacquire(t))

Spec == Init /\ [][Next]_vars /\ Fairness

-----------------------------------------------------------------------------
CallsReturn ==
    \A t \in Threads : Busy(t) ~> ~Busy(t)

=============================================================================
