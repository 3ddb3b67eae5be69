------------------------------ MODULE Deadline ------------------------------
(***************************************************************************)
(* The resettable timeout of a pipe (netio/pipe/pipe.go): Set replaces the *)
(* timer under d.mu, while the callback of an expired timer closes         *)
(* d.cancel without it.  Channels are numbered in the order they are made. *)
(*                                                                         *)
(* Set is two steps: it takes d.mu and stops the timer, and, once a        *)
(* callback it came too late to stop has closed d.cancel, it does the rest *)
(* and releases d.mu.  Whether t is in the past is decided by the second.  *)
(***************************************************************************)
EXTENDS Naturals

CONSTANTS
  Waiter,    \* goroutines that select on the channel of Wait
  MaxSets    \* bound: calls of Set

ASSUME MaxSetsAssumption == MaxSets \in Nat

VARIABLES
  locked,     \* d.mu is held, by a Set
  timer,      \* d.timer: "nil", "armed", or "fired" when its callback started
  callback,   \* the callback has started and not closed d.cancel yet
  cancel,     \* d.cancel
  closed,     \* the closed channels
  ch,         \* the channel a waiter selects on, 0 when it does not
  last,       \* history: the t of the last Set
  sets,       \* calls of Set so far
  panicked    \* a channel was closed twice

deadlineVars == <<locked, timer, callback, cancel, closed, ch, last, sets, panicked>>

DeadlineTypeOK ==
  /\ locked \in BOOLEAN
  /\ timer \in {"nil", "armed", "fired"}
  /\ callback \in BOOLEAN
  /\ cancel \in 1..(MaxSets + 1)
  /\ closed \subseteq 1..cancel
  /\ ch \in [Waiter -> 0..cancel]
  /\ last \in {"zero", "future", "past"}
  /\ sets \in 0..MaxSets
  /\ panicked \in BOOLEAN

\* MakeDeadline.
DeadlineInit ==
  /\ locked = FALSE
  /\ timer = "nil"
  /\ callback = FALSE
  /\ cancel = 1
  /\ closed = {}
  /\ ch = [w \in Waiter |-> 0]
  /\ last = "zero"
  /\ sets = 0
  /\ panicked = FALSE

-----------------------------------------------------------------------------

\* Stop of the timer: too late once it has fired.
SetStop ==
  /\ ~locked
  /\ sets < MaxSets
  /\ locked' = TRUE
  /\ sets' = sets + 1
  /\ timer' = IF timer = "armed" THEN "nil" ELSE timer
  /\ UNCHANGED <<callback, cancel, closed, ch, last, panicked>>

\* Mutant: Set does not wait for a callback that has started.
NotDrained == TRUE

\* <-d.cancel has returned, where Stop came too late.
Drained == timer = "fired" => cancel \in closed

\* A closed channel is replaced by a new one.
OpenCancel == IF cancel \in closed THEN cancel + 1 ELSE cancel

SetApply ==
  /\ locked
  /\ Drained
  /\ \/ last' = "zero"   /\ cancel' = OpenCancel /\ timer' = "nil"   /\ UNCHANGED closed
     \/ last' = "future" /\ cancel' = OpenCancel /\ timer' = "armed" /\ UNCHANGED closed
     \/ last' = "past"   /\ closed' = closed \cup {cancel} /\ timer' = "nil" /\ UNCHANGED cancel
  /\ locked' = FALSE
  /\ UNCHANGED <<callback, ch, sets, panicked>>

\* The runtime starts the callback in a goroutine of its own.
Fire ==
  /\ timer = "armed"
  /\ timer' = "fired"
  /\ callback' = TRUE
  /\ UNCHANGED <<locked, cancel, closed, ch, last, sets, panicked>>

\* Mutant: the callback needs the mutex that Set holds while it waits.
CallbackLocked ==
  /\ callback /\ ~locked
  /\ callback' = FALSE
  /\ closed' = closed \cup {cancel}
  /\ UNCHANGED <<locked, timer, cancel, ch, last, sets, panicked>>

\* close(d.cancel), whichever channel that is by now.
Callback ==
  /\ callback
  /\ callback' = FALSE
  /\ panicked' = (panicked \/ cancel \in closed)
  /\ closed' = closed \cup {cancel}
  /\ UNCHANGED <<locked, timer, cancel, ch, last, sets>>

Wait(w) ==
  /\ ~locked
  /\ ch[w] = 0
  /\ ch' = [ch EXCEPT ![w] = cancel]
  /\ UNCHANGED <<locked, timer, callback, cancel, closed, last, sets, panicked>>

Wake(w) ==
  /\ ch[w] \in closed
  /\ ch' = [ch EXCEPT ![w] = 0]
  /\ UNCHANGED <<locked, timer, callback, cancel, closed, last, sets, panicked>>

DeadlineNext ==
  \/ SetStop \/ SetApply \/ Fire \/ Callback
  \/ \E w \in Waiter : Wait(w) \/ Wake(w)

DeadlineSpec == DeadlineInit /\ [][DeadlineNext]_deadlineVars

\* A Set that runs goes on, a callback that started runs, a waiter whose
\* channel is closed wakes up.
DeadlineFairSpec ==
  /\ DeadlineSpec
  /\ WF_deadlineVars(SetApply)
  /\ WF_deadlineVars(Callback)
  /\ \A w \in Waiter : WF_deadlineVars(Wake(w))

-----------------------------------------------------------------------------

\* The callback and Set never both close a channel.
NoDoubleClose == ~panicked

\* A goroutine is never left on a channel that nobody will close any more:
\* its channel is d.cancel, or is closed.
NoStaleWaiter == \A w \in Waiter : ch[w] = 0 \/ ch[w] = cancel \/ ch[w] \in closed

\* d.cancel is closed exactly when the last Set says so: at once for a past
\* time, never for a zero one, and with the callback for a future one.  No
\* late callback of an earlier timer closes the channel of a later Set.
DeadlineExact ==
  cancel \in closed <=> last = "past" \/ (last = "future" /\ timer = "fired" /\ ~callback)

\* The channel of Wait, as its users see it.
Channel == INSTANCE DeadlineChannel WITH generation <- cancel - 1, elapsed <- cancel \in closed

\* A timer that fires wakes every goroutine that waits at that time, also if
\* a Set is on its way to stop it and waits for its callback.
TimeoutWakes == \A w \in Waiter : (timer = "fired" /\ ch[w] # 0) ~> ch[w] = 0
=============================================================================
