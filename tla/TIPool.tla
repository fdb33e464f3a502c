------------------------------- MODULE TIPool -------------------------------
(***************************************************************************)
(* The thread item pool of modperl_tipool.c: the idle and busy lists of    *)
(* Perl interpreters that the threads of a threaded MPM share, with the    *)
(* PerlInterpStart / MinSpare / MaxSpare / Max / MaxRequests management.   *)
(*                                                                         *)
(* A critical section under tiplock is one step.  COND_WAIT is two: the    *)
(* step that blocks (the lock is released) and the step that re-tests the  *)
(* condition once the thread has been signalled and has the lock again, so *)
(* other threads may barge in between.  The busy list is only ever         *)
(* searched by identity, so it is a set here; the order of the idle list   *)
(* decides which interpreter is reused and is kept.                        *)
(*                                                                         *)
(* The pool's clients are threads that pop an item, use it and put it      *)
(* back, as modperl_interp_get and modperl_interp_unselect do.             *)
(***************************************************************************)
EXTENDS Integers, Sequences, FiniteSets

CONSTANTS
    Threads,      \* the worker threads of the process
    Items,        \* addresses a modperl_interp_t can have; reused once freed
    Start,        \* PerlInterpStart
    MinSpare,     \* PerlInterpMinSpare
    MaxSpare,     \* PerlInterpMaxSpare
    Max,          \* PerlInterpMax
    MaxRequests,  \* PerlInterpMaxRequests
    Quota         \* bound: how many times each thread pops before it exits

ASSUME ThreadsAssumption == IsFiniteSet(Threads)

ASSUME ConfigAssumption ==
    /\ Start \in Nat
    /\ MinSpare \in Nat
    /\ MaxSpare \in Nat
    /\ Max \in Nat
    /\ MaxRequests \in Nat
    /\ Quota \in [Threads -> Nat]

\* There is always an address for a new interpreter (malloc does not fail).
ASSUME ItemsAssumption ==
    /\ IsFiniteSet(Items)
    /\ Cardinality(Items) >= Start
    /\ Cardinality(Items) >= Max

VARIABLES
    idle,          \* tipool->idle, first to last
    busy,          \* tipool->busy
    in_use,        \* tipool->in_use
    size,          \* tipool->size
    waiting,       \* threads blocked in COND_WAIT(&tipool->available)
    woken,         \* threads that left COND_WAIT and have yet to re-test
    num_requests,  \* interp->num_requests
    held,          \* the items pop returned to a thread and it still owns
    quota,         \* how many more times a thread will pop
    up             \* the pool exists: modperl_tipool_destroy has not run

poolVars == <<idle, busy, in_use, size, waiting, woken, num_requests, held>>
vars == <<poolVars, quota, up>>

IdleItems == {idle[k] : k \in 1..Len(idle)}

\* The interpreters that exist.
Alive == IdleItems \cup busy

-----------------------------------------------------------------------------
(* modperl_tipool_init: sgrow and add, cfg->start times.                   *)

Init ==
    /\ idle \in [1..Start -> Items]
    /\ \A j, k \in 1..Start : idle[j] = idle[k] => j = k
    /\ busy = {}
    /\ in_use = 0
    /\ size = Start
    /\ waiting = {}
    /\ woken = {}
    /\ num_requests = [i \in Items |-> 0]
    /\ held = [t \in Threads |-> {}]
    /\ quota = Quota
    /\ up = TRUE

-----------------------------------------------------------------------------
(* modperl_tipool_pop                                                      *)

\* Mutant: pop leaves the item on the idle list.
TakeShared(t, n, list, requests) ==
    LET head == Head(list) IN
    /\ idle' = list
    /\ busy' = busy \cup {head}
    /\ in_use' = in_use + 1
    /\ held' = [held EXCEPT ![t] = @ \cup {head}]
    /\ num_requests' = [requests EXCEPT ![head] = @ + n]

\* The item at the head of list becomes busy and belongs to t, which counts n
\* requests for it: modperl_interp_select counts one, the request the item is
\* selected for, modperl_interp_pool_select counts none.
Take(t, n, list, requests) ==
    LET head == Head(list) IN
    /\ idle' = Tail(list)
    /\ busy' = busy \cup {head}
    /\ in_use' = in_use + 1
    /\ held' = [held EXCEPT ![t] = @ \cup {head}]
    /\ num_requests' = [requests EXCEPT ![head] = @ + n]

\* An idle item exists.
PopIdle(t, n) ==
    /\ size # in_use
    /\ Take(t, n, idle, num_requests)
    /\ UNCHANGED <<size, waiting, woken>>

\* Mutant: PerlInterpMax is not looked at.
PopGrowAlways(t, n) ==
    /\ size = in_use
    /\ \E new \in Items \ Alive :
          Take(t, n, Append(idle, new), [num_requests EXCEPT ![new] = 0])
    /\ size' = size + 1
    /\ UNCHANGED <<waiting, woken>>

\* Every item is in use, but there may be more: rgrow clones a new one, whose
\* structure starts zeroed, adds it to the idle list, and it is popped.
PopGrow(t, n) ==
    /\ size = in_use
    /\ size < Max
    /\ \E new \in Items \ Alive :
          Take(t, n, Append(idle, new), [num_requests EXCEPT ![new] = 0])
    /\ size' = size + 1
    /\ UNCHANGED <<waiting, woken>>

\* Every item is in use and there may be no more: COND_WAIT.
PopBlock(t) ==
    /\ size = in_use
    /\ size >= Max
    /\ waiting' = waiting \cup {t}
    /\ UNCHANGED <<idle, busy, in_use, size, woken, num_requests, held>>

\* modperl_tipool_wait, after COND_WAIT: the condition is false, take an item.
ResumeTake(t, n) ==
    /\ t \in woken
    /\ size # in_use
    /\ Take(t, n, idle, num_requests)
    /\ woken' = woken \ {t}
    /\ UNCHANGED <<size, waiting>>

\* modperl_tipool_wait, after COND_WAIT: still nothing, wait again.
ResumeBlock(t) ==
    /\ t \in woken
    /\ size = in_use
    /\ woken' = woken \ {t}
    /\ waiting' = waiting \cup {t}
    /\ UNCHANGED <<idle, busy, in_use, size, num_requests, held>>

-----------------------------------------------------------------------------
(* modperl_tipool_putback_base                                             *)

\* Mutant: nobody is signalled.
SignalNobody == UNCHANGED <<waiting, woken>>

\* modperl_tipool_broadcast is COND_SIGNAL: it wakes one waiting thread.
Signal ==
    IF waiting = {}
    THEN UNCHANGED <<waiting, woken>>
    ELSE \E w \in waiting : /\ waiting' = waiting \ {w}
                            /\ woken' = woken \cup {w}

\* i leaves the busy list, the thread that owned it no longer does, and one
\* waiting thread is signalled.
Release(i) ==
    /\ busy' = busy \ {i}
    /\ in_use' = in_use - 1
    /\ held' = [t \in Threads |-> held[t] \ {i}]
    /\ Signal

\* The tests made once i is back at the head of the idle list.
HurryUp == in_use' = Max - 1
TooManySpare == size - in_use' > MaxSpare
TooManyRequests(i) == num_requests[i] > 0 /\ num_requests[i] > MaxRequests

\* Mutant: PerlInterpMinSpare is off by one.
TooFewSpareByOne == size - in_use' < MinSpare

\* Fewer than MinSpare items are idle once i has been removed again.
TooFewSpare == (size - 1) - in_use' < MinSpare

\* The item stays in the pool, first in the idle list.
PutbackKeep(i) ==
    /\ i \in busy
    /\ Release(i)
    /\ HurryUp \/ ~(TooManySpare \/ TooManyRequests(i))
    /\ idle' = <<i>> \o idle
    /\ UNCHANGED <<size, num_requests>>

\* Mutant: modperl_tipool_remove forgets the size.
PutbackDestroyUncounted(i) ==
    /\ i \in busy
    /\ Release(i)
    /\ ~HurryUp
    /\ TooManySpare \/ TooManyRequests(i)
    /\ ~(TooManyRequests(i) /\ TooFewSpare)
    /\ UNCHANGED <<idle, size, num_requests>>

\* The item is removed from the idle list again, and destroyed.
PutbackDestroy(i) ==
    /\ i \in busy
    /\ Release(i)
    /\ ~HurryUp
    /\ TooManySpare \/ TooManyRequests(i)
    /\ ~(TooManyRequests(i) /\ TooFewSpare)
    /\ size' = size - 1
    /\ UNCHANGED <<idle, num_requests>>

\* The item is destroyed for its requests and a new clone takes its place, at
\* the end of the idle list (and perhaps at the address just freed).
PutbackReplace(i) ==
    /\ i \in busy
    /\ Release(i)
    /\ ~HurryUp
    /\ TooManyRequests(i)
    /\ TooFewSpare
    /\ \E new \in (Items \ Alive) \cup {i} :
          /\ idle' = Append(idle, new)
          /\ num_requests' = [num_requests EXCEPT ![new] = 0]
    /\ UNCHANGED size

\* Mutant: what is not busy is made idle (again).
PutbackNotBusyAgain(i) ==
    /\ i \notin busy
    /\ idle' = <<i>> \o idle
    /\ UNCHANGED <<busy, in_use, size, waiting, woken, num_requests, held>>

\* "Attempt to putback something that was never there": unlock and return.
PutbackNotBusy(i) ==
    /\ i \notin busy
    /\ UNCHANGED poolVars

PutbackData(i) == PutbackKeep(i) \/ PutbackDestroy(i) \/ PutbackReplace(i)

-----------------------------------------------------------------------------
(* The threads.                                                            *)

InPool(t) == t \in waiting \cup woken

\* A thread asks for one item at a time (request scope).
Pop(t) ==
    /\ up
    /\ ~InPool(t)
    /\ held[t] = {}
    /\ quota[t] > 0
    /\ \/ \E n \in {0, 1} : PopIdle(t, n) \/ PopGrow(t, n)
       \/ PopBlock(t)
    /\ quota' = [quota EXCEPT ![t] = @ - 1]
    /\ UNCHANGED up

Resume(t) ==
    /\ \/ \E n \in {0, 1} : ResumeTake(t, n)
       \/ ResumeBlock(t)
    /\ UNCHANGED <<quota, up>>

Putback(t) ==
    /\ \E i \in held[t] : PutbackData(i)
    /\ UNCHANGED <<quota, up>>

\* COND_WAIT may return without a signal.
SpuriousWakeup(t) ==
    /\ t \in waiting
    /\ waiting' = waiting \ {t}
    /\ woken' = woken \cup {t}
    /\ UNCHANGED <<idle, busy, in_use, size, num_requests, held, quota, up>>

Exited(t) == ~InPool(t) /\ held[t] = {} /\ quota[t] = 0

\* modperl_tipool_destroy, from the pool cleanup of the exiting process, when
\* its threads have been joined: every idle item is destroyed.
Destroy ==
    /\ up
    /\ \A t \in Threads : Exited(t)
    /\ up' = FALSE
    /\ size' = size - Len(idle)
    /\ idle' = <<>>
    /\ UNCHANGED <<busy, in_use, waiting, woken, num_requests, held, quota>>

Terminated == ~up /\ UNCHANGED vars

Next ==
    \/ \E t \in Threads :
          Pop(t) \/ Resume(t) \/ Putback(t) \/ SpuriousWakeup(t)
    \/ Destroy
    \/ Terminated

Spec == Init /\ [][Next]_vars

\* A thread that can take the lock eventually does, and a handler returns, so
\* that the item it ran on is put back.
Fairness ==
    /\ \A t \in Threads :
          WF_vars(Pop(t)) /\ WF_vars(Resume(t)) /\ WF_vars(Putback(t))
    /\ WF_vars(Destroy)

FairSpec == Spec /\ Fairness

-----------------------------------------------------------------------------
(* Properties.                                                             *)

\* Every variable of the pool (modperl_tipool_t) has its type.
TypeOK ==
    /\ idle \in Seq(Items)
    /\ busy \in SUBSET Items
    /\ in_use \in Nat
    /\ size \in Nat
    /\ waiting \in SUBSET Threads
    /\ woken \in SUBSET Threads
    /\ num_requests \in [Items -> Nat]
    /\ held \in [Threads -> SUBSET Items]
    /\ quota \in [Threads -> Nat]
    /\ up \in BOOLEAN

\* The two counters that pop and putback steer by agree with the lists, no
\* item is on a list twice or on both lists: "PANIC: no items available" in
\* modperl_tipool_pop is unreachable.
Accounting ==
    /\ size = Len(idle) + in_use
    /\ in_use = Cardinality(busy)
    /\ \A j, k \in 1..Len(idle) : idle[j] = idle[k] => j = k
    /\ IdleItems \cap busy = {}

\* An interpreter that modperl_tipool_pop returned belongs to the one thread
\* it was returned to until that thread puts it back.
ExclusiveUse ==
    /\ \A i \in Items : i \in busy <=> \E t \in Threads : i \in held[t]
    /\ \A t, u \in Threads : t # u => held[t] \cap held[u] = {}

\* putback signals one thread and not all of them, and may destroy the item it
\* has just announced; still no thread sleeps in COND_WAIT while there is an
\* idle item that no signalled thread is on its way to take.
NoLostWakeup == waiting # {} => Len(idle) <= Cardinality(woken)

\* With at least one spare item configured, a thread that sleeps in COND_WAIT
\* with nobody signalled always has somebody to signal it: shrinking the pool
\* never takes the last item from under a waiting thread.
NoStrandedWaiter == waiting # {} /\ woken = {} => in_use > 0

\* No sequence of growing, shrinking and replacing takes the pool beyond
\* PerlInterpMax (or PerlInterpStart, where that is larger).
SizeBound == size <= Max \/ size <= Start

\* A thread that blocks in modperl_tipool_pop gets an item in the end.
WaiterServed == \A t \in Threads : t \in waiting ~> held[t] # {}

=============================================================================
