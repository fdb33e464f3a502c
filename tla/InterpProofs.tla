---------------------------- MODULE InterpProofs ----------------------------
(***************************************************************************)
(* Proofs about the thread item pool and interpreter selection, for every  *)
(* number of threads and interpreters, every PerlInterp* configuration and *)
(* any depth of nesting.                                                   *)
(*                                                                         *)
(* The first part is about TIPool alone.  The second holds for every       *)
(* PerlInterpScope: whatever the callers of modperl_interp_unselect do,    *)
(* the thread item pool stays consistent.  The third is about servers      *)
(* without PerlInterpScope handler, where an interpreter is only put back  *)
(* by the cleanups of the pool it is stashed in.                           *)
(***************************************************************************)
EXTENDS Interp, FiniteSetTheorems, TLAPS

\* The part of the state that the inductive argument is about.
Core == TypeOK /\ Accounting /\ ExclusiveUse

-----------------------------------------------------------------------------
(* Sets of threads and of items are finite, and counting them is ordinary. *)

\* Any set of threads or of items has a cardinality, a natural number.
LEMMA Countable ==
    /\ \A S \in SUBSET Threads : IsFiniteSet(S) /\ Cardinality(S) \in Nat
    /\ \A S \in SUBSET Items : IsFiniteSet(S) /\ Cardinality(S) \in Nat
<1>1. ASSUME NEW S \in SUBSET Threads
      PROVE  IsFiniteSet(S) /\ Cardinality(S) \in Nat
  BY FS_Subset, FS_CardinalityType, ThreadsAssumption
<1>2. ASSUME NEW S \in SUBSET Items
      PROVE  IsFiniteSet(S) /\ Cardinality(S) \in Nat
  BY FS_Subset, FS_CardinalityType, ItemsAssumption
<1> QED BY <1>1, <1>2

\* The head of a list leaves it, and the others stay in it once.
LEMMA TailOfDistinct ==
    ASSUME NEW s \in Seq(Items), Len(s) > 0,
           \A j, k \in 1..Len(s) : s[j] = s[k] => j = k
    PROVE  /\ Head(s) \in Items
           /\ Head(s) = s[1]
           /\ Tail(s) \in Seq(Items)
           /\ Len(Tail(s)) = Len(s) - 1
           /\ \A k \in 1..Len(Tail(s)) : Tail(s)[k] = s[k + 1]
           /\ \A j, k \in 1..Len(Tail(s)) : Tail(s)[j] = Tail(s)[k] => j = k
           /\ \A k \in 1..Len(Tail(s)) : Tail(s)[k] # Head(s)
OBVIOUS

\* An item that is not in a list can be added behind it.
LEMMA AppendDistinct ==
    ASSUME NEW s \in Seq(Items), NEW x \in Items,
           \A j, k \in 1..Len(s) : s[j] = s[k] => j = k,
           \A k \in 1..Len(s) : s[k] # x
    PROVE  /\ Append(s, x) \in Seq(Items)
           /\ Len(Append(s, x)) = Len(s) + 1
           /\ Append(s, x)[Len(s) + 1] = x
           /\ \A k \in 1..Len(s) : Append(s, x)[k] = s[k]
           /\ \A j, k \in 1..Len(Append(s, x)) :
                 Append(s, x)[j] = Append(s, x)[k] => j = k
OBVIOUS

\* An item that is not in a list can be put in front of it.
LEMMA PrependDistinct ==
    ASSUME NEW s \in Seq(Items), NEW x \in Items,
           \A j, k \in 1..Len(s) : s[j] = s[k] => j = k,
           \A k \in 1..Len(s) : s[k] # x
    PROVE  /\ <<x>> \o s \in Seq(Items)
           /\ Len(<<x>> \o s) = Len(s) + 1
           /\ (<<x>> \o s)[1] = x
           /\ \A k \in 2..Len(<<x>> \o s) : (<<x>> \o s)[k] = s[k - 1]
           /\ \A j, k \in 1..Len(<<x>> \o s) :
                 (<<x>> \o s)[j] = (<<x>> \o s)[k] => j = k
OBVIOUS

-----------------------------------------------------------------------------
(* The steps of the pool keep the core invariant.                          *)

\* modperl_tipool_pop moves the head of the idle list to the busy list and
\* hands it to one thread, whether or not the list has just been grown.
LEMMA TakeCore ==
    ASSUME Core,
           NEW t \in Threads,
           NEW list \in Seq(Items), Len(list) > 0,
           \A j, k \in 1..Len(list) : list[j] = list[k] => j = k,
           \A k \in 1..Len(list) : list[k] \notin busy,
           NEW n \in {0, 1},
           NEW requests \in [Items -> Nat],
           Take(t, n, list, requests),
           size' = Len(list) + in_use,
           waiting' \in SUBSET Threads,
           woken' \in SUBSET Threads,
           quota' \in [Threads -> Nat],
           up' \in BOOLEAN
    PROVE  Core'
<1> DEFINE head == Head(list)
<1> USE DEF Core
<1>1. /\ head \in Items
      /\ head \notin busy
      /\ head \notin {Tail(list)[k] : k \in 1..Len(Tail(list))}
      /\ Tail(list) \in Seq(Items)
      /\ Len(Tail(list)) = Len(list) - 1
      /\ \A j, k \in 1..Len(Tail(list)) : Tail(list)[j] = Tail(list)[k] => j = k
      /\ \A k \in 1..Len(Tail(list)) : Tail(list)[k] = list[k + 1]
  BY TailOfDistinct
<1>2. /\ idle' = Tail(list)
      /\ busy' = busy \cup {head}
      /\ in_use' = in_use + 1
      /\ held' = [held EXCEPT ![t] = @ \cup {head}]
  BY DEF Take
<1>3. num_requests' \in [Items -> Nat]
  BY <1>1 DEF Take
<1>4. TypeOK'
  BY <1>1, <1>2, <1>3, SMTT(60) DEF TypeOK
<1>5. Cardinality(busy') = Cardinality(busy) + 1
  BY <1>1, <1>2, Countable, FS_AddElement DEF TypeOK
<1>6. \A k \in 1..Len(idle') : idle'[k] \notin busy'
  BY <1>1, <1>2
<1>7. Accounting'
  <2>1. (size = Len(idle) + in_use)'
    BY <1>1, <1>2 DEF TypeOK
  <2>2. (in_use = Cardinality(busy))'
    BY <1>2, <1>5 DEF Accounting
  <2>3. (IdleItems \cap busy = {})'
    BY <1>6 DEF IdleItems
  <2> QED BY <1>1, <1>2, <2>1, <2>2, <2>3 DEF Accounting
<1>8. ExclusiveUse'
  BY <1>1, <1>2, SMTT(60) DEF ExclusiveUse, TypeOK
<1> QED BY <1>4, <1>7, <1>8

\* The facts of Accounting in the form the list lemmas need.
LEMMA IdleFacts ==
    ASSUME Core
    PROVE  /\ idle \in Seq(Items)
           /\ Len(idle) \in Nat
           /\ \A j, k \in 1..Len(idle) : idle[j] = idle[k] => j = k
           /\ \A k \in 1..Len(idle) : idle[k] \notin busy
           /\ \A k \in 1..Len(idle) : idle[k] \in Alive
           /\ size = Len(idle) + in_use
<1>1. idle \in Seq(Items)  BY DEF Core, TypeOK
<1>2. /\ \A j, k \in 1..Len(idle) : idle[j] = idle[k] => j = k
      /\ size = Len(idle) + in_use
  BY DEF Core, Accounting
<1>3. \A k \in 1..Len(idle) : idle[k] \notin busy
  BY DEF Core, Accounting, IdleItems
<1>4. \A k \in 1..Len(idle) : idle[k] \in Alive
  BY DEF IdleItems, Alive
<1> QED BY <1>1, <1>2, <1>3, <1>4

\* Popping an item that was idle.
LEMMA PopIdleCore ==
    ASSUME Core, NEW t \in Threads,
           NEW n \in {0, 1},
           size # in_use,
           Take(t, n, idle, num_requests),
           size' = size,
           waiting' \in SUBSET Threads,
           woken' \in SUBSET Threads,
           quota' \in [Threads -> Nat],
           up' \in BOOLEAN
    PROVE  Core'
<1>1. Len(idle) > 0
  BY IdleFacts DEF Core, TypeOK
<1>2. num_requests \in [Items -> Nat]
  BY DEF Core, TypeOK
<1> QED BY <1>1, <1>2, IdleFacts, TakeCore

\* Growing the pool and popping the new item.
LEMMA PopGrowCore ==
    ASSUME Core, NEW t \in Threads, NEW n \in {0, 1},
           PopGrow(t, n),
           quota' \in [Threads -> Nat],
           up' \in BOOLEAN
    PROVE  Core'
<1>1. PICK new \in Items \ Alive :
         Take(t, n, Append(idle, new), [num_requests EXCEPT ![new] = 0])
  BY DEF PopGrow
<1> DEFINE list == Append(idle, new)
<1> DEFINE requests == [num_requests EXCEPT ![new] = 0]
<1>2. /\ list \in Seq(Items)
      /\ Len(list) = Len(idle) + 1
      /\ list[Len(idle) + 1] = new
      /\ \A k \in 1..Len(idle) : list[k] = idle[k]
      /\ \A j, k \in 1..Len(list) : list[j] = list[k] => j = k
  <2>1. \A k \in 1..Len(idle) : idle[k] # new
    BY IdleFacts
  <2>2. /\ idle \in Seq(Items)
        /\ \A j, k \in 1..Len(idle) : idle[j] = idle[k] => j = k
    BY IdleFacts
  <2> QED BY <2>1, <2>2, AppendDistinct
<1>3. \A k \in 1..Len(list) : list[k] \notin busy
  BY <1>2, IdleFacts DEF Alive
<1>4. requests \in [Items -> Nat]
  BY DEF Core, TypeOK
<1>5. size' = Len(list) + in_use /\ Len(list) > 0
  BY <1>2, IdleFacts DEF PopGrow, Core, TypeOK
<1>6. waiting' \in SUBSET Threads /\ woken' \in SUBSET Threads
  BY DEF PopGrow, Core, TypeOK
<1>7. Take(t, n, list, requests)
  BY <1>1
<1> HIDE DEF list, requests
<1> QED BY <1>2, <1>3, <1>4, <1>5, <1>6, <1>7, TakeCore

\* The thread blocks: only the set of waiting threads changes.
LEMMA BlockCore ==
    ASSUME Core,
           UNCHANGED <<idle, busy, in_use, size, num_requests, held>>,
           waiting' \in SUBSET Threads,
           woken' \in SUBSET Threads,
           quota' \in [Threads -> Nat],
           up' \in BOOLEAN
    PROVE  Core'
BY DEF Core, TypeOK, Accounting, ExclusiveUse, IdleItems

\* COND_SIGNAL moves at most one thread from waiting to woken.
LEMMA SignalType ==
    ASSUME TypeOK, Signal
    PROVE  waiting' \in SUBSET Threads /\ woken' \in SUBSET Threads
BY DEF TypeOK, Signal

\* modperl_tipool_putback_base takes i from the busy list and leaves a list
\* that holds every idle item once and nothing that is still busy.
LEMMA ReleaseCore ==
    ASSUME Core,
           NEW i \in busy,
           Release(i),
           NEW list \in Seq(Items),
           \A j, k \in 1..Len(list) : list[j] = list[k] => j = k,
           \A k \in 1..Len(list) : list[k] \notin busy \ {i},
           idle' = list,
           size' = Len(list) + in_use - 1,
           num_requests' \in [Items -> Nat],
           quota' \in [Threads -> Nat],
           up' \in BOOLEAN
    PROVE  Core'
<1> USE DEF Core
<1>1. /\ busy' = busy \ {i}
      /\ in_use' = in_use - 1
      /\ held' = [t \in Threads |-> held[t] \ {i}]
      /\ waiting' \in SUBSET Threads
      /\ woken' \in SUBSET Threads
  BY SignalType DEF Release
<1>2. Cardinality(busy') = Cardinality(busy) - 1
  BY <1>1, Countable, FS_RemoveElement DEF TypeOK
<1>3. in_use' \in Nat /\ in_use' = Cardinality(busy')
  BY <1>1, <1>2, Countable, SMTT(60) DEF TypeOK, Accounting
<1>4. size' \in Nat /\ size' = Len(idle') + in_use'
  BY <1>1, <1>3 DEF TypeOK
<1>5. TypeOK'
  BY <1>1, <1>3, <1>4 DEF TypeOK
<1>6. Accounting'
  <2>1. (IdleItems \cap busy = {})'
    BY <1>1 DEF IdleItems
  <2> QED BY <1>3, <1>4, <2>1 DEF Accounting
<1>7. ExclusiveUse'
  BY <1>1 DEF ExclusiveUse, TypeOK
<1> QED BY <1>5, <1>6, <1>7

\* The item stays in the pool.
LEMMA PutbackKeepCore ==
    ASSUME Core, NEW i \in Items,
           PutbackKeep(i),
           quota' \in [Threads -> Nat],
           up' \in BOOLEAN
    PROVE  Core'
<1> DEFINE list == <<i>> \o idle
<1>1. i \in busy /\ Release(i) /\ idle' = list /\ size' = size
  BY DEF PutbackKeep
<1>2. num_requests' \in [Items -> Nat]
  BY DEF PutbackKeep, Core, TypeOK
<1>3. /\ list \in Seq(Items)
      /\ Len(list) = Len(idle) + 1
      /\ list[1] = i
      /\ \A k \in 2..Len(list) : list[k] = idle[k - 1]
      /\ \A j, k \in 1..Len(list) : list[j] = list[k] => j = k
  BY <1>1, IdleFacts, PrependDistinct
<1>4. \A k \in 1..Len(list) : list[k] \notin busy \ {i}
  <2>1. \A k \in 2..Len(list) : idle[k - 1] \notin busy
    BY <1>3, IdleFacts
  <2> QED BY <1>3, <2>1
<1>5. size' = Len(list) + in_use - 1
  BY <1>1, <1>3, IdleFacts DEF Core, TypeOK
<1> HIDE DEF list
<1> QED BY <1>1, <1>2, <1>3, <1>4, <1>5, ReleaseCore

\* The item is destroyed.
LEMMA PutbackDestroyCore ==
    ASSUME Core, NEW i \in Items,
           PutbackDestroy(i),
           quota' \in [Threads -> Nat],
           up' \in BOOLEAN
    PROVE  Core'
<1>1. i \in busy /\ Release(i) /\ idle' = idle /\ size' = size - 1
  BY DEF PutbackDestroy
<1>2. num_requests' \in [Items -> Nat]
  BY DEF PutbackDestroy, Core, TypeOK
<1>3. size' = Len(idle) + in_use - 1
  BY <1>1, IdleFacts DEF Core, TypeOK
<1> QED BY <1>1, <1>2, <1>3, IdleFacts, ReleaseCore

\* The item is destroyed and replaced.
LEMMA PutbackReplaceCore ==
    ASSUME Core, NEW i \in Items,
           PutbackReplace(i),
           quota' \in [Threads -> Nat],
           up' \in BOOLEAN
    PROVE  Core'
<1>1. i \in busy /\ Release(i) /\ size' = size
  BY DEF PutbackReplace
<1>2. PICK new \in (Items \ Alive) \cup {i} :
         /\ idle' = Append(idle, new)
         /\ num_requests' = [num_requests EXCEPT ![new] = 0]
  BY DEF PutbackReplace
<1> DEFINE list == Append(idle, new)
<1>3. new \in Items /\ new \notin busy \ {i}
  BY DEF Alive
<1>4. /\ list \in Seq(Items)
      /\ Len(list) = Len(idle) + 1
      /\ list[Len(idle) + 1] = new
      /\ \A k \in 1..Len(idle) : list[k] = idle[k]
      /\ \A j, k \in 1..Len(list) : list[j] = list[k] => j = k
  <2>1. \A k \in 1..Len(idle) : idle[k] # new
    BY <1>1, IdleFacts
  <2>2. /\ idle \in Seq(Items)
        /\ \A j, k \in 1..Len(idle) : idle[j] = idle[k] => j = k
    BY IdleFacts
  <2> QED BY <1>3, <2>1, <2>2, AppendDistinct
<1>5. \A k \in 1..Len(list) : list[k] \notin busy \ {i}
  <2>1. \A k \in 1..Len(idle) : idle[k] \notin busy
    BY IdleFacts
  <2> QED BY <1>3, <1>4, <2>1, IdleFacts
<1>6. size' = Len(list) + in_use - 1
  <2>1. in_use \in Nat /\ Len(idle) \in Nat /\ size = Len(idle) + in_use
    BY IdleFacts DEF Core, TypeOK
  <2>2. size' = size /\ Len(list) = Len(idle) + 1  BY <1>1, <1>4
  <2> QED BY ONLY <2>1, <2>2
<1>7. num_requests' \in [Items -> Nat]
  BY <1>2 DEF Core, TypeOK
<1>8. idle' = list
  BY <1>2
<1> HIDE DEF list
<1> QED BY <1>1, <1>4, <1>5, <1>6, <1>7, <1>8, ReleaseCore

\* Every step of the specification keeps the core invariant.
LEMMA CoreStep ==
    ASSUME Core, [Next]_vars
    PROVE  Core'
<1> USE DEF Core
<1>1. ASSUME NEW t \in Threads, Pop(t) PROVE Core'
  <2>1. quota' \in [Threads -> Nat] /\ up' \in BOOLEAN
    BY <1>1 DEF Pop, TypeOK
  <2>2. ASSUME NEW n \in {0, 1}, PopIdle(t, n) PROVE Core'
    <3>1. /\ size # in_use /\ size' = size
          /\ Take(t, n, idle, num_requests)
          /\ waiting' \in SUBSET Threads /\ woken' \in SUBSET Threads
      BY <2>2 DEF PopIdle, TypeOK
    <3> QED BY <2>1, <3>1, PopIdleCore
  <2>3. ASSUME NEW n \in {0, 1}, PopGrow(t, n) PROVE Core'
    BY <2>1, <2>3, PopGrowCore
  <2>4. CASE PopBlock(t)
    <3>1. /\ UNCHANGED <<idle, busy, in_use, size, num_requests, held>>
          /\ waiting' \in SUBSET Threads /\ woken' \in SUBSET Threads
      BY <2>4 DEF PopBlock, TypeOK
    <3> QED BY <2>1, <3>1, BlockCore
  <2> QED BY <1>1, <2>2, <2>3, <2>4 DEF Pop
<1>2. ASSUME NEW t \in Threads, Resume(t) PROVE Core'
  <2>1. quota' \in [Threads -> Nat] /\ up' \in BOOLEAN
    BY <1>2 DEF Resume, TypeOK
  <2>2. ASSUME NEW n \in {0, 1}, ResumeTake(t, n) PROVE Core'
    <3>1. /\ size # in_use /\ size' = size
          /\ Take(t, n, idle, num_requests)
          /\ waiting' \in SUBSET Threads /\ woken' \in SUBSET Threads
      BY <2>2 DEF ResumeTake, TypeOK
    <3> QED BY <2>1, <3>1, PopIdleCore
  <2>3. CASE ResumeBlock(t)
    <3>1. /\ UNCHANGED <<idle, busy, in_use, size, num_requests, held>>
          /\ waiting' \in SUBSET Threads /\ woken' \in SUBSET Threads
      BY <2>3 DEF ResumeBlock, TypeOK
    <3> QED BY <2>1, <3>1, BlockCore
  <2> QED BY <1>2, <2>2, <2>3 DEF Resume
<1>3. ASSUME NEW t \in Threads, Putback(t) PROVE Core'
  <2>1. quota' \in [Threads -> Nat] /\ up' \in BOOLEAN
    BY <1>3 DEF Putback, TypeOK
  <2>2. PICK i \in held[t] : PutbackData(i)
    BY <1>3 DEF Putback
  <2>3. i \in Items
    BY DEF TypeOK
  <2> QED
    BY <2>1, <2>2, <2>3, PutbackKeepCore, PutbackDestroyCore,
       PutbackReplaceCore DEF PutbackData
<1>4. ASSUME NEW t \in Threads, SpuriousWakeup(t) PROVE Core'
  <2>1. /\ UNCHANGED <<idle, busy, in_use, size, num_requests, held>>
        /\ waiting' \in SUBSET Threads /\ woken' \in SUBSET Threads
        /\ quota' \in [Threads -> Nat] /\ up' \in BOOLEAN
    BY <1>4 DEF SpuriousWakeup, TypeOK
  <2> QED BY <2>1, BlockCore
<1>5. CASE Destroy
  <2>1. /\ idle' = <<>>
        /\ size' = size - Len(idle)
        /\ up' = FALSE
        /\ UNCHANGED <<busy, in_use, waiting, woken, num_requests, held, quota>>
    BY <1>5 DEF Destroy
  <2>2. size' = in_use' /\ Len(idle') = 0
    BY <2>1, IdleFacts DEF TypeOK
  <2>3. TypeOK'
    <3>1. idle' \in Seq(Items)
      BY <2>1
    <3>2. size' \in Nat /\ in_use' \in Nat
      BY <2>1, <2>2 DEF TypeOK
    <3>3. up' \in BOOLEAN
      BY <2>1
    <3> QED BY <2>1, <3>1, <3>2, <3>3 DEF TypeOK
  <2>4. Accounting'
    <3>1. 1..Len(idle') = {}
      BY <2>2
    <3>2. (IdleItems \cap busy = {})'
      BY <3>1 DEF IdleItems
    <3>3. (in_use = Cardinality(busy))'
      BY <2>1 DEF Accounting
    <3> QED BY <2>2, <2>3, <3>1, <3>2, <3>3 DEF Accounting, TypeOK
  <2>5. ExclusiveUse'
    BY <2>1 DEF ExclusiveUse
  <2> QED BY <2>3, <2>4, <2>5
<1>6. CASE UNCHANGED vars
  BY <1>6 DEF vars, poolVars, TypeOK, Accounting, ExclusiveUse, IdleItems
<1> QED
  BY <1>1, <1>2, <1>3, <1>4, <1>5, <1>6 DEF Next, Terminated

\* The pool modperl_tipool_init builds satisfies the core invariant.
LEMMA CoreInit ==
    ASSUME Init
    PROVE  Core
<1>1. idle \in Seq(Items) /\ Len(idle) = Start
  BY ConfigAssumption DEF Init
<1>2. TypeOK
  BY <1>1, ConfigAssumption DEF Init, TypeOK
<1>3. Accounting
  BY <1>1, ConfigAssumption, FS_EmptySet DEF Init, Accounting, IdleItems
<1>4. ExclusiveUse
  BY DEF Init, ExclusiveUse
<1> QED BY <1>2, <1>3, <1>4 DEF Core

-----------------------------------------------------------------------------
(* The theorems.                                                           *)

\* The counters of modperl_tipool.c always describe its lists, and an
\* interpreter is only ever in the hands of one thread.
THEOREM PoolIntegrity == Spec => [](TypeOK /\ Accounting /\ ExclusiveUse)
<1>1. Init => Core
  BY CoreInit
<1>2. Core /\ [Next]_vars => Core'
  BY CoreStep
<1>3. Core => TypeOK /\ Accounting /\ ExclusiveUse
  BY DEF Core
<1> QED BY <1>1, <1>2, <1>3, PTL DEF Spec

\* COND_SIGNAL either wakes one more thread or finds nobody asleep.
LEMMA SignalCount ==
    ASSUME TypeOK, waiting \cap woken = {}, Signal
    PROVE  /\ waiting' \cap woken' = {}
           /\ Cardinality(woken') \in Nat
           /\ \/ waiting' = {}
              \/ Cardinality(woken') = Cardinality(woken) + 1
<1>1. Cardinality(woken') \in Nat
  BY SignalType, Countable
<1>2. CASE waiting = {}
  BY <1>1, <1>2 DEF Signal
<1>3. CASE waiting # {}
  <2>1. PICK w \in waiting : waiting' = waiting \ {w} /\ woken' = woken \cup {w}
    BY <1>3 DEF Signal
  <2>2. Cardinality(woken') = Cardinality(woken) + 1
    BY <2>1, Countable, FS_AddElement DEF TypeOK
  <2> QED BY <1>1, <2>1, <2>2
<1> QED BY <1>2, <1>3

\* A thread cannot be asleep and awake.
WaitDisjoint == waiting \cap woken = {}

\* NoLostWakeup counts woken threads, so it needs the lists and the counters
\* to agree (a thread goes to sleep only when the idle list is empty) and a
\* signal to add a thread to woken.
LEMMA WakeupStep ==
    ASSUME Core, WaitDisjoint, NoLostWakeup, [Next]_vars
    PROVE  WaitDisjoint' /\ NoLostWakeup'
<1> USE DEF WaitDisjoint, NoLostWakeup
<1>0. /\ TypeOK
      /\ Len(idle) \in Nat /\ Cardinality(woken) \in Nat
      /\ \A S \in SUBSET Threads : IsFiniteSet(S)
  BY IdleFacts, Countable DEF Core, TypeOK
<1>1. ASSUME NEW t \in Threads, Pop(t) PROVE WaitDisjoint' /\ NoLostWakeup'
  <2>1. ASSUME NEW n \in {0, 1}, PopIdle(t, n) PROVE WaitDisjoint' /\ NoLostWakeup'
    <3>1. Len(idle) > 0
      BY <2>1, IdleFacts DEF PopIdle, Core, TypeOK
    <3>2. Len(idle') = Len(idle) - 1
      BY <1>0, <2>1, <3>1 DEF PopIdle, Take, TypeOK
    <3> QED BY <1>0, <2>1, <3>2 DEF PopIdle
  <2>2. ASSUME NEW n \in {0, 1}, PopGrow(t, n) PROVE WaitDisjoint' /\ NoLostWakeup'
    <3>1. PICK new \in Items : idle' = Tail(Append(idle, new))
      BY <2>2 DEF PopGrow, Take
    <3>2. Len(idle') = Len(idle)
      <4>1. Append(idle, new) \in Seq(Items) /\ Len(Append(idle, new)) = Len(idle) + 1
        BY <1>0 DEF TypeOK
      <4> DEFINE list == Append(idle, new)
      <4>2. list \in Seq(Items) /\ Len(list) > 0 /\ idle' = Tail(list)
        BY <1>0, <3>1, <4>1
      <4> HIDE DEF list
      <4>3. Len(Tail(list)) = Len(list) - 1
        BY <4>2
      <4> QED BY <1>0, <4>1, <4>2, <4>3 DEF list
    <3> QED BY <2>2, <3>2 DEF PopGrow
  <2>3. CASE PopBlock(t)
    <3>1. Len(idle) = 0
      BY <2>3, IdleFacts DEF PopBlock, Core, TypeOK
    <3> QED BY <1>0, <1>1, <2>3, <3>1 DEF PopBlock, Pop, InPool
  <2> QED BY <1>1, <2>1, <2>2, <2>3 DEF Pop
<1>2. ASSUME NEW t \in Threads, Resume(t) PROVE WaitDisjoint' /\ NoLostWakeup'
  <2>1. ASSUME t \in woken, woken' = woken \ {t}
        PROVE  Cardinality(woken') = Cardinality(woken) - 1
    BY <1>0, <2>1, FS_RemoveElement DEF TypeOK
  <2>2. ASSUME NEW n \in {0, 1}, ResumeTake(t, n) PROVE WaitDisjoint' /\ NoLostWakeup'
    <3>1. Len(idle) > 0
      BY <2>2, IdleFacts DEF ResumeTake, Core, TypeOK
    <3>2. Len(idle') = Len(idle) - 1
      BY <1>0, <2>2, <3>1 DEF ResumeTake, Take, TypeOK
    <3>3. Cardinality(woken') = Cardinality(woken) - 1
      BY <2>1, <2>2 DEF ResumeTake
    <3> QED BY <1>0, <2>2, <3>2, <3>3 DEF ResumeTake
  <2>3. CASE ResumeBlock(t)
    <3>1. Len(idle') = 0
      BY <2>3, IdleFacts DEF ResumeBlock, Core, TypeOK
    <3>2. Cardinality(woken') \in Nat
      BY <1>0, <2>3, Countable DEF ResumeBlock, TypeOK
    <3> QED BY <2>3, <3>1, <3>2 DEF ResumeBlock
  <2> QED BY <1>2, <2>2, <2>3 DEF Resume
<1>3. ASSUME NEW t \in Threads, Putback(t) PROVE WaitDisjoint' /\ NoLostWakeup'
  <2>1. PICK i \in Items : PutbackData(i)
    BY <1>0, <1>3 DEF Putback, TypeOK
  <2>2. Signal
    BY <2>1 DEF PutbackData, PutbackKeep, PutbackDestroy, PutbackReplace,
                Release
  <2>3. /\ waiting' \cap woken' = {}
        /\ Cardinality(woken') \in Nat
        /\ waiting' = {} \/ Cardinality(woken') = Cardinality(woken) + 1
    BY <1>0, <2>2, SignalCount
  <2>4. Len(idle') <= Len(idle) + 1
    <3>1. CASE PutbackKeep(i)
      BY <1>0, <3>1 DEF PutbackKeep, TypeOK
    <3>2. CASE PutbackDestroy(i)
      BY <1>0, <3>2 DEF PutbackDestroy
    <3>3. CASE PutbackReplace(i)
      <4>1. PICK new \in Items : idle' = Append(idle, new)
        BY <3>3 DEF PutbackReplace
      <4> QED BY <1>0, <4>1 DEF TypeOK
    <3> QED BY <2>1, <3>1, <3>2, <3>3 DEF PutbackData
  <2>5. waiting # {} \/ waiting' = {}
    BY <2>2 DEF Signal
  <2>6. Len(idle') \in Nat
    BY CoreStep, IdleFacts, <1>3 DEF Core, TypeOK, Next
  <2> QED BY <1>0, <2>3, <2>4, <2>5, <2>6
<1>4. ASSUME NEW t \in Threads, SpuriousWakeup(t)
      PROVE  WaitDisjoint' /\ NoLostWakeup'
  <2>1. /\ waiting' = waiting \ {t} /\ woken' = woken \cup {t}
        /\ t \in waiting /\ idle' = idle
    BY <1>4 DEF SpuriousWakeup
  <2>2. Cardinality(woken') = Cardinality(woken) + 1
    BY <1>0, <2>1, FS_AddElement DEF TypeOK
  <2> QED BY <1>0, <2>1, <2>2
<1>5. CASE Destroy
  <2>1. idle' = <<>> /\ Len(idle') = 0 /\ UNCHANGED <<waiting, woken>>
    BY <1>5 DEF Destroy
  <2> QED BY <1>0, <2>1
<1>6. CASE UNCHANGED vars
  BY <1>6 DEF vars, poolVars
<1> QED
  BY <1>1, <1>2, <1>3, <1>4, <1>5, <1>6 DEF Next, Terminated

\* modperl_tipool_broadcast signals a single thread, before putback decides to
\* destroy the item after all; even so no wakeup is ever lost.
THEOREM WakeupNotLost == Spec => []NoLostWakeup
<1> DEFINE Inv == Core /\ WaitDisjoint /\ NoLostWakeup
<1>1. Init => Inv
  BY CoreInit DEF Init, WaitDisjoint, NoLostWakeup
<1>2. Inv /\ [Next]_vars => Inv'
  BY CoreStep, WakeupStep
<1>3. Inv => NoLostWakeup
  OBVIOUS
<1> QED BY <1>1, <1>2, <1>3, PTL DEF Spec

-----------------------------------------------------------------------------

\* Some interpreter exists whenever a thread is in modperl_tipool_wait.
WaitersHaveItems == waiting \cup woken # {} => size > 0

\* The configurations in which putback never empties the pool.
SpareConfigured == MinSpare >= 1 /\ MaxSpare >= 1 /\ Max >= 1

\* How a step changes the size of the pool: putback shrinks it only when
\* enough spare items remain, pop grows it only below PerlInterpMax.
LEMMA SizeStep ==
    ASSUME Core, SpareConfigured, Next
    PROVE  \/ size' = size /\ waiting' \cup woken' \subseteq waiting \cup woken
           \/ size' > 0
           \/ waiting' \cup woken' = {}
<1>0. size \in Nat /\ in_use \in Nat /\ TypeOK
  BY DEF Core, TypeOK
<1>1. ASSUME NEW t \in Threads, Pop(t)
      PROVE  \/ size' = size /\ waiting' \cup woken' \subseteq waiting \cup woken
             \/ size' > 0
  BY <1>0, <1>1, ConfigAssumption
  DEF Pop, PopIdle, PopGrow, PopBlock, SpareConfigured
<1>2. ASSUME NEW t \in Threads, Resume(t)
      PROVE  size' = size /\ waiting' \cup woken' \subseteq waiting \cup woken
  BY <1>2 DEF Resume, ResumeTake, ResumeBlock
<1>3. ASSUME NEW t \in Threads, Putback(t)
      PROVE  \/ size' = size /\ waiting' \cup woken' \subseteq waiting \cup woken
             \/ size' > 0
  <2>1. PICK i \in Items : PutbackData(i)
    BY <1>0, <1>3 DEF Putback, TypeOK
  <2>2. in_use' \in Nat /\ in_use' = in_use - 1
    <3>1. [Next]_vars
      BY <1>3 DEF Next
    <3>2. in_use' \in Nat
      BY <3>1, CoreStep DEF Core, TypeOK
    <3> QED BY <2>1, <3>2 DEF PutbackData, PutbackKeep, PutbackDestroy,
                              PutbackReplace, Release
  <2>3. waiting' \cup woken' \subseteq waiting \cup woken
    BY <2>1 DEF PutbackData, PutbackKeep, PutbackDestroy, PutbackReplace,
                Release, Signal
  <2>4. CASE PutbackDestroy(i)
    <3>1. size' = size - 1
      BY <2>4 DEF PutbackDestroy
    <3>2. \/ size - in_use' > MaxSpare
          \/ ~((size - 1) - in_use' < MinSpare)
      BY <2>4 DEF PutbackDestroy, TooManySpare, TooManyRequests, TooFewSpare
    <3> QED BY <1>0, <2>2, <3>1, <3>2, ConfigAssumption DEF SpareConfigured
  <2>5. CASE PutbackKeep(i) \/ PutbackReplace(i)
    BY <2>3, <2>5 DEF PutbackKeep, PutbackReplace
  <2> QED BY <2>1, <2>4, <2>5 DEF PutbackData
<1>4. ASSUME NEW t \in Threads, SpuriousWakeup(t)
      PROVE  size' = size /\ waiting' \cup woken' \subseteq waiting \cup woken
  BY <1>4 DEF SpuriousWakeup
<1>5. CASE Destroy
  BY <1>0, <1>5 DEF Destroy, Exited, InPool, TypeOK
<1>6. CASE Terminated
  BY <1>6 DEF Terminated, vars, poolVars
<1> QED BY <1>1, <1>2, <1>3, <1>4, <1>5, <1>6 DEF Next

\* With PerlInterpMinSpare, PerlInterpMaxSpare and PerlInterpMax at least 1,
\* recycling and shrinking never leave a sleeping thread without anybody who
\* will signal it.
THEOREM WaiterNotStranded ==
    ASSUME SpareConfigured
    PROVE  Spec => []NoStrandedWaiter
<1> DEFINE Inv == Core /\ WaitDisjoint /\ NoLostWakeup /\ WaitersHaveItems
<1>1. Init => Inv
  BY CoreInit DEF Init, WaitDisjoint, NoLostWakeup, WaitersHaveItems
<1>2. Inv /\ [Next]_vars => Inv'
  <2> SUFFICES ASSUME Inv, [Next]_vars PROVE Inv'
    OBVIOUS
  <2>1. Core' /\ WaitDisjoint' /\ NoLostWakeup'
    BY CoreStep, WakeupStep
  <2>2. CASE Next
    BY <2>1, <2>2, SizeStep DEF WaitersHaveItems
  <2>3. CASE UNCHANGED vars
    BY <2>1, <2>3 DEF WaitersHaveItems, vars, poolVars
  <2> QED BY <2>2, <2>3, <2>1
<1>3. Inv => NoStrandedWaiter
  <2> SUFFICES ASSUME Inv, waiting # {}, woken = {} PROVE in_use > 0
    BY DEF NoStrandedWaiter
  <2>1. Len(idle) <= 0 /\ size > 0
    BY FS_EmptySet DEF NoLostWakeup, WaitersHaveItems
  <2>2. size = Len(idle) + in_use /\ Len(idle) \in Nat /\ in_use \in Nat
    BY IdleFacts DEF Core, TypeOK
  <2> QED BY <2>1, <2>2
<1> QED BY <1>1, <1>2, <1>3, PTL DEF Spec

\* The pool never outgrows the larger of PerlInterpMax and PerlInterpStart.
THEOREM SizeBounded == Spec => []SizeBound
<1> DEFINE Inv == Core /\ SizeBound
<1>1. Init => Inv
  BY CoreInit, ConfigAssumption DEF Init, SizeBound
<1>2. Inv /\ [Next]_vars => Inv'
  <2> SUFFICES ASSUME Inv, [Next]_vars PROVE SizeBound'
    BY CoreStep
  <2>0. size \in Nat /\ Len(idle) \in Nat
    BY IdleFacts DEF Core, TypeOK
  <2>1. size' = size \/ size' = size - 1 \/ (size < Max /\ size' = size + 1)
           \/ size' = size - Len(idle)
    BY DEF Next, Pop, PopIdle, PopGrow, PopBlock, Resume, ResumeTake,
           ResumeBlock, Putback, PutbackData, PutbackKeep, PutbackDestroy,
           PutbackReplace, SpuriousWakeup, Destroy, Terminated, vars, poolVars
  <2> QED BY <2>0, <2>1, ConfigAssumption DEF SizeBound
<1> QED BY <1>1, <1>2, PTL DEF Spec

-----------------------------------------------------------------------------
(* Interpreter selection, for every PerlInterpScope.                       *)

\* What holds for every PerlInterpScope.
SharedInv == Core /\ WaitDisjoint /\ InterpTypeOK

-----------------------------------------------------------------------------
(* Functions and sequences.                                                *)

\* One value of a function of functions is replaced.
LEMMA Update2 ==
    ASSUME NEW A, NEW B, NEW S, NEW f \in [A -> [B -> S]],
           NEW a \in A, NEW b \in B, NEW v \in S
    PROVE  /\ [f EXCEPT ![a][b] = v] \in [A -> [B -> S]]
           /\ [f EXCEPT ![a][b] = v][a] = [f[a] EXCEPT ![b] = v]
           /\ \A c \in A : c # a => [f EXCEPT ![a][b] = v][c] = f[c]
OBVIOUS

\* The type of the function, wherever it is updated.
LEMMA Update2Type ==
    ASSUME NEW A, NEW B, NEW S, NEW f \in [A -> [B -> S]],
           NEW a \in A, NEW b, NEW v, b \in B => v \in S
    PROVE  [f EXCEPT ![a][b] = v] \in [A -> [B -> S]]
<1>1. f[a] \in [B -> S]
  OBVIOUS
<1>2. [f[a] EXCEPT ![b] = v] \in [B -> S]
  BY <1>1
<1> QED BY <1>2

\* Appending to a sequence.
LEMMA AppendFacts ==
    ASSUME NEW S, NEW s \in Seq(S), NEW x \in S
    PROVE  /\ Append(s, x) \in Seq(S)
           /\ Len(s) \in Nat
           /\ Len(Append(s, x)) = Len(s) + 1
           /\ \A n \in 1..Len(s) : Append(s, x)[n] = s[n]
           /\ Append(s, x)[Len(s) + 1] = x
OBVIOUS

\* The beginning of a sequence.
LEMMA SubSeqFacts ==
    ASSUME NEW S, NEW s \in Seq(S), NEW n \in 0..Len(s)
    PROVE  /\ SubSeq(s, 1, n) \in Seq(S)
           /\ Len(SubSeq(s, 1, n)) = n
           /\ \A m \in 1..n : SubSeq(s, 1, n)[m] = s[m]
OBVIOUS

\* Leaving out the last element.
LEMMA Pop1Facts ==
    ASSUME NEW S, NEW s \in Seq(S), s # <<>>
    PROVE  /\ Pop1(s) \in Seq(S)
           /\ Len(s) \in Nat /\ Len(s) > 0
           /\ Len(Pop1(s)) = Len(s) - 1
           /\ \A n \in 1..(Len(s) - 1) : Pop1(s)[n] = s[n]
           /\ s[Len(s)] \in S
<1>1. Len(s) \in Nat /\ Len(s) > 0
  OBVIOUS
<1>2. s[Len(s)] \in S
  BY <1>1
<1>3. Len(s) - 1 \in 0..Len(s)
  BY <1>1
<1> QED BY <1>1, <1>2, <1>3, SubSeqFacts DEF Pop1

-----------------------------------------------------------------------------
(* Every PerlInterpScope: the pool stays consistent.                       *)

\* The pool a record's interpreter belongs to is one of the three.
LEMMA PoolForType ==
    ASSUME NEW q \in Records
    PROVE  PoolFor(q) \in Levels
BY DEF PoolFor, IsRequest, Records, Levels

\* What select finds is an interpreter.
LEMMA FoundType ==
    ASSUME InterpTypeOK, NEW q \in Records
    PROVE  Found(q) \in Items \cup {NULL}
<1>1. /\ q[1] \in Threads /\ q[2] \in Levels
      /\ IsRequest(q) => q[2] \in ReqLevels
  BY DEF Records, Levels, ReqLevels, IsRequest
<1>2. ud[q[1]] \in [Levels -> Items \cup {NULL}]
  BY <1>1 DEF InterpTypeOK
<1>3. rint[q[1]] \in [ReqLevels -> Items \cup {NULL}]
  BY <1>1 DEF InterpTypeOK
<1>4. PoolFor(q) \in Levels /\ "c" \in Levels
  BY PoolForType DEF Levels
<1> QED BY <1>1, <1>2, <1>3, <1>4 DEF Found

\* A step in which the thread t takes an idle interpreter.
LEMMA TakeEffect ==
    ASSUME Core, NEW t \in Threads,
           \/ PopIdle(t, 1)
           \/ PopGrow(t, 1)
           \/ ResumeTake(t, 1)
    PROVE  /\ Popped(t) \in Items /\ Popped(t) \notin busy
           /\ \A w \in Threads : Popped(t) \notin held[w]
           /\ busy' = busy \cup {Popped(t)}
           /\ held' = [held EXCEPT ![t] = @ \cup {Popped(t)}]
<1>1. PICK i \in Items \ busy : /\ busy' = busy \cup {i}
                                /\ held' = [held EXCEPT ![t] = @ \cup {i}]
  <2>1. CASE PopIdle(t, 1) \/ ResumeTake(t, 1)
    <3>1. size # in_use /\ Take(t, 1, idle, num_requests)
      BY <2>1 DEF PopIdle, ResumeTake
    <3>2. Len(idle) > 0
      BY <3>1, IdleFacts DEF Core, TypeOK
    <3>3. Head(idle) \in Items \ busy
      BY <3>2, IdleFacts, TailOfDistinct
    <3> QED BY <3>1, <3>3 DEF Take
  <2>2. CASE PopGrow(t, 1)
    <3>1. PICK new \in Items \ Alive :
             Take(t, 1, Append(idle, new), [num_requests EXCEPT ![new] = 0])
      BY <2>2 DEF PopGrow
    <3>2. idle \in Seq(Items) /\ Len(idle) = 0
      BY <2>2, IdleFacts DEF PopGrow, Core, TypeOK
    <3>3. Head(Append(idle, new)) = new
      BY <3>2
    <3> QED BY <3>1, <3>3 DEF Take, Alive
  <2> QED BY <2>1, <2>2
<1>2. \A w \in Threads : i \notin held[w]
  BY <1>1 DEF Core, ExclusiveUse
<1>3. held'[t] = held[t] \cup {i}
  BY <1>1 DEF Core, TypeOK
<1>4. Popped(t) = i
  BY <1>2, <1>3 DEF Popped
<1> QED BY <1>1, <1>2, <1>4

\* The types of what the caller of select changes.
LEMMA EnterType ==
    ASSUME InterpTypeOK, NEW t \in Threads, NEW q \in Records,
           NEW kind \in Calls, NEW base \in Seq(FrameType),
           NEW i \in Items, NEW popped \in BOOLEAN,
           Enter(t, q, kind, base, i, popped)
    PROVE  /\ stack' \in [Threads -> Seq(FrameType)]
           /\ flag' \in [Threads -> [ReqLevels -> BOOLEAN]]
           /\ nreg' \in [Threads -> [ReqLevels -> Int]]
           /\ rint' \in [Threads -> [ReqLevels -> Items \cup {NULL}]]
           /\ ran' \in [Threads -> SUBSET (Scopes \X Items)]
<1> DEFINE u == q[1]
           l == q[2]
           k == IF kind = "filter" THEN "run" ELSE kind
<1>1. u \in Threads /\ l \in Levels
  BY DEF Records
<1>2. IsRequest(q) => l \in ReqLevels
  BY <1>1 DEF IsRequest, Levels, ReqLevels
<1>3. Frame(k, q, i) \in FrameType
  BY DEF Frame, FrameType, Calls
<1>4. stack' \in [Threads -> Seq(FrameType)]
  <2>1. Append(base, Frame(k, q, i)) \in Seq(FrameType)
    BY <1>3, AppendFacts
  <2>2. stack' = [stack EXCEPT ![t] = Append(base, Frame(k, q, i))]
    BY DEF Enter
  <2> QED BY <2>1, <2>2 DEF InterpTypeOK
<1>5. flag' \in [Threads -> [ReqLevels -> BOOLEAN]]
  <2>1. CASE IsRequest(q)
    <3>1. PICK b \in BOOLEAN : flag' = [flag EXCEPT ![u][l] = b]
      BY <2>1 DEF Enter
    <3> QED BY <1>1, <1>2, <2>1, <3>1, Update2 DEF InterpTypeOK
  <2>2. CASE ~IsRequest(q)
    BY <2>2 DEF Enter, InterpTypeOK
  <2> QED BY <2>1, <2>2
<1>6. nreg' \in [Threads -> [ReqLevels -> Int]]
  <2>1. \/ nreg' = [nreg EXCEPT ![u][l] = @ + 1]
        \/ nreg' = [nreg EXCEPT ![u][l] = @ - 1]
        \/ nreg' = nreg
    BY DEF Enter
  <2>2. nreg[u] \in [ReqLevels -> Int]
    BY <1>1 DEF InterpTypeOK
  <2>3. l \in ReqLevels => nreg[u][l] + 1 \in Int /\ nreg[u][l] - 1 \in Int
    BY <2>2
  <2>4. nreg \in [Threads -> [ReqLevels -> Int]]
    BY DEF InterpTypeOK
  <2>5. ASSUME NEW v, l \in ReqLevels => v \in Int
        PROVE  [nreg EXCEPT ![u][l] = v] \in [Threads -> [ReqLevels -> Int]]
    BY <1>1, <2>4, <2>5, Update2Type, SMTT(60)
  <2>6. [nreg EXCEPT ![u][l] = nreg[u][l] + 1] \in [Threads -> [ReqLevels -> Int]]
    BY <2>3, <2>5
  <2>7. [nreg EXCEPT ![u][l] = nreg[u][l] - 1] \in [Threads -> [ReqLevels -> Int]]
    BY <2>3, <2>5
  <2> QED BY <2>1, <2>4, <2>6, <2>7
<1>7. rint' \in [Threads -> [ReqLevels -> Items \cup {NULL}]]
  <2>1. rint' = [rint EXCEPT ![u][l] = i] \/ rint' = rint
    BY DEF Enter
  <2>2. rint \in [Threads -> [ReqLevels -> Items \cup {NULL}]]
    BY DEF InterpTypeOK
  <2>3. [rint EXCEPT ![u][l] = i] \in [Threads -> [ReqLevels -> Items \cup {NULL}]]
    BY <1>1, <2>2, Update2Type
  <2> QED BY <2>1, <2>2, <2>3
<1>8. ran' \in [Threads -> SUBSET (Scopes \X Items)]
  <2>1. CASE /\ k = "run" /\ IsRequest(q)
             /\ scope[u][l] \in {"request", "connection"}
    <3>1. ran' = [ran EXCEPT ![u] = @ \cup {<<scope[u][l], i>>}]
      BY <2>1 DEF Enter
    <3>2. scope[u] \in [ReqLevels -> Scopes \cup {"none"}]
      BY <1>1 DEF InterpTypeOK
    <3>3. scope[u][l] \in Scopes
      BY <1>2, <2>1, <3>2
    <3> QED BY <1>1, <3>1, <3>3 DEF InterpTypeOK
  <2>2. CASE ~(/\ k = "run" /\ IsRequest(q)
               /\ scope[u][l] \in {"request", "connection"})
    <3>1. ran' = ran
      BY <2>2 DEF Enter
    <3> QED BY <3>1 DEF InterpTypeOK
  <2> QED BY <2>1, <2>2
<1> QED BY <1>4, <1>5, <1>6, <1>7, <1>8


\* The pool's part of the state.
Ready == quota' \in [Threads -> Nat] /\ up' \in BOOLEAN

\* A thread that waits, or does not, and what the type invariant says of it.
Blocked == \A t \in Threads : (pend[t] # NoCall) <=> InPool(t)

LEMMA BlockedFact ==
    ASSUME InterpTypeOK
    PROVE  /\ pend \in [Threads -> [k : Calls, q : Records] \cup {NoCall}]
           /\ Blocked
<1>1. pend \in [Threads -> [k : Calls, q : Records] \cup {NoCall}]
  BY DEF InterpTypeOK
<1>2. Blocked
  BY DEF InterpTypeOK, Blocked
<1> QED BY <1>1, <1>2

\* A call is not the absence of one.
LEMMA CallIsNotNoCall ==
    ASSUME NEW kind \in Calls, NEW q
    PROVE  [k |-> kind, q |-> q] # NoCall
BY DEF Calls, NoCall

\* Taking an interpreter keeps the pool consistent.
LEMMA TakePool ==
    ASSUME SharedInv, Ready, NEW t \in Threads,
           \/ PopIdle(t, 1)
           \/ PopGrow(t, 1)
           \/ ResumeTake(t, 1)
    PROVE  Core' /\ WaitDisjoint'
<1>1. Core
  BY DEF SharedInv
<1>2. CASE PopIdle(t, 1) \/ ResumeTake(t, 1)
  <2>1. /\ size # in_use /\ size' = size
        /\ Take(t, 1, idle, num_requests)
        /\ waiting' \in SUBSET Threads /\ woken' \in SUBSET Threads
    BY <1>1, <1>2 DEF PopIdle, ResumeTake, Core, TypeOK
  <2>2. Core'
    BY <1>1, <2>1, PopIdleCore DEF Ready
  <2>3. WaitDisjoint'
    BY <1>2 DEF PopIdle, ResumeTake, SharedInv, WaitDisjoint
  <2> QED BY <2>2, <2>3
<1>3. CASE PopGrow(t, 1)
  <2>1. Core'
    BY <1>1, <1>3, PopGrowCore DEF Ready
  <2>2. WaitDisjoint'
    BY <1>3 DEF PopGrow, SharedInv, WaitDisjoint
  <2> QED BY <2>1, <2>2
<1> QED BY <1>2, <1>3

\* Waiting for one does too.
LEMMA BlockPool ==
    ASSUME SharedInv, Ready, NEW t \in Threads,
           (PopBlock(t) /\ ~InPool(t)) \/ ResumeBlock(t)
    PROVE  /\ Core' /\ WaitDisjoint'
           /\ \A w \in Threads : InPool(w)' <=> (InPool(w) \/ w = t)
<1>1. Core
  BY DEF SharedInv
<1>2. /\ UNCHANGED <<idle, busy, in_use, size, num_requests, held>>
      /\ waiting' \in SUBSET Threads /\ woken' \in SUBSET Threads
  BY <1>1 DEF PopBlock, ResumeBlock, Core, TypeOK
<1>3. Core'
  BY <1>1, <1>2, BlockCore DEF Ready
<1>4. WaitDisjoint'
  BY DEF PopBlock, ResumeBlock, SharedInv, WaitDisjoint, InPool
<1>5. \A w \in Threads : InPool(w)' <=> (InPool(w) \/ w = t)
  BY DEF PopBlock, ResumeBlock, InPool
<1> QED BY <1>3, <1>4, <1>5

\* Putting an interpreter back keeps the pool consistent, whether it is busy
\* or not, and a thread that is signalled is still in modperl_tipool_pop.
LEMMA PutbackPool ==
    ASSUME SharedInv, Ready, NEW i \in Items,
           \/ PutbackKeep(i)
           \/ PutbackNotBusy(i)
           \/ PutbackDestroy(i)
           \/ PutbackReplace(i)
    PROVE  /\ Core' /\ WaitDisjoint'
           /\ \A w \in Threads : InPool(w)' <=> InPool(w)
           /\ busy' = busy \ {i}
           /\ \A w \in Threads : held'[w] = held[w] \ {i}
<1>1. Core /\ TypeOK
  BY DEF SharedInv, Core
<1>2. CASE PutbackNotBusy(i)
  <2>1. UNCHANGED poolVars /\ i \notin busy
    BY <1>2 DEF PutbackNotBusy
  <2>2. \A w \in Threads : i \notin held[w]
    BY <1>1, <2>1 DEF Core, ExclusiveUse
  <2> QED
    BY <1>1, <2>1, <2>2
    DEF poolVars, SharedInv, WaitDisjoint, InPool, Core, TypeOK, Accounting,
        ExclusiveUse, IdleItems, Ready
<1>3. CASE PutbackKeep(i) \/ PutbackDestroy(i) \/ PutbackReplace(i)
  <2>1. Core'
    BY <1>1, <1>3, PutbackKeepCore, PutbackDestroyCore, PutbackReplaceCore
    DEF Ready
  <2>2. Release(i)
    BY <1>3 DEF PutbackKeep, PutbackDestroy, PutbackReplace
  <2>3. Signal
    BY <2>2 DEF Release
  <2>4. WaitDisjoint' /\ \A w \in Threads : InPool(w)' <=> InPool(w)
    BY <2>3 DEF Signal, WaitDisjoint, SharedInv, InPool
  <2> QED BY <2>1, <2>2, <2>4 DEF Release
<1> QED BY <1>2, <1>3

\* The types of what select changes.
SelectTypes ==
    /\ Core' /\ WaitDisjoint'
    /\ request' \in [Items -> (Threads \X ReqLevels) \cup {FREED, NULL}]
    /\ putback' \in [Items -> BOOLEAN]
    /\ ud' \in [Threads -> [Levels -> Items \cup {NULL}]]
    /\ pool' \in [Threads -> [Levels -> Seq(CleanupType)]]
    /\ rint' \in [Threads -> [ReqLevels -> Items \cup {NULL}]]
    /\ flag' \in [Threads -> [ReqLevels -> BOOLEAN]]
    /\ nreg' \in [Threads -> [ReqLevels -> Int]]
    /\ stack' \in [Threads -> Seq(FrameType)]
    /\ ran' \in [Threads -> SUBSET (Scopes \X Items)]

\* Once an interpreter has been popped.
LEMMA SelectedType ==
    ASSUME SharedInv, Core', WaitDisjoint', NEW t \in Threads,
           NEW q \in Records, NEW kind \in Calls, NEW base \in Seq(FrameType),
           NEW i \in Items, Selected(t, q, kind, base, i)
    PROVE  SelectTypes
<1>1. InterpTypeOK
  BY DEF SharedInv
<1>2. q[1] \in Threads /\ q[2] \in Levels /\ PoolFor(q) \in Levels
  BY PoolForType DEF Records
<1>3. Enter(t, q, kind, base, i, TRUE)
  BY DEF Selected
<1>4. CASE HandlerScope(q)
  <2>1. /\ request' = [request EXCEPT ![i] = q]
        /\ putback' = [putback EXCEPT ![i] = TRUE]
        /\ UNCHANGED <<ud, pool>>
    BY <1>4 DEF Selected
  <2>2. q \in Threads \X ReqLevels
    BY <1>4 DEF HandlerScope, IsRequest, Records, Levels, ReqLevels
  <2>3. request' \in [Items -> (Threads \X ReqLevels) \cup {FREED, NULL}]
    BY <1>1, <2>1, <2>2 DEF InterpTypeOK
  <2>4. putback' \in [Items -> BOOLEAN]
    BY <1>1, <2>1 DEF InterpTypeOK
  <2>5. /\ ud' \in [Threads -> [Levels -> Items \cup {NULL}]]
        /\ pool' \in [Threads -> [Levels -> Seq(CleanupType)]]
    BY <1>1, <2>1 DEF InterpTypeOK
  <2> QED BY <1>1, <1>3, <2>3, <2>4, <2>5, EnterType DEF SelectTypes
<1>5. CASE ~HandlerScope(q)
  <2> DEFINE e == [k |-> "userdata", i |-> i]
  <2>1. /\ ud' = [ud EXCEPT ![q[1]][PoolFor(q)] = i]
        /\ pool' = [pool EXCEPT ![q[1]][PoolFor(q)] =
                       Append(pool[q[1]][PoolFor(q)], e)]
        /\ UNCHANGED <<request, putback>>
    BY <1>5 DEF Selected
  <2>2. Append(pool[q[1]][PoolFor(q)], e) \in Seq(CleanupType)
    <3>1. pool[q[1]] \in [Levels -> Seq(CleanupType)]
      BY <1>1, <1>2 DEF InterpTypeOK
    <3>2. pool[q[1]][PoolFor(q)] \in Seq(CleanupType)
      BY <1>2, <3>1
    <3>3. e \in CleanupType
      BY DEF CleanupType
    <3> QED BY <3>2, <3>3, AppendFacts
  <2>3. ud' \in [Threads -> [Levels -> Items \cup {NULL}]]
    <3>1. ud \in [Threads -> [Levels -> Items \cup {NULL}]]
      BY <1>1 DEF InterpTypeOK
    <3> QED BY <1>2, <2>1, <3>1, Update2Type
  <2>4. pool' \in [Threads -> [Levels -> Seq(CleanupType)]]
    <3>1. pool \in [Threads -> [Levels -> Seq(CleanupType)]]
      BY <1>1 DEF InterpTypeOK
    <3> QED BY <1>2, <2>1, <2>2, <3>1, Update2Type
  <2>5. /\ request' \in [Items -> (Threads \X ReqLevels) \cup {FREED, NULL}]
        /\ putback' \in [Items -> BOOLEAN]
    BY <1>1, <2>1 DEF InterpTypeOK
  <2> QED BY <1>1, <1>3, <2>3, <2>4, <2>5, EnterType DEF SelectTypes
<1> QED BY <1>4, <1>5

\* The whole of select.
LEMMA SelectType ==
    ASSUME SharedInv, Ready, NEW t \in Threads, NEW q \in Records,
           NEW kind \in Calls, NEW base \in Seq(FrameType),
           ~InPool(t), Select(t, q, kind, base)
    PROVE  /\ SelectTypes
           /\ pend' \in [Threads -> [k : Calls, q : Records] \cup {NoCall}]
           /\ Blocked'
<1>1. InterpTypeOK /\ Core
  BY DEF SharedInv
<1>2. /\ pend \in [Threads -> [k : Calls, q : Records] \cup {NoCall}]
      /\ Blocked
  BY <1>1, BlockedFact
<1>3. CASE /\ Found(q) # NULL
           /\ UNCHANGED <<poolVars, request, putback, ud, pool, pend>>
           /\ Enter(t, q, kind, base, Found(q), FALSE)
  <2>1. Found(q) \in Items
    BY <1>1, <1>3, FoundType
  <2>2. Core' /\ WaitDisjoint'
    BY <1>1, <1>3 DEF poolVars, SharedInv, WaitDisjoint, InPool, Core, TypeOK,
       Accounting, ExclusiveUse, IdleItems, Ready
  <2>3. Blocked'
    BY <1>2, <1>3 DEF Blocked, poolVars, InPool
  <2>4. /\ request' \in [Items -> (Threads \X ReqLevels) \cup {FREED, NULL}]
        /\ putback' \in [Items -> BOOLEAN]
        /\ ud' \in [Threads -> [Levels -> Items \cup {NULL}]]
        /\ pool' \in [Threads -> [Levels -> Seq(CleanupType)]]
    BY <1>1, <1>3 DEF InterpTypeOK
  <2>5. SelectTypes
    BY <1>1, <1>3, <2>1, <2>2, <2>4, EnterType DEF SelectTypes
  <2> QED BY <1>2, <1>3, <2>3, <2>5
<1>4. CASE /\ PopIdle(t, 1) \/ PopGrow(t, 1)
           /\ Selected(t, q, kind, base, Popped(t))
           /\ UNCHANGED pend
  <2>1. Popped(t) \in Items
    BY <1>1, <1>4, TakeEffect
  <2>2. Core' /\ WaitDisjoint'
    BY <1>4, TakePool
  <2>3. Blocked'
    BY <1>2, <1>4 DEF Blocked, InPool, PopIdle, PopGrow
  <2>4. SelectTypes
    BY <1>4, <2>1, <2>2, SelectedType
  <2> QED BY <1>2, <1>4, <2>3, <2>4
<1>5. CASE /\ PopBlock(t)
           /\ pend' = [pend EXCEPT ![t] = [k |-> kind, q |-> q]]
           /\ stack' = [stack EXCEPT ![t] = base]
           /\ UNCHANGED <<request, putback, ud, pool, rcfgVars, ran>>
  <2>1. /\ Core' /\ WaitDisjoint'
        /\ \A w \in Threads : InPool(w)' <=> (InPool(w) \/ w = t)
    BY <1>5, BlockPool
  <2>2. [k |-> kind, q |-> q] \in [k : Calls, q : Records]
    OBVIOUS
  <2>3. pend' \in [Threads -> [k : Calls, q : Records] \cup {NoCall}]
    BY <1>2, <1>5, <2>2
  <2>4. \A w \in Threads : pend'[w] # NoCall <=> (pend[w] # NoCall \/ w = t)
    <3>1. [k |-> kind, q |-> q] # NoCall
      BY CallIsNotNoCall
    <3> QED BY <1>2, <1>5, <3>1
  <2>5. Blocked'
    BY <1>2, <2>1, <2>4 DEF Blocked
  <2>6. stack' \in [Threads -> Seq(FrameType)]
    BY <1>1, <1>5 DEF InterpTypeOK
  <2>7. SelectTypes
    BY <1>1, <1>5, <2>1, <2>6 DEF SelectTypes, InterpTypeOK, rcfgVars
  <2> QED BY <2>3, <2>5, <2>7
<1> QED BY <1>3, <1>4, <1>5 DEF Select


\* The types of what modperl_interp_unselect changes, once it gives i back.
LEMMA ReclaimType ==
    ASSUME SharedInv, Ready, NEW i \in Items, Reclaim(i), UNCHANGED pend
    PROVE  /\ Core' /\ WaitDisjoint' /\ Blocked'
           /\ request' \in [Items -> (Threads \X ReqLevels) \cup {FREED, NULL}]
           /\ putback' \in [Items -> BOOLEAN]
           /\ flag' \in [Threads -> [ReqLevels -> BOOLEAN]]
<1>1. InterpTypeOK
  BY DEF SharedInv
<1>2. /\ Core' /\ WaitDisjoint'
      /\ \A w \in Threads : InPool(w)' <=> InPool(w)
  BY PutbackPool DEF Reclaim
<1>3. Blocked'
  BY <1>1, <1>2, BlockedFact DEF Blocked
<1>4. request' = request \/ request' = [request EXCEPT ![i] = NULL]
  BY DEF Reclaim
<1>5. request' \in [Items -> (Threads \X ReqLevels) \cup {FREED, NULL}]
  BY <1>1, <1>4 DEF InterpTypeOK
<1>6. putback' \in [Items -> BOOLEAN]
  BY <1>1 DEF Reclaim, InterpTypeOK
<1>7. flag' \in [Threads -> [ReqLevels -> BOOLEAN]]
  <2>1. flag' = [t \in Threads |-> [l \in ReqLevels |->
                   flag[t][l] /\ request[i] # <<t, l>>]]
    BY DEF Reclaim
  <2>2. \A t \in Threads, l \in ReqLevels :
           (flag[t][l] /\ request[i] # <<t, l>>) \in BOOLEAN
    OBVIOUS
  <2> QED BY <2>1, <2>2
<1> QED BY <1>2, <1>3, <1>5, <1>6, <1>7

\* The types of what unselect changes.
UnselectTypes ==
    /\ Core' /\ WaitDisjoint' /\ Blocked'
    /\ refcnt' \in [Items -> 0..MaxRefs]
    /\ request' \in [Items -> (Threads \X ReqLevels) \cup {FREED, NULL}]
    /\ putback' \in [Items -> BOOLEAN]
    /\ flag' \in [Threads -> [ReqLevels -> BOOLEAN]]
    /\ stack' \in [Threads -> Seq(FrameType)]

\* A thread goes on with other frames, and the interpreters are left alone.
LEMMA FramesType ==
    ASSUME SharedInv, Ready, NEW t \in Threads, NEW base \in Seq(FrameType),
           stack' = [stack EXCEPT ![t] = base],
           UNCHANGED <<poolVars, interpVars, flag, pend>>
    PROVE  UnselectTypes
<1>1. InterpTypeOK /\ Core
  BY DEF SharedInv
<1>2. Core' /\ WaitDisjoint'
  BY <1>1 DEF poolVars, SharedInv, WaitDisjoint, InPool, Core, TypeOK,
     Accounting, ExclusiveUse, IdleItems, Ready
<1>3. Blocked'
  BY <1>1, BlockedFact DEF Blocked, InPool, poolVars
<1>4. stack' \in [Threads -> Seq(FrameType)]
  BY <1>1 DEF InterpTypeOK
<1> QED
  BY <1>1, <1>2, <1>3, <1>4 DEF UnselectTypes, InterpTypeOK, interpVars

LEMMA UnselectType ==
    ASSUME SharedInv, Ready, NEW t \in Threads, NEW i \in Items,
           NEW base \in Seq(FrameType), Unselect(t, i, base), UNCHANGED pend
    PROVE  UnselectTypes
<1>1. InterpTypeOK /\ Core
  BY DEF SharedInv
<1>2. CASE /\ refcnt[i] # 0
           /\ refcnt' = [refcnt EXCEPT ![i] = @ - 1]
           /\ stack' = [stack EXCEPT ![t] = base]
           /\ UNCHANGED <<poolVars, request, putback, flag>>
  <2>0. UNCHANGED poolVars
    BY <1>2
  <2>1. Core' /\ WaitDisjoint'
    BY <1>1, <2>0 DEF poolVars, SharedInv, WaitDisjoint, InPool, Core, TypeOK,
       Accounting, ExclusiveUse, IdleItems, Ready
  <2>2. Blocked'
    BY <1>1, <2>0, BlockedFact DEF Blocked, InPool, poolVars
  <2>3. stack' \in [Threads -> Seq(FrameType)]
    BY <1>1, <1>2 DEF InterpTypeOK
  <2>4. refcnt' \in [Items -> 0..MaxRefs]
    BY <1>1, <1>2, InterpAssumption DEF InterpTypeOK
  <2> QED
    BY <1>1, <1>2, <2>1, <2>2, <2>3, <2>4 DEF UnselectTypes, InterpTypeOK
<1>3. CASE /\ request[i] \notin {NULL, FREED}
           /\ stack' = [stack EXCEPT ![t] =
                           Append(base, Frame("unsel", request[i], i))]
           /\ UNCHANGED <<poolVars, interpVars, flag>>
  <2>1. request[i] \in Records
    <3>1. request[i] \in Threads \X ReqLevels
      BY <1>1, <1>3 DEF InterpTypeOK
    <3> QED BY <3>1 DEF Records, Levels, ReqLevels
  <2>2. Frame("unsel", request[i], i) \in FrameType
    BY <2>1 DEF Frame, FrameType
  <2>3. Append(base, Frame("unsel", request[i], i)) \in Seq(FrameType)
    BY <2>2, AppendFacts
  <2> QED BY <1>3, <2>3, FramesType
<1>4. CASE /\ Reclaim(i)
           /\ stack' = [stack EXCEPT ![t] = base]
           /\ UNCHANGED refcnt
  <2>1. stack' \in [Threads -> Seq(FrameType)]
    BY <1>1, <1>4 DEF InterpTypeOK
  <2>2. refcnt' \in [Items -> 0..MaxRefs]
    BY <1>1, <1>4 DEF InterpTypeOK
  <2> QED BY <1>4, <2>1, <2>2, ReclaimType DEF UnselectTypes
<1> QED BY <1>2, <1>3, <1>4 DEF Unselect

-----------------------------------------------------------------------------

\* What is left of the type invariant is what httpd decides.
LEMMA SharedParts ==
    ASSUME SharedInv
    PROVE  /\ InterpTypeOK /\ Core /\ WaitDisjoint /\ Blocked
           /\ quota \in [Threads -> Nat] /\ up \in BOOLEAN
           /\ \A t \in Threads :
                 /\ stack[t] \in Seq(FrameType)
                 /\ \A k : TopIs(t, k) =>
                       /\ Top(t) \in FrameType /\ Top(t).k = k
                       /\ Top(t).q \in Records /\ Top(t).i \in Items
                       /\ Pop1(stack[t]) \in Seq(FrameType)
                       /\ \A n \in {"finish", "end", "reset", "flush", "putback"} :
                             /\ [Top(t) EXCEPT !.k = n] \in FrameType
                             /\ Append(Pop1(stack[t]), [Top(t) EXCEPT !.k = n])
                                   \in Seq(FrameType)
<1>1. /\ InterpTypeOK /\ Core /\ WaitDisjoint /\ Blocked
      /\ quota \in [Threads -> Nat] /\ up \in BOOLEAN
  BY BlockedFact DEF SharedInv, Core, TypeOK
<1>2. ASSUME NEW t \in Threads, NEW k, TopIs(t, k)
      PROVE  /\ Top(t) \in FrameType /\ Top(t).k = k
             /\ Pop1(stack[t]) \in Seq(FrameType)
  <2>1. stack[t] \in Seq(FrameType) /\ stack[t] # <<>>
    BY <1>1, <1>2 DEF InterpTypeOK, TopIs
  <2> QED BY <1>2, <2>1, Pop1Facts DEF Top, TopIs
<1>3. ASSUME NEW f \in FrameType
      PROVE  /\ f.q \in Records /\ f.i \in Items
             /\ \A n \in {"finish", "end", "reset", "flush", "putback"} :
                   [f EXCEPT !.k = n] \in FrameType
  BY DEF FrameType
<1>4. \A t \in Threads : stack[t] \in Seq(FrameType)
  BY <1>1 DEF InterpTypeOK
<1> QED BY <1>1, <1>2, <1>3, <1>4, AppendFacts


\* After a step that selects an interpreter.
LEMMA AfterSelect ==
    ASSUME SharedInv, Ready, NEW t \in Threads, NEW q \in Records,
           NEW kind \in Calls, NEW base \in Seq(FrameType),
           ~InPool(t), Select(t, q, kind, base),
           UNCHANGED <<refcnt, open, closing, scope>>
    PROVE  SharedInv'
<1>1. /\ SelectTypes /\ Blocked'
      /\ pend' \in [Threads -> [k : Calls, q : Records] \cup {NoCall}]
  BY SelectType
<1>2. InterpTypeOK'
  BY <1>1 DEF SharedInv, SelectTypes, InterpTypeOK, Blocked, Core
<1> QED BY <1>1, <1>2 DEF SharedInv, SelectTypes

\* After a step that releases one.
LEMMA AfterUnselect ==
    ASSUME SharedInv, UnselectTypes,
           UNCHANGED <<open, closing, scope, ud, nreg, pend, ran>>,
           pool' \in [Threads -> [Levels -> Seq(CleanupType)]],
           rint' \in [Threads -> [ReqLevels -> Items \cup {NULL}]]
    PROVE  SharedInv'
<1>1. InterpTypeOK'
  BY DEF SharedInv, UnselectTypes, InterpTypeOK, Blocked, Core
<1> QED BY <1>1 DEF SharedInv, UnselectTypes

\* The pool is as it was.
LEMMA PoolUntouched ==
    ASSUME SharedInv, Ready, UNCHANGED <<poolVars, pend>>
    PROVE  Core' /\ WaitDisjoint' /\ Blocked'
<1>1. Core /\ WaitDisjoint /\ Blocked
  BY SharedParts
<1>2. Core'
  <2>1. /\ UNCHANGED <<idle, busy, in_use, size, num_requests, held>>
        /\ waiting' \in SUBSET Threads /\ woken' \in SUBSET Threads
    BY <1>1 DEF poolVars, Core, TypeOK
  <2> QED BY <1>1, <2>1, BlockCore DEF Ready
<1>3. WaitDisjoint'
  BY <1>1 DEF poolVars, WaitDisjoint
<1>4. Blocked'
  BY <1>1 DEF poolVars, Blocked, InPool
<1> QED BY <1>2, <1>3, <1>4

\* Every step of a thread keeps the pool consistent, in any scope.
LEMMA SharedThreadStep ==
    ASSUME SharedInv, NEW t \in Threads, ThreadStep(t)
    PROVE  SharedInv'
<1>0. /\ InterpTypeOK /\ Core /\ WaitDisjoint /\ Blocked
      /\ quota \in [Threads -> Nat] /\ up \in BOOLEAN
      /\ stack[t] \in Seq(FrameType)
  BY SharedParts
<1>a. ASSUME Spend(t), up' = up PROVE Ready
  BY <1>0, <1>a DEF Spend, Ready
<1>b. ASSUME UNCHANGED <<quota, up>> PROVE Ready
  BY <1>0, <1>b DEF Ready
<1>c. /\ pool \in [Threads -> [Levels -> Seq(CleanupType)]]
      /\ rint \in [Threads -> [ReqLevels -> Items \cup {NULL}]]
  BY <1>0 DEF InterpTypeOK
<1>d. /\ open[t] \in Levels \cup {"none"}
      /\ open[t] # "none" => <<t, open[t]>> \in Records
      /\ <<t, "c">> \in Records
  BY <1>0 DEF InterpTypeOK, Records, Levels
<1>1. CASE Accept(t)
  <2>1. Core' /\ WaitDisjoint' /\ Blocked'
    BY <1>1, <1>a, PoolUntouched DEF Accept, threadVars
  <2>2. InterpTypeOK'
    BY <1>0, <1>1, <2>1
    DEF Accept, InterpTypeOK, Blocked, Core, interpVars, rcfgVars, threadVars,
        Levels
  <2> QED BY <2>1, <2>2 DEF SharedInv
<1>2. CASE OpenRequest(t)
  <2>1. Core' /\ WaitDisjoint' /\ Blocked'
    BY <1>2, <1>a, PoolUntouched DEF OpenRequest
  <2> DEFINE l == IF open[t] = "c" THEN "r" ELSE "s"
  <2>2. PICK s \in Scopes : scope' = [scope EXCEPT ![t][l] = s]
    BY <1>2 DEF OpenRequest
  <2>3. /\ open' = [open EXCEPT ![t] = l]
        /\ rint' = [rint EXCEPT ![t][l] = NULL]
        /\ flag' = [flag EXCEPT ![t][l] = FALSE]
        /\ ran' = IF l = "r" THEN [ran EXCEPT ![t] = {}] ELSE ran
    BY <1>2 DEF OpenRequest
  <2>4. l \in ReqLevels /\ l \in Levels /\ l # "none"
    BY DEF ReqLevels, Levels
  <2> HIDE DEF l
  <2>5. /\ open' \in [Threads -> Levels \cup {"none"}]
        /\ \A w \in Threads : closing[w] => open'[w] # "none"
        /\ ran' \in [Threads -> SUBSET (Scopes \X Items)]
    BY <1>0, <2>3, <2>4 DEF InterpTypeOK
  <2>6. scope' \in [Threads -> [ReqLevels -> Scopes \cup {"none"}]]
    <3>1. scope \in [Threads -> [ReqLevels -> Scopes \cup {"none"}]]
      BY <1>0 DEF InterpTypeOK
    <3> QED BY <2>2, <2>4, <3>1, Update2Type
  <2>7. rint' \in [Threads -> [ReqLevels -> Items \cup {NULL}]]
    BY <1>c, <2>3, <2>4, Update2Type
  <2>8. flag' \in [Threads -> [ReqLevels -> BOOLEAN]]
    <3>1. flag \in [Threads -> [ReqLevels -> BOOLEAN]]
      BY <1>0 DEF InterpTypeOK
    <3> QED BY <2>3, <2>4, <3>1, Update2Type
  <2>9. UNCHANGED <<refcnt, request, putback, closing, ud, pool, nreg, stack, pend>>
    BY <1>2 DEF OpenRequest, interpVars
  <2>10. InterpTypeOK'
    BY <1>0, <2>1, <2>5, <2>6, <2>7, <2>8, <2>9 DEF InterpTypeOK, Blocked, Core
  <2> QED BY <2>1, <2>10 DEF SharedInv
<1>3. CASE RunPhase(t)
  <2>1. /\ ~InPool(t) /\ Select(t, <<t, open[t]>>, "run", stack[t])
        /\ Ready /\ <<t, open[t]>> \in Records
        /\ UNCHANGED <<refcnt, open, closing, scope>>
    BY <1>3, <1>a, <1>d DEF RunPhase, InHttpd
  <2>2. "run" \in Calls
    BY DEF Calls
  <2> QED BY <1>0, <2>1, <2>2, AfterSelect
<1>4. CASE RunFilter(t)
  <2>1. PICK l \in {"c", open[t]} : Select(t, <<t, l>>, "filter", stack[t])
    BY <1>4 DEF RunFilter
  <2>2. /\ ~InPool(t) /\ Ready /\ <<t, l>> \in Records
        /\ UNCHANGED <<refcnt, open, closing, scope>>
    BY <1>4, <1>a, <1>d DEF RunFilter, InHttpd, Active, InPerl
  <2>3. "filter" \in Calls
    BY DEF Calls
  <2> QED BY <1>0, <2>1, <2>2, <2>3, AfterSelect
<1>5. CASE Response(t)
  <2>1. PICK k \in Responses : Select(t, <<t, open[t]>>, k, stack[t])
    BY <1>5 DEF Response
  <2>2. /\ ~InPool(t) /\ Ready /\ <<t, open[t]>> \in Records
        /\ UNCHANGED <<refcnt, open, closing, scope>>
    BY <1>5, <1>a, <1>d DEF Response, InHttpd, ReqLevels
  <2>3. k \in Calls
    BY InterpAssumption DEF Calls
  <2> QED BY <1>0, <2>1, <2>2, <2>3, AfterSelect
<1>6. CASE ResponseRun(t)
  <2> DEFINE f == Top(t)
             next == IF f.k = "modperl" THEN "finish" ELSE "end"
             base == Append(Pop1(stack[t]), [f EXCEPT !.k = next])
  <2>1. base \in Seq(FrameType) /\ f.q \in Records
    BY <1>6, SharedParts DEF ResponseRun
  <2>2. ~InPool(t) /\ UNCHANGED <<quota, up, refcnt, open, closing, scope>>
    BY <1>6 DEF ResponseRun
  <2>3. Ready
    BY <1>b, <2>2
  <2>4. \/ Select(t, f.q, "run", base)
        \/ /\ stack' = [stack EXCEPT ![t] = base]
           /\ UNCHANGED <<poolVars, request, putback, ud, pool, rcfgVars, pend,
                          ran>>
    BY <1>6 DEF ResponseRun
  <2> HIDE DEF f, base
  <2>5. CASE Select(t, f.q, "run", base)
    <3>1. "run" \in Calls
      BY DEF Calls
    <3> QED BY <1>0, <2>1, <2>2, <2>3, <2>5, <3>1, AfterSelect
  <2>6. CASE /\ stack' = [stack EXCEPT ![t] = base]
             /\ UNCHANGED <<poolVars, request, putback, ud, pool, rcfgVars,
                            pend, ran>>
    <3>1. UnselectTypes
      BY <2>1, <2>2, <2>3, <2>6, FramesType DEF interpVars, rcfgVars
    <3> QED BY <1>c, <2>2, <2>6, <3>1, AfterUnselect DEF rcfgVars
  <2> QED BY <2>4, <2>5, <2>6
<1>7. CASE ResponseFinish(t)
  <2> DEFINE f == Top(t)
  <2>1. /\ Pop1(stack[t]) \in Seq(FrameType)
        /\ f.i \in Items /\ f.q[1] \in Threads
    BY <1>7, SharedParts DEF ResponseFinish, Records
  <2>2. Ready /\ UNCHANGED <<poolsVars, nreg, pend, ran>>
    BY <1>7, <1>b DEF ResponseFinish
  <2>3. CASE /\ rint' = [rint EXCEPT ![f.q[1]][f.q[2]] = NULL]
             /\ Unselect(t, f.i, Pop1(stack[t]))
    <3>1. UnselectTypes
      BY <2>1, <2>2, <2>3, UnselectType
    <3>2. rint' \in [Threads -> [ReqLevels -> Items \cup {NULL}]]
      BY <1>c, <2>1, <2>3, Update2Type
    <3> QED BY <1>c, <2>2, <3>1, <3>2, AfterUnselect DEF poolsVars
  <2>4. CASE /\ stack' = [stack EXCEPT ![t] = Pop1(@)]
             /\ UNCHANGED <<poolVars, interpVars, rint, flag>>
    <3>1. UnselectTypes
      BY <2>1, <2>2, <2>4, FramesType
    <3> QED BY <1>c, <2>2, <2>4, <3>1, AfterUnselect DEF poolsVars
  <2> QED BY <1>7, <2>3, <2>4 DEF ResponseFinish
<1>8. CASE CgiPutback(t)
  <2> DEFINE f == Top(t)
             base(n) == Append(Pop1(stack[t]), [f EXCEPT !.k = n])
  <2>1. /\ base("reset") \in Seq(FrameType) /\ base("flush") \in Seq(FrameType)
        /\ f.i \in Items
    BY <1>8, SharedParts DEF CgiPutback
  <2>2. Ready /\ UNCHANGED <<poolsVars, rint, nreg, pend, ran>>
    BY <1>8, <1>b DEF CgiPutback
  <2>3. CASE Unselect(t, f.i, base("reset"))
    <3>1. UnselectTypes
      BY <2>1, <2>2, <2>3, UnselectType
    <3> QED BY <1>c, <2>2, <3>1, AfterUnselect DEF poolsVars
  <2>4. CASE /\ stack' = [stack EXCEPT ![t] = base("flush")]
             /\ UNCHANGED <<poolVars, interpVars, flag>>
    <3>1. UnselectTypes
      BY <2>1, <2>2, <2>4, FramesType
    <3> QED BY <1>c, <2>2, <3>1, AfterUnselect DEF poolsVars
  <2> QED BY <1>8, <2>3, <2>4 DEF CgiPutback
<1>9. CASE CgiFinish(t)
  <2> DEFINE f == Top(t)
             base == Append(Pop1(stack[t]), [f EXCEPT !.k = "flush"])
  <2>1. /\ base \in Seq(FrameType) /\ Pop1(stack[t]) \in Seq(FrameType)
        /\ f.q[1] \in Threads
    BY <1>9, SharedParts DEF CgiFinish, Records
  <2>2. /\ Ready /\ UNCHANGED <<poolsVars, nreg, pend, ran>>
        /\ UNCHANGED <<poolVars, interpVars, flag>>
    BY <1>9, <1>b DEF CgiFinish, vars
  <2>3. CASE /\ rint' = [rint EXCEPT ![f.q[1]][f.q[2]] = NULL]
             /\ stack' = [stack EXCEPT ![t] = base]
    <3>1. UnselectTypes
      BY <2>1, <2>2, <2>3, FramesType
    <3>2. rint' \in [Threads -> [ReqLevels -> Items \cup {NULL}]]
      BY <1>c, <2>1, <2>3, Update2Type
    <3> QED BY <1>c, <2>2, <3>1, <3>2, AfterUnselect DEF poolsVars
  <2>4. CASE stack' = [stack EXCEPT ![t] = Pop1(@)] /\ UNCHANGED rint
    <3>1. UnselectTypes
      BY <2>1, <2>2, <2>4, FramesType
    <3> QED BY <1>c, <2>2, <2>4, <3>1, AfterUnselect DEF poolsVars
  <2> QED BY <1>9, <2>3, <2>4 DEF CgiFinish
<1>10. CASE Return(t)
  <2>1. Pop1(stack[t]) \in Seq(FrameType) /\ Top(t).i \in Items
    BY <1>10, SharedParts DEF Return, InPerl
  <2>2. Ready /\ UNCHANGED <<poolsVars, rint, nreg, pend, ran>>
    BY <1>10, <1>b DEF Return
  <2>3. UnselectTypes
    BY <1>10, <2>1, <2>2, UnselectType, FramesType DEF Return
  <2> QED BY <1>c, <2>2, <2>3, AfterUnselect DEF poolsVars
<1>11. CASE RegisterCleanup(t)
  <2> DEFINE i == Top(t).i
  <2>1. i \in Items
    BY <1>11, SharedParts DEF RegisterCleanup, Active, InPerl
  <2>2. Core' /\ WaitDisjoint' /\ Blocked'
    BY <1>11, <1>a, PoolUntouched DEF RegisterCleanup, threadVars
  <2>3. PICK l \in Levels :
           pool' = [pool EXCEPT ![t][l] = Append(pool[t][l], [k |-> "perl", i |-> i])]
    BY <1>11 DEF RegisterCleanup
  <2>4. pool' \in [Threads -> [Levels -> Seq(CleanupType)]]
    <3>1. [k |-> "perl", i |-> i] \in CleanupType
      BY <2>1 DEF CleanupType
    <3>2. pool[t][l] \in Seq(CleanupType)
      BY <1>c
    <3>3. Append(pool[t][l], [k |-> "perl", i |-> i]) \in Seq(CleanupType)
      BY <3>1, <3>2, AppendFacts
    <3> QED BY <1>c, <2>3, <3>3, Update2Type
  <2>5. refcnt' \in [Items -> 0..MaxRefs]
    <3>1. refcnt[i] < MaxRefs /\ refcnt' = [refcnt EXCEPT ![i] = @ + 1]
      BY <1>11 DEF RegisterCleanup
    <3> QED BY <1>0, <2>1, <3>1, InterpAssumption DEF InterpTypeOK
  <2>6. UNCHANGED <<request, putback, open, closing, scope, ud, rint, flag, nreg,
                    stack, pend, ran>>
    BY <1>11 DEF RegisterCleanup, rcfgVars, threadVars
  <2>7. InterpTypeOK'
    BY <1>0, <2>2, <2>4, <2>5, <2>6 DEF InterpTypeOK, Blocked, Core
  <2> QED BY <2>2, <2>7 DEF SharedInv
<1>12. CASE ResumeSelect(t)
  <2>1. t \in woken
    BY <1>12 DEF ResumeSelect, ResumeTake
  <2>2. pend[t] # NoCall
    BY <1>0, <2>1 DEF Blocked, InPool
  <2>3. pend[t] \in [k : Calls, q : Records]
    BY <1>0, <2>2, BlockedFact
  <2>4. pend[t].k \in Calls /\ pend[t].q \in Records
    BY <2>3
  <2>5. ResumeTake(t, 1) /\ Ready
    BY <1>12, <1>b DEF ResumeSelect
  <2>6. Popped(t) \in Items
    BY <1>0, <2>5, TakeEffect
  <2>7. Core' /\ WaitDisjoint'
    BY <2>5, TakePool
  <2>8. SelectTypes
    BY <1>0, <1>12, <2>4, <2>6, <2>7, SelectedType DEF ResumeSelect
  <2>9. pend' = [pend EXCEPT ![t] = NoCall]
    BY <1>12 DEF ResumeSelect
  <2>10. pend' \in [Threads -> [k : Calls, q : Records] \cup {NoCall}]
    BY <1>0, <2>9, BlockedFact
  <2>11. Blocked'
    <3>1. \A w \in Threads : InPool(w)' <=> (InPool(w) /\ w # t)
      BY <1>0, <2>5 DEF ResumeTake, InPool, WaitDisjoint
    <3>2. \A w \in Threads : pend'[w] # NoCall <=> (pend[w] # NoCall /\ w # t)
      BY <1>0, <2>9, BlockedFact
    <3> QED BY <1>0, <3>1, <3>2 DEF Blocked
  <2>12. UNCHANGED <<refcnt, open, closing, scope>>
    BY <1>12 DEF ResumeSelect
  <2>13. InterpTypeOK'
    BY <1>0, <2>8, <2>10, <2>11, <2>12 DEF SelectTypes, InterpTypeOK, Blocked, Core
  <2> QED BY <2>7, <2>13 DEF SharedInv
<1>13. CASE ResumeWait(t)
  <2>1. Ready /\ ResumeBlock(t)
    BY <1>13, <1>b DEF ResumeWait
  <2>2. /\ Core' /\ WaitDisjoint'
        /\ \A w \in Threads : InPool(w)' <=> (InPool(w) \/ w = t)
    BY <2>1, BlockPool
  <2>3. InPool(t)
    BY <2>1 DEF ResumeBlock, InPool
  <2>4. Blocked'
    BY <1>0, <1>13, <2>2, <2>3 DEF Blocked, ResumeWait, threadVars
  <2>5. InterpTypeOK'
    BY <1>0, <1>13, <2>2, <2>4
    DEF ResumeWait, InterpTypeOK, Blocked, Core, interpVars, poolsVars,
        rcfgVars, threadVars
  <2> QED BY <2>2, <2>5 DEF SharedInv
<1>14. CASE CloseBegin(t)
  <2>1. Core' /\ WaitDisjoint' /\ Blocked'
    BY <1>14, <1>b, PoolUntouched DEF CloseBegin, threadVars, vars
  <2>2. InterpTypeOK'
    BY <1>0, <1>14, <2>1
    DEF CloseBegin, InterpTypeOK, Blocked, Core, interpVars, rcfgVars,
        threadVars, Levels
  <2> QED BY <2>1, <2>2 DEF SharedInv
<1>15. CASE RequestCleanup(t)
  <2>1. /\ ~InPool(t) /\ Select(t, <<t, open[t]>>, "clean", stack[t])
        /\ Ready /\ <<t, open[t]>> \in Records
        /\ UNCHANGED <<refcnt, open, closing, scope>>
    BY <1>15, <1>b, <1>d DEF RequestCleanup, InHttpd, ReqLevels
  <2>2. "clean" \in Calls
    BY DEF Calls
  <2> QED BY <1>0, <2>1, <2>2, AfterSelect
<1>16. CASE RunCleanupHandlers(t)
  <2> DEFINE f == Top(t)
             base == IF f.k = "clean" THEN Pop1(stack[t])
                     ELSE Append(Pop1(stack[t]), [f EXCEPT !.k = "putback"])
  <2>1. base \in Seq(FrameType) /\ f.q \in Records
    BY <1>16, SharedParts DEF RunCleanupHandlers
  <2>2. ~InPool(t) /\ UNCHANGED <<quota, up, refcnt, open, closing, scope>>
    BY <1>16 DEF RunCleanupHandlers
  <2>3. Ready
    BY <1>b, <2>2
  <2>4. \/ Select(t, f.q, "run", base)
        \/ /\ stack' = [stack EXCEPT ![t] = base]
           /\ UNCHANGED <<poolVars, request, putback, ud, pool, rcfgVars, pend,
                          ran>>
    BY <1>16 DEF RunCleanupHandlers
  <2> HIDE DEF f, base
  <2>5. CASE Select(t, f.q, "run", base)
    <3>1. "run" \in Calls
      BY DEF Calls
    <3> QED BY <1>0, <2>1, <2>2, <2>3, <2>5, <3>1, AfterSelect
  <2>6. CASE /\ stack' = [stack EXCEPT ![t] = base]
             /\ UNCHANGED <<poolVars, request, putback, ud, pool, rcfgVars,
                            pend, ran>>
    <3>1. UnselectTypes
      BY <2>1, <2>2, <2>3, <2>6, FramesType DEF interpVars, rcfgVars
    <3> QED BY <1>c, <2>2, <2>6, <3>1, AfterUnselect DEF rcfgVars
  <2> QED BY <2>4, <2>5, <2>6
<1>17. CASE UnselectFinish(t)
  <2>1. Pop1(stack[t]) \in Seq(FrameType) /\ Top(t).i \in Items
    BY <1>17, SharedParts DEF UnselectFinish
  <2>2. Ready /\ UNCHANGED <<refcnt, poolsVars, rint, nreg, pend, ran>>
    BY <1>17, <1>b DEF UnselectFinish
  <2>3. Reclaim(Top(t).i)
    BY <1>17 DEF UnselectFinish
  <2>4. stack' \in [Threads -> Seq(FrameType)]
    BY <1>0, <1>17, <2>1 DEF UnselectFinish, InterpTypeOK
  <2>5. refcnt' \in [Items -> 0..MaxRefs]
    BY <1>0, <2>2 DEF InterpTypeOK
  <2>6. UnselectTypes
    BY <2>1, <2>2, <2>3, <2>4, <2>5, ReclaimType DEF UnselectTypes
  <2> QED BY <1>c, <2>2, <2>6, AfterUnselect DEF poolsVars
<1>18. CASE PoolCleanup(t)
  <2> DEFINE l == open[t]
             cleanups == pool[t][l]
             last == cleanups[Len(cleanups)]
  <2>1. l \in Levels
    BY <1>0, <1>18, <1>d DEF PoolCleanup, InterpTypeOK
  <2>2. cleanups \in Seq(CleanupType) /\ cleanups # <<>>
    BY <1>18, <1>c, <2>1 DEF PoolCleanup
  <2> HIDE DEF cleanups
  <2>3. last \in CleanupType /\ Pop1(cleanups) \in Seq(CleanupType)
    BY <2>2, Pop1Facts
  <2>4. last.i \in Items
    BY <2>3 DEF CleanupType
  <2>5. pool' = [pool EXCEPT ![t][l] = Pop1(cleanups)]
    BY <1>18 DEF PoolCleanup, cleanups
  <2>6. pool' \in [Threads -> [Levels -> Seq(CleanupType)]]
    BY <1>c, <2>3, <2>5, Update2Type
  <2>7. Ready /\ UNCHANGED <<open, closing, scope, ud, rint, nreg, pend, ran>>
    BY <1>18, <1>b DEF PoolCleanup
  <2>8. \/ Unselect(t, last.i, stack[t])
        \/ /\ stack' = [stack EXCEPT ![t] =
                           Append(stack[t], Frame("cb", <<t, l>>, last.i))]
           /\ UNCHANGED <<poolVars, interpVars, flag>>
    BY <1>18 DEF PoolCleanup, cleanups
  <2>9. CASE Unselect(t, last.i, stack[t])
    <3>1. UnselectTypes
      BY <1>0, <2>4, <2>7, <2>9, UnselectType
    <3> QED BY <1>c, <2>6, <2>7, <3>1, AfterUnselect
  <2>10. CASE /\ stack' = [stack EXCEPT ![t] =
                           Append(stack[t], Frame("cb", <<t, l>>, last.i))]
              /\ UNCHANGED <<poolVars, interpVars, flag>>
    <3>1. Frame("cb", <<t, l>>, last.i) \in FrameType
      BY <2>1, <2>4 DEF Frame, FrameType, Records
    <3>2. Append(stack[t], Frame("cb", <<t, l>>, last.i)) \in Seq(FrameType)
      BY <1>0, <3>1, AppendFacts
    <3>3. UnselectTypes
      BY <2>7, <2>10, <3>2, FramesType
    <3> QED BY <1>c, <2>6, <2>7, <3>3, AfterUnselect
  <2> QED BY <2>8, <2>9, <2>10
<1>19. CASE CallbackReturn(t)
  <2>1. Pop1(stack[t]) \in Seq(FrameType) /\ Top(t).i \in Items
    BY <1>19, SharedParts DEF CallbackReturn
  <2>2. Ready /\ UNCHANGED <<poolsVars, rint, nreg, pend, ran>>
    BY <1>19, <1>b DEF CallbackReturn
  <2>3. UnselectTypes
    BY <1>19, <2>1, <2>2, UnselectType DEF CallbackReturn
  <2> QED BY <1>c, <2>2, <2>3, AfterUnselect DEF poolsVars
<1>20. CASE CloseEnd(t)
  <2>1. Core' /\ WaitDisjoint' /\ Blocked'
    BY <1>20, <1>b, PoolUntouched DEF CloseEnd, vars
  <2>2. open[t] \in Levels
    BY <1>0, <1>20, <1>d DEF CloseEnd, InterpTypeOK
  <2>3. ud' \in [Threads -> [Levels -> Items \cup {NULL}]]
    <3>1. ud \in [Threads -> [Levels -> Items \cup {NULL}]]
      BY <1>0 DEF InterpTypeOK
    <3>2. ud' = [ud EXCEPT ![t][open[t]] = NULL]
      BY <1>20 DEF CloseEnd
    <3> QED BY <2>2, <3>1, <3>2, Update2Type
  <2>4. request' \in [Items -> (Threads \X ReqLevels) \cup {FREED, NULL}]
    <3>1. request' = [i \in Items |->
                      IF request[i] = <<t, open[t]>> THEN FREED ELSE request[i]]
      BY <1>20 DEF CloseEnd
    <3>2. \A i \in Items : request[i] \in (Threads \X ReqLevels) \cup {FREED, NULL}
      BY <1>0 DEF InterpTypeOK
    <3> QED BY <3>1, <3>2
  <2>5. open' \in [Threads -> Levels \cup {"none"}]
    BY <1>0, <1>20, <2>2 DEF CloseEnd, InterpTypeOK, Levels
  <2>6. /\ closing' \in [Threads -> BOOLEAN]
        /\ \A w \in Threads : closing'[w] => w # t /\ closing[w]
        /\ \A w \in Threads : w # t => open'[w] = open[w]
    BY <1>0, <1>20 DEF CloseEnd, InterpTypeOK
  <2>7. ran' \in [Threads -> SUBSET (Scopes \X Items)]
    BY <1>0, <1>20 DEF CloseEnd, InterpTypeOK
  <2>8. UNCHANGED <<refcnt, putback, scope, pool, rint, flag, nreg, stack, pend>>
    BY <1>20 DEF CloseEnd, rcfgVars
  <2>9. \A w \in Threads : closing'[w] => open'[w] # "none"
    BY <1>0, <2>6 DEF InterpTypeOK
  <2>10. InterpTypeOK'
    BY <1>0, <2>1, <2>3, <2>4, <2>5, <2>6, <2>7, <2>8, <2>9
    DEF InterpTypeOK, Blocked, Core
  <2> QED BY <2>1, <2>10 DEF SharedInv
<1> QED
  BY <1>1, <1>2, <1>3, <1>4, <1>5, <1>6, <1>7, <1>8, <1>9, <1>10, <1>11, <1>12,
     <1>13, <1>14, <1>15, <1>16, <1>17, <1>18, <1>19, <1>20 DEF ThreadStep

\* And so does every step.
LEMMA SharedStep ==
    ASSUME SharedInv, [InterpNext]_ivars
    PROVE  SharedInv'
<1>0. InterpTypeOK /\ Core /\ WaitDisjoint /\ Blocked
  BY SharedParts
<1>1. CASE \E t \in Threads : ThreadStep(t)
  BY <1>1, SharedThreadStep
<1>2. CASE Shutdown
  <2>1. Core'
    <3>1. [Next]_vars
      BY <1>2 DEF Shutdown, Next
    <3> QED BY <1>0, <3>1, CoreStep
  <2>2. WaitDisjoint' /\ Blocked'
    BY <1>0, <1>2 DEF Shutdown, Destroy, WaitDisjoint, Blocked, InPool, threadVars
  <2>3. InterpTypeOK'
    BY <1>0, <1>2, <2>1, <2>2
    DEF Shutdown, InterpTypeOK, Blocked, Core, interpVars, poolsVars, rcfgVars,
        threadVars
  <2> QED BY <2>1, <2>2, <2>3 DEF SharedInv
<1>3. CASE UNCHANGED ivars
  <2>1. UNCHANGED <<poolVars, pend>> /\ UNCHANGED <<quota, up>>
    BY <1>3 DEF ivars, vars, threadVars
  <2>2. Ready
    BY <2>1, SharedParts DEF Ready
  <2>3. Core' /\ WaitDisjoint' /\ Blocked'
    BY <2>1, <2>2, PoolUntouched
  <2>4. InterpTypeOK'
    BY <1>0, <1>3, <2>3
    DEF ivars, InterpTypeOK, Blocked, Core, interpVars, poolsVars, rcfgVars,
        threadVars
  <2> QED BY <2>3, <2>4 DEF SharedInv
<1> QED BY <1>1, <1>2, <1>3 DEF InterpNext, Finished

\* A process starts with no connection.
LEMMA SharedInit ==
    ASSUME InterpInit
    PROVE  SharedInv
<1>1. Core
  BY CoreInit DEF InterpInit
<1>2. WaitDisjoint
  BY DEF InterpInit, Init, WaitDisjoint
<1>3. \A t \in Threads : (pend[t] # NoCall) <=> InPool(t)
  BY DEF InterpInit, Init, InPool
<1>4. /\ refcnt \in [Items -> 0..MaxRefs]
      /\ request \in [Items -> (Threads \X ReqLevels) \cup {FREED, NULL}]
      /\ putback \in [Items -> BOOLEAN]
  BY InterpAssumption DEF InterpInit
<1>5. /\ open \in [Threads -> Levels \cup {"none"}]
      /\ closing \in [Threads -> BOOLEAN]
      /\ \A t \in Threads : closing[t] => open[t] # "none"
      /\ scope \in [Threads -> [ReqLevels -> Scopes \cup {"none"}]]
      /\ ud \in [Threads -> [Levels -> Items \cup {NULL}]]
      /\ pool \in [Threads -> [Levels -> Seq(CleanupType)]]
  BY DEF InterpInit
<1>6. /\ rint \in [Threads -> [ReqLevels -> Items \cup {NULL}]]
      /\ flag \in [Threads -> [ReqLevels -> BOOLEAN]]
      /\ nreg \in [Threads -> [ReqLevels -> Int]]
      /\ stack \in [Threads -> Seq(FrameType)]
      /\ pend \in [Threads -> [k : Calls, q : Records] \cup {NoCall}]
      /\ ran \in [Threads -> SUBSET (Scopes \X Items)]
  BY DEF InterpInit
<1>7. InterpTypeOK
  BY <1>1, <1>3, <1>4, <1>5, <1>6 DEF InterpTypeOK, Core
<1> QED BY <1>1, <1>2, <1>7 DEF SharedInv

\* In every PerlInterpScope, whoever calls modperl_interp_unselect and however
\* often, the lists and counters of the interpreter pool agree, and an
\* interpreter that was popped belongs to one thread until it is put back.
THEOREM InterpPoolIntegrity ==
    InterpSpec => [](InterpTypeOK /\ Accounting /\ ExclusiveUse)
<1>1. InterpInit => SharedInv
  BY SharedInit
<1>2. SharedInv /\ [InterpNext]_ivars => SharedInv'
  BY SharedStep
<1>3. SharedInv => InterpTypeOK /\ Accounting /\ ExclusiveUse
  BY DEF SharedInv, Core
<1> QED BY <1>1, <1>2, <1>3, PTL DEF InterpSpec

-----------------------------------------------------------------------------
(* The invariant without handler scope, about the state of one thread t:   *)
(* its innermost open pool o, the userdata u and the cleanups p of its     *)
(* pools, its stack st, and so on.                                         *)

\* The pools that are open when the innermost one is o.
Opened(o) ==
    CASE o = "c" -> {"c"}
      [] o = "r" -> {"c", "r"}
      [] o = "s" -> {"c", "r", "s"}
      [] OTHER -> {}

\* i is stashed in the pool of level l, and will be released by its cleanup.
Stashed(u, p, l, i) ==
    /\ u[l] = i
    /\ \E n \in 1..Len(p[l]) : p[l][n] = [k |-> "userdata", i |-> i]

\* The pool's userdata is stale: the cleanup that goes with it has been run.
Drained(u, p, l) == u[l] # NULL /\ ~Stashed(u, p, l, u[l])

\* A frame of thread t belongs to an open record, and the interpreter it uses
\* is stashed in the pool of that record or in one around it.
FrameOK(t, o, u, p, f) ==
    /\ f.q[1] = t
    /\ f.q[2] \in Opened(o)
    /\ f.k \notin {"unsel", "putback"}
    /\ f.k # "cb" => \E l \in Opened(f.q[2]) : Stashed(u, p, l, f.i)

\* The frames of a subrequest are on top of those of its main request.
Nested(o, st) ==
    o = "s" => \A n, m \in 1..Len(st) :
                  n < m /\ st[n].q[2] = "s" => st[m].q[2] # "r"

FramesOK(t, o, u, p, st) ==
    /\ \A n \in 1..Len(st) : FrameOK(t, o, u, p, st[n])
    /\ Nested(o, st)

\* The first n frames are those of the code that called httpd to destroy the
\* pool.
Suspended(o, st, n) ==
    n = 0 \/ (o = "s" /\ st[n].k = "run" /\ st[n].q[2] = "r")

\* The pool o is being destroyed and its own cleanups run: nothing selects an
\* interpreter any more.
Quiet(o, cl, st, pe, nr) ==
    /\ pe = NoCall /\ cl
    /\ o \in Levels
    /\ o \in ReqLevels => nr[o] = 0
    /\ \/ Suspended(o, st, Len(st))
       \/ /\ Len(st) > 0 /\ st[Len(st)].k = "cb"
          /\ Suspended(o, st, Len(st) - 1)

\* Only then is there stale userdata, and a callback only on top.
CallbacksOK(o, u, p, st) ==
    /\ \A n \in 1..Len(st) : st[n].k = "cb" => n = Len(st)
    /\ \A l \in Levels : Drained(u, p, l) => l = o
Settled(u, p, st) ==
    /\ \A n \in 1..Len(st) : st[n].k # "cb"
    /\ \A l \in Levels : ~Drained(u, p, l)

\* A pool that is not open is empty.
PoolsOK(o, u, p) ==
    \A l \in Levels \ Opened(o) : p[l] = <<>> /\ u[l] = NULL

\* The pool that PoolFor chooses for a record of level l.
StashPool(sc, l) ==
    IF l = "c" \/ sc[l] = "connection" THEN "c"
    ELSE IF l = "s" /\ sc["s"] = "request" THEN "r"
    ELSE l

\* q is an open record of thread t whose code may run on top of st.
CalledFor(t, o, st, q) ==
    /\ q[1] = t
    /\ q[2] \in Opened(o)
    /\ (o = "s" /\ q[2] = "r") => \A n \in 1..Len(st) : st[n].q[2] # "s"

\* A blocked call is for an open record that had no interpreter.
PendOK(t, o, sc, u, st, pe) ==
    pe # NoCall => /\ CalledFor(t, o, st, pe.q)
                   /\ u[StashPool(sc, pe.q[2])] = NULL /\ u["c"] = NULL

\* What request scope and connection scope use.
RanOK(o, u, ra) ==
    \A x \in ra :
        /\ o \in ReqLevels
        /\ x[1] \in {"request", "connection"}
        /\ x[2] = IF x[1] = "request" /\ u["r"] # NULL THEN u["r"] ELSE u["c"]

\* The cleanups that will release i, and the callbacks that are about to.
Entries(p, i) ==
    {e \in Levels \X Nat : e[2] \in 1..Len(p[e[1]]) /\ p[e[1]][e[2]].i = i}
Callbacks(st, i) == {n \in 1..Len(st) : st[n].k = "cb" /\ st[n].i = i}

\* The references to the interpreters that the thread holds are counted.
Counted(p, st, h, rc) ==
    \A i \in Items :
        /\ IsFiniteSet(Entries(p, i)) /\ IsFiniteSet(Callbacks(st, i))
        /\ Cardinality(Entries(p, i)) + Cardinality(Callbacks(st, i)) =
              IF i \in h THEN rc[i] + 1 ELSE 0

\* All of the above.
OwnInv(t, o, cl, sc, u, p, st, pe, nr, ra, h, rc) ==
    /\ FramesOK(t, o, u, p, st)
    /\ \/ Settled(u, p, st)
       \/ Quiet(o, cl, st, pe, nr) /\ CallbacksOK(o, u, p, st)
    /\ PoolsOK(o, u, p)
    /\ PendOK(t, o, sc, u, st, pe)
    /\ RanOK(o, u, ra)
    /\ Counted(p, st, h, rc)

ThreadInv(t) ==
    OwnInv(t, open[t], closing[t], scope[t], ud[t], pool[t], stack[t], pend[t],
           nreg[t], ran[t], held[t], refcnt)

\* Nothing is ever marked to be put back by the code that selected it.
NoPutback ==
    /\ \A i \in Items : request[i] = NULL /\ ~putback[i]
    /\ \A i \in Items : i \notin busy => refcnt[i] = 0
    /\ \A t \in Threads, l \in ReqLevels : rint[t][l] = NULL

StashInv == SharedInv /\ NoPutback /\ \A t \in Threads : ThreadInv(t)


-----------------------------------------------------------------------------
(* Facts about one thread's state.                                         *)

\* The types of a thread's state.
OwnType(o, sc, u, p, st, ra, h, rc) ==
    /\ o \in Levels \cup {"none"}
    /\ sc \in [ReqLevels -> Scopes \cup {"none"}]
    /\ u \in [Levels -> Items \cup {NULL}]
    /\ p \in [Levels -> Seq(CleanupType)]
    /\ st \in Seq(FrameType)
    /\ ra \in SUBSET (Scopes \X Items)
    /\ h \in SUBSET Items
    /\ rc \in [Items -> Nat]

\* The open pools are nested.
LEMMA OpenedFacts ==
    /\ Opened("none") = {} /\ Opened("c") = {"c"}
    /\ Opened("r") = {"c", "r"} /\ Opened("s") = {"c", "r", "s"}
    /\ \A o : Opened(o) \subseteq Levels
    /\ \A l \in Levels : l \in Opened(l) /\ "c" \in Opened(l)
    /\ \A o \in Levels \cup {"none"} : \A l \in Opened(o) : Opened(l) \subseteq Opened(o)
    /\ \A o \in Levels \cup {"none"} : o # "s" => "s" \notin Opened(o)
    /\ \A o \in Levels \cup {"none"} : "r" \in Opened(o) => o \in ReqLevels
    /\ \A o \in Levels \cup {"none"} : "s" \in Opened(o) => o \in ReqLevels
BY DEF Opened, Levels, ReqLevels

\* The pool chosen for a record is open when the record is.
LEMMA StashPoolFacts ==
    ASSUME NEW sc, NEW l \in Levels
    PROVE  /\ StashPool(sc, l) \in Opened(l)
           /\ StashPool(sc, l) \in Levels
           /\ (l # "c" /\ sc[l] = "connection") => StashPool(sc, l) = "c"
           /\ (l # "c" /\ sc[l] = "request") => StashPool(sc, l) = "r"
BY DEF StashPool, Opened, Levels

LEMMA PoolForIs ==
    ASSUME NEW q \in Records
    PROVE  PoolFor(q) = StashPool(scope[q[1]], q[2])
BY DEF PoolFor, StashPool, IsRequest, Records, Levels

\* What is stashed keeps being stashed, so the frames keep what they have.
LEMMA StashMono ==
    ASSUME NEW t, NEW o \in Levels \cup {"none"}, NEW u, NEW p, NEW v, NEW w,
           NEW st \in Seq(FrameType),
           \A l \in Levels, i \in Items : Stashed(u, p, l, i) => Stashed(v, w, l, i),
           FramesOK(t, o, u, p, st)
    PROVE  FramesOK(t, o, v, w, st)
<1>1. ASSUME NEW n \in 1..Len(st)
      PROVE  FrameOK(t, o, v, w, st[n])
  <2>1. FrameOK(t, o, u, p, st[n])
    BY DEF FramesOK
  <2>2. st[n] \in FrameType
    OBVIOUS
  <2>3. st[n].i \in Items
    BY <2>2 DEF FrameType
  <2>4. \A l \in Opened(st[n].q[2]) : l \in Levels
    BY OpenedFacts
  <2> QED BY <2>1, <2>3, <2>4 DEF FrameOK
<1> QED BY <1>1 DEF FramesOK

\* The frames base are the older frames of st, the newest perhaps at a later
\* point of its code.
Trims(base, st) ==
    /\ Len(base) <= Len(st)
    /\ \A n \in 1..Len(base) :
          /\ base[n].q = st[n].q /\ base[n].i = st[n].i
          /\ base[n].k \notin {"cb", "unsel", "putback"}
          /\ st[n].k # "cb"

LEMMA TrimFrames ==
    ASSUME NEW t, NEW o, NEW u, NEW p, NEW st \in Seq(FrameType),
           NEW base \in Seq(FrameType), Trims(base, st), FramesOK(t, o, u, p, st)
    PROVE  FramesOK(t, o, u, p, base)
<1>1. Len(base) \in Nat /\ Len(st) \in Nat /\ Len(base) <= Len(st)
  BY DEF Trims
<1>2. 1..Len(base) \subseteq 1..Len(st)
  BY <1>1
<1>3. ASSUME NEW n \in 1..Len(base)
      PROVE  FrameOK(t, o, u, p, base[n])
  <2>1. FrameOK(t, o, u, p, st[n])
    BY <1>2 DEF FramesOK
  <2> QED BY <2>1 DEF FrameOK, Trims
<1>4. Nested(o, base)
  <2>1. Nested(o, st)
    BY DEF FramesOK
  <2> QED BY <1>2, <2>1 DEF Nested, Trims
<1> QED BY <1>3, <1>4 DEF FramesOK

\* A frame is pushed.
LEMMA PushFrame ==
    ASSUME NEW t, NEW o, NEW u, NEW p, NEW base \in Seq(FrameType),
           NEW f \in FrameType, FramesOK(t, o, u, p, base),
           FrameOK(t, o, u, p, f), CalledFor(t, o, base, f.q)
    PROVE  FramesOK(t, o, u, p, Append(base, f))
<1> DEFINE st == Append(base, f)
<1>1. /\ st \in Seq(FrameType) /\ Len(base) \in Nat /\ Len(st) = Len(base) + 1
      /\ \A n \in 1..Len(base) : st[n] = base[n]
      /\ st[Len(base) + 1] = f
  BY AppendFacts
<1> HIDE DEF st
<1>2. \A n \in 1..Len(st) : n \in 1..Len(base) \/ n = Len(base) + 1
  BY <1>1
<1>3. \A n \in 1..Len(st) : FrameOK(t, o, u, p, st[n])
  BY <1>1, <1>2 DEF FramesOK
<1>4. Nested(o, st)
  <2> SUFFICES ASSUME o = "s", NEW n \in 1..Len(st), NEW m \in 1..Len(st), n < m,
                      st[n].q[2] = "s"
               PROVE  st[m].q[2] # "r"
    BY DEF Nested
  <2>1. n \in 1..Len(base)
    BY <1>1
  <2>2. CASE m \in 1..Len(base)
    BY <1>1, <2>1, <2>2 DEF FramesOK, Nested
  <2>3. CASE m = Len(base) + 1
    BY <1>1, <2>1, <2>3 DEF CalledFor
  <2> QED BY <1>2, <2>2, <2>3
<1> QED BY <1>3, <1>4 DEF FramesOK, st


\* Registering a cleanup adds one to the references of its interpreter.
LEMMA EntriesAppend ==
    ASSUME NEW p \in [Levels -> Seq(CleanupType)], NEW l \in Levels,
           NEW e \in CleanupType, NEW i \in Items, IsFiniteSet(Entries(p, i)),
           NEW w, w = [p EXCEPT ![l] = Append(p[l], e)]
    PROVE  /\ IsFiniteSet(Entries(w, i))
           /\ Cardinality(Entries(p, i)) \in Nat
           /\ e.i = i => Cardinality(Entries(w, i)) = Cardinality(Entries(p, i)) + 1
           /\ e.i # i => Cardinality(Entries(w, i)) = Cardinality(Entries(p, i))
<1>1. /\ p[l] \in Seq(CleanupType) /\ Len(p[l]) \in Nat
      /\ w[l] = Append(p[l], e)
      /\ \A m \in Levels : m # l => w[m] = p[m]
  OBVIOUS
<1>2. /\ Len(w[l]) = Len(p[l]) + 1
      /\ w[l][Len(p[l]) + 1] = e
      /\ \A n \in 1..Len(p[l]) : w[l][n] = p[l][n]
  BY <1>1, AppendFacts
<1>3. Cardinality(Entries(p, i)) \in Nat
  BY FS_CardinalityType
<1>4. CASE e.i = i
  <2>1. Entries(w, i) = Entries(p, i) \cup {<<l, Len(p[l]) + 1>>}
    <3>1. ASSUME NEW x \in Levels \X Nat
          PROVE  x \in Entries(w, i) <=>
                    x \in Entries(p, i) \/ x = <<l, Len(p[l]) + 1>>
      <4>0. x[1] \in Levels /\ x[2] \in Nat /\ x = <<x[1], x[2]>>
        OBVIOUS
      <4>1. CASE x[1] # l
        BY <1>1, <4>0, <4>1 DEF Entries
      <4>2. CASE x[1] = l /\ x[2] = Len(p[l]) + 1
        <5>1. x \in Entries(w, i)
          BY <1>1, <1>2, <1>4, <4>0, <4>2 DEF Entries
        <5> QED BY <4>0, <4>2, <5>1
      <4>3. CASE x[1] = l /\ x[2] # Len(p[l]) + 1
        <5>1. x[2] \in 1..Len(w[l]) <=> x[2] \in 1..Len(p[l])
          BY <1>1, <1>2, <4>0, <4>3
        <5> QED BY <1>1, <1>2, <4>0, <4>3, <5>1 DEF Entries
      <4> QED BY <4>1, <4>2, <4>3
    <3>2. <<l, Len(p[l]) + 1>> \in Levels \X Nat
      BY <1>1
    <3> QED BY <3>1, <3>2 DEF Entries
  <2>2. <<l, Len(p[l]) + 1>> \notin Entries(p, i)
    BY <1>1 DEF Entries
  <2>3. /\ IsFiniteSet(Entries(w, i))
        /\ Cardinality(Entries(w, i)) = Cardinality(Entries(p, i)) + 1
    <3> DEFINE A == Entries(p, i)
               x == <<l, Len(p[l]) + 1>>
    <3>1. IsFiniteSet(A) /\ x \notin A /\ Entries(w, i) = A \cup {x}
      BY <2>1, <2>2
    <3> HIDE DEF A, x
    <3>2. IsFiniteSet(A \cup {x}) /\ Cardinality(A \cup {x}) = Cardinality(A) + 1
      BY ONLY <3>1, FS_AddElement
    <3> QED BY ONLY <3>1, <3>2 DEF A
  <2> QED BY <1>3, <1>4, <2>3
<1>5. CASE e.i # i
  <2>1. Entries(w, i) = Entries(p, i)
    <3>1. ASSUME NEW x \in Levels \X Nat
          PROVE  x \in Entries(w, i) <=> x \in Entries(p, i)
      <4>0. x[1] \in Levels /\ x[2] \in Nat
        OBVIOUS
      <4>1. CASE x[1] # l
        BY <1>1, <4>0, <4>1 DEF Entries
      <4>2. CASE x[1] = l /\ x[2] = Len(p[l]) + 1
        BY <1>1, <1>2, <1>5, <4>0, <4>2 DEF Entries
      <4>3. CASE x[1] = l /\ x[2] # Len(p[l]) + 1
        <5>1. x[2] \in 1..Len(w[l]) <=> x[2] \in 1..Len(p[l])
          BY <1>1, <1>2, <4>0, <4>3
        <5> QED BY <1>1, <1>2, <4>0, <4>3, <5>1 DEF Entries
      <4> QED BY <4>1, <4>2, <4>3
    <3> QED BY <3>1 DEF Entries
  <2> QED BY <1>3, <1>5, <2>1
<1> QED BY <1>4, <1>5

\* Running the newest one takes it away.
LEMMA EntriesPop ==
    ASSUME NEW p \in [Levels -> Seq(CleanupType)], NEW l \in Levels,
           p[l] # <<>>, NEW i \in Items, IsFiniteSet(Entries(p, i)),
           NEW w, w = [p EXCEPT ![l] = Pop1(p[l])],
           NEW last, last = p[l][Len(p[l])]
    PROVE  /\ IsFiniteSet(Entries(w, i))
           /\ Cardinality(Entries(w, i)) \in Nat
           /\ last.i = i => Cardinality(Entries(p, i)) = Cardinality(Entries(w, i)) + 1
           /\ last.i # i => Cardinality(Entries(p, i)) = Cardinality(Entries(w, i))
<1>1. p[l] \in Seq(CleanupType)
  OBVIOUS
<1>2. /\ Pop1(p[l]) \in Seq(CleanupType) /\ last \in CleanupType
      /\ Len(p[l]) \in Nat /\ Len(p[l]) > 0
      /\ Len(Pop1(p[l])) = Len(p[l]) - 1
      /\ \A n \in 1..(Len(p[l]) - 1) : Pop1(p[l])[n] = p[l][n]
  BY <1>1, Pop1Facts
<1>3. /\ w \in [Levels -> Seq(CleanupType)]
      /\ w[l] = Pop1(p[l])
      /\ \A m \in Levels : m # l => w[m] = p[m]
  BY <1>2
<1>4. Entries(w, i) \subseteq Entries(p, i)
  <2>1. ASSUME NEW x \in Entries(w, i)
        PROVE  x \in Entries(p, i)
    <3>0. /\ x \in Levels \X Nat /\ x[1] \in Levels /\ x[2] \in Nat
          /\ x[2] \in 1..Len(w[x[1]]) /\ w[x[1]][x[2]].i = i
      BY DEF Entries
    <3>1. CASE x[1] # l
      BY <1>3, <3>0, <3>1 DEF Entries
    <3>2. CASE x[1] = l
      <4>1. x[2] \in 1..(Len(p[l]) - 1)
        BY <1>2, <1>3, <3>0, <3>2
      <4>2. x[2] \in 1..Len(p[l])
        BY <1>2, <4>1
      <4> QED BY <1>2, <1>3, <3>0, <3>2, <4>1, <4>2 DEF Entries
    <3> QED BY <3>1, <3>2
  <2> QED BY <2>1
<1>5. IsFiniteSet(Entries(w, i)) /\ Cardinality(Entries(w, i)) \in Nat
  BY <1>4, FS_Subset, FS_CardinalityType
<1>6. ASSUME NEW x \in Entries(p, i), x \notin Entries(w, i)
      PROVE  x = <<l, Len(p[l])>>
  <2>0. /\ x \in Levels \X Nat /\ x[1] \in Levels /\ x[2] \in Nat
        /\ x[2] \in 1..Len(p[x[1]]) /\ p[x[1]][x[2]].i = i
    BY DEF Entries
  <2>1. x = <<x[1], x[2]>>
    BY <2>0
  <2>2. x[1] = l
    BY <1>3, <1>6, <2>0 DEF Entries
  <2>3. x[2] \notin 1..(Len(p[l]) - 1)
    BY <1>2, <1>3, <1>6, <2>0, <2>2 DEF Entries
  <2>4. x[2] = Len(p[l])
    BY <1>2, <2>0, <2>2, <2>3
  <2> QED BY <2>1, <2>2, <2>4
<1>7. <<l, Len(p[l])>> \notin Entries(w, i)
  BY <1>2, <1>3 DEF Entries
<1>8. <<l, Len(p[l])>> \in Entries(p, i) <=> last.i = i
  <2>1. <<l, Len(p[l])>> \in Levels \X Nat /\ Len(p[l]) \in 1..Len(p[l])
    BY <1>2
  <2> QED BY <2>1 DEF Entries
<1>9. last.i = i => Entries(p, i) = Entries(w, i) \cup {<<l, Len(p[l])>>}
  BY <1>4, <1>6, <1>8
<1>10. last.i # i => Entries(p, i) = Entries(w, i)
  BY <1>4, <1>6, <1>8
<1>11. last.i = i => Cardinality(Entries(p, i)) = Cardinality(Entries(w, i)) + 1
  BY <1>5, <1>7, <1>9, FS_AddElement
<1> QED BY <1>5, <1>10, <1>11

\* A callback that starts, or returns.
LEMMA CallbacksAppend ==
    ASSUME NEW st \in Seq(FrameType), NEW f \in FrameType, NEW i \in Items,
           IsFiniteSet(Callbacks(st, i)), NEW s, s = Append(st, f)
    PROVE  /\ IsFiniteSet(Callbacks(s, i))
           /\ Cardinality(Callbacks(st, i)) \in Nat
           /\ (f.k = "cb" /\ f.i = i) =>
                 Cardinality(Callbacks(s, i)) = Cardinality(Callbacks(st, i)) + 1
           /\ ~(f.k = "cb" /\ f.i = i) =>
                 Cardinality(Callbacks(s, i)) = Cardinality(Callbacks(st, i))
<1>1. /\ Len(st) \in Nat /\ Len(s) = Len(st) + 1
      /\ \A n \in 1..Len(st) : s[n] = st[n]
      /\ s[Len(st) + 1] = f
  BY AppendFacts
<1>2. \A n : n \in 1..Len(s) <=> (n \in 1..Len(st) \/ n = Len(st) + 1)
  BY <1>1
<1>3. Cardinality(Callbacks(st, i)) \in Nat
  BY FS_CardinalityType
<1>4. CASE f.k = "cb" /\ f.i = i
  <2>1. Callbacks(s, i) = Callbacks(st, i) \cup {Len(st) + 1}
    BY <1>1, <1>2, <1>4 DEF Callbacks
  <2>2. Len(st) + 1 \notin Callbacks(st, i)
    BY <1>1 DEF Callbacks
  <2>3. /\ IsFiniteSet(Callbacks(s, i))
        /\ Cardinality(Callbacks(s, i)) = Cardinality(Callbacks(st, i)) + 1
    BY <2>1, <2>2, FS_AddElement
  <2> QED BY <1>3, <1>4, <2>3
<1>5. CASE ~(f.k = "cb" /\ f.i = i)
  <2>1. Callbacks(s, i) = Callbacks(st, i)
    BY <1>1, <1>2, <1>5 DEF Callbacks
  <2> QED BY <1>3, <1>5, <2>1
<1> QED BY <1>4, <1>5

LEMMA NoCallbacks ==
    ASSUME NEW st, \A n \in 1..Len(st) : st[n].k # "cb", NEW i
    PROVE  /\ Callbacks(st, i) = {}
           /\ IsFiniteSet(Callbacks(st, i)) /\ Cardinality(Callbacks(st, i)) = 0
<1>1. Callbacks(st, i) = {}
  BY DEF Callbacks
<1> QED BY <1>1, FS_EmptySet

\* A cleanup is registered for i and counted: the first one, the userdata's,
\* when the thread gets it.
Registered(i, h, rc, rc2) ==
    /\ rc2[i] = IF i \in h THEN rc[i] + 1 ELSE 0
    /\ \A j \in Items : j # i => rc2[j] = rc[j]

LEMMA CountRegister ==
    ASSUME NEW p \in [Levels -> Seq(CleanupType)], NEW st, NEW h,
           NEW rc \in [Items -> Nat], Counted(p, st, h, rc),
           NEW l \in Levels, NEW e \in CleanupType, NEW rc2,
           Registered(e.i, h, rc, rc2)
    PROVE  Counted([p EXCEPT ![l] = Append(p[l], e)], st, h \cup {e.i}, rc2)
<1> SUFFICES ASSUME NEW i \in Items,
                    NEW w, w = [p EXCEPT ![l] = Append(p[l], e)]
             PROVE  /\ IsFiniteSet(Entries(w, i)) /\ IsFiniteSet(Callbacks(st, i))
                    /\ Cardinality(Entries(w, i)) + Cardinality(Callbacks(st, i)) =
                          IF i \in h \cup {e.i} THEN rc2[i] + 1 ELSE 0
  BY DEF Counted
<1>1. /\ IsFiniteSet(Entries(p, i)) /\ IsFiniteSet(Callbacks(st, i))
      /\ Cardinality(Entries(p, i)) + Cardinality(Callbacks(st, i)) =
            IF i \in h THEN rc[i] + 1 ELSE 0
  BY DEF Counted
<1>2. Cardinality(Callbacks(st, i)) \in Nat /\ rc[i] \in Nat
  BY <1>1, FS_CardinalityType
<1>3. /\ IsFiniteSet(Entries(w, i))
      /\ Cardinality(Entries(p, i)) \in Nat
      /\ e.i = i => Cardinality(Entries(w, i)) = Cardinality(Entries(p, i)) + 1
      /\ e.i # i => Cardinality(Entries(w, i)) = Cardinality(Entries(p, i))
  <2>1. IsFiniteSet(Entries(p, i))
    BY <1>1
  <2> QED BY <2>1, EntriesAppend, ZenonT(60)
<1> QED BY <1>1, <1>2, <1>3 DEF Registered

\* What modperl_interp_unselect does to the count of i and to what is held.
Released(i, h, rc, h2, rc2) ==
    /\ \A j \in Items : j # i => rc2[j] = rc[j]
    /\ \/ rc[i] # 0 /\ rc2[i] = rc[i] - 1 /\ h2 = h
       \/ rc[i] = 0 /\ rc2[i] = 0 /\ h2 = h \ {i}

\* One of the cleanups and callbacks that are to release i is gone.
OneLess(p, st, w, s, i) ==
    \A j \in Items :
        /\ IsFiniteSet(Entries(w, j)) /\ IsFiniteSet(Callbacks(s, j))
        /\ Cardinality(Entries(p, j)) + Cardinality(Callbacks(st, j)) =
              Cardinality(Entries(w, j)) + Cardinality(Callbacks(s, j))
              + (IF j = i THEN 1 ELSE 0)

\* The last cleanup releases i, and no other.
LEMMA CountRelease ==
    ASSUME NEW p, NEW st, NEW h, NEW rc \in [Items -> Nat], Counted(p, st, h, rc),
           NEW w, NEW s, NEW i \in Items, NEW h2, NEW rc2,
           Released(i, h, rc, h2, rc2), OneLess(p, st, w, s, i)
    PROVE  Counted(w, s, h2, rc2)
<1> SUFFICES ASSUME NEW j \in Items
             PROVE  /\ IsFiniteSet(Entries(w, j)) /\ IsFiniteSet(Callbacks(s, j))
                    /\ Cardinality(Entries(w, j)) + Cardinality(Callbacks(s, j)) =
                          IF j \in h2 THEN rc2[j] + 1 ELSE 0
  BY DEF Counted
<1>1. Cardinality(Entries(p, j)) + Cardinality(Callbacks(st, j)) =
         IF j \in h THEN rc[j] + 1 ELSE 0
  BY DEF Counted
<1>2. /\ Cardinality(Entries(w, j)) \in Nat /\ Cardinality(Callbacks(s, j)) \in Nat
      /\ IsFiniteSet(Entries(w, j)) /\ IsFiniteSet(Callbacks(s, j))
      /\ Cardinality(Entries(p, j)) + Cardinality(Callbacks(st, j)) =
            Cardinality(Entries(w, j)) + Cardinality(Callbacks(s, j))
            + (IF j = i THEN 1 ELSE 0)
  BY FS_CardinalityType DEF OneLess
<1>3. rc[j] \in Nat
  OBVIOUS
<1> QED BY <1>1, <1>2, <1>3 DEF Released

\* What is counted is held: an interpreter that some cleanup will release.
LEMMA CountedHeld ==
    ASSUME NEW p, NEW st, NEW h, NEW rc \in [Items -> Nat], NEW i \in Items,
           Counted(p, st, h, rc)
    PROVE  /\ Cardinality(Entries(p, i)) \in Nat
           /\ Cardinality(Callbacks(st, i)) \in Nat
           /\ Entries(p, i) # {} => i \in h
           /\ Callbacks(st, i) # {} => i \in h
           /\ i \in h => Entries(p, i) # {} \/ Callbacks(st, i) # {}
<1>1. /\ IsFiniteSet(Entries(p, i)) /\ IsFiniteSet(Callbacks(st, i))
      /\ Cardinality(Entries(p, i)) + Cardinality(Callbacks(st, i)) =
              IF i \in h THEN rc[i] + 1 ELSE 0
  BY DEF Counted
<1>2. Cardinality(Entries(p, i)) \in Nat /\ Cardinality(Callbacks(st, i)) \in Nat
  BY <1>1, FS_CardinalityType
<1>3. /\ Cardinality(Entries(p, i)) = 0 <=> Entries(p, i) = {}
      /\ Cardinality(Callbacks(st, i)) = 0 <=> Callbacks(st, i) = {}
  BY <1>1, FS_EmptySet
<1>4. rc[i] \in Nat
  OBVIOUS
<1> QED BY <1>1, <1>2, <1>3, <1>4

\* A stashed interpreter is counted.
LEMMA StashedEntry ==
    ASSUME NEW u, NEW p \in [Levels -> Seq(CleanupType)], NEW l \in Levels,
           NEW i, Stashed(u, p, l, i)
    PROVE  Entries(p, i) # {}
<1>1. PICK n \in 1..Len(p[l]) : p[l][n] = [k |-> "userdata", i |-> i]
  BY DEF Stashed
<1>2. p[l] \in Seq(CleanupType) /\ n \in Nat
  OBVIOUS
<1>3. p[l][n].i = i
  BY <1>1
<1>4. <<l, n>> \in Entries(p, i)
  BY <1>2, <1>3 DEF Entries
<1> QED BY <1>4

-----------------------------------------------------------------------------
(* What each kind of step does to the state of the thread that takes it.   *)

\* The thread goes on with older frames.
LEMMA TrimOwn ==
    ASSUME NEW t, NEW o, NEW cl, NEW sc, NEW u, NEW p, NEW st, NEW nr, NEW ra,
           NEW h, NEW rc, OwnType(o, sc, u, p, st, ra, h, rc),
           OwnInv(t, o, cl, sc, u, p, st, NoCall, nr, ra, h, rc),
           Settled(u, p, st),
           NEW base \in Seq(FrameType), Trims(base, st), NEW dl, NEW mr
    PROVE  /\ OwnInv(t, o, dl, sc, u, p, base, NoCall, mr, ra, h, rc)
           /\ OwnType(o, sc, u, p, base, ra, h, rc)
           /\ Settled(u, p, base)
<1>1. FramesOK(t, o, u, p, base)
  BY TrimFrames DEF OwnInv, OwnType
<1>2. Settled(u, p, base)
  BY DEF Settled, Trims
<1>3. Counted(p, base, h, rc)
  <2>1. \A i : /\ Cardinality(Callbacks(base, i)) = Cardinality(Callbacks(st, i))
               /\ IsFiniteSet(Callbacks(base, i))
    BY <1>2, NoCallbacks DEF Settled
  <2> QED BY <2>1 DEF OwnInv, Counted
<1>4. PendOK(t, o, sc, u, base, NoCall)
  BY DEF PendOK
<1> QED BY <1>1, <1>2, <1>3, <1>4 DEF OwnInv, OwnType

\* select finds an interpreter for q and its caller runs on it.
LEMMA FoundOwn ==
    ASSUME NEW t, NEW o, NEW cl, NEW sc, NEW u, NEW p, NEW st, NEW nr, NEW ra,
           NEW h, NEW rc, OwnType(o, sc, u, p, st, ra, h, rc),
           OwnInv(t, o, cl, sc, u, p, st, NoCall, nr, ra, h, rc),
           Settled(u, p, st),
           NEW f \in FrameType, CalledFor(t, o, st, f.q),
           f.k \notin {"cb", "unsel", "putback"},
           f.i = IF u[StashPool(sc, f.q[2])] # NULL
                 THEN u[StashPool(sc, f.q[2])] ELSE u["c"],
           NEW ra2,
           \/ ra2 = ra
           \/ /\ f.q[2] # "c" /\ sc[f.q[2]] \in {"request", "connection"}
              /\ ra2 = ra \cup {<<sc[f.q[2]], f.i>>},
           NEW mr
    PROVE  /\ OwnInv(t, o, cl, sc, u, p, Append(st, f), NoCall, mr, ra2, h, rc)
           /\ Settled(u, p, Append(st, f))
<1> DEFINE l == f.q[2]
           s == Append(st, f)
<1>0. /\ l \in Levels /\ l \in Opened(o) /\ f.i \in Items
      /\ u \in [Levels -> Items \cup {NULL}] /\ st \in Seq(FrameType)
  BY OpenedFacts DEF CalledFor, OwnType, FrameType
<1>1. \E m \in Opened(l) : Stashed(u, p, m, f.i)
  <2>1. PICK m \in Opened(l) : m \in Levels /\ u[m] = f.i
    BY <1>0, StashPoolFacts, OpenedFacts
  <2>2. u[m] # NULL
    BY <1>0, <2>1, InterpAssumption
  <2>3. ~Drained(u, p, m)
    BY <2>1 DEF Settled
  <2> QED BY <2>1, <2>2, <2>3 DEF Drained
<1>2. FrameOK(t, o, u, p, f)
  BY <1>0, <1>1 DEF FrameOK, CalledFor
<1>3. FramesOK(t, o, u, p, s)
  BY <1>0, <1>2, PushFrame DEF OwnInv
<1>4. Settled(u, p, s)
  <2>1. \A n \in 1..Len(s) : s[n].k # "cb"
    BY <1>0, AppendFacts DEF Settled
  <2> QED BY <2>1 DEF Settled
<1>5. Counted(p, s, h, rc)
  <2>1. \A i : /\ Cardinality(Callbacks(s, i)) = Cardinality(Callbacks(st, i))
               /\ IsFiniteSet(Callbacks(s, i))
    BY <1>4, NoCallbacks DEF Settled
  <2> QED BY <2>1 DEF OwnInv, Counted
<1>6. RanOK(o, u, ra2)
  <2>1. RanOK(o, u, ra)
    BY DEF OwnInv
  <2>2. ASSUME l # "c", sc[l] \in {"request", "connection"}
        PROVE  /\ o \in ReqLevels
               /\ f.i = IF sc[l] = "request" /\ u["r"] # NULL THEN u["r"] ELSE u["c"]
    <3>1. o \in ReqLevels
      BY <1>0, <2>2, OpenedFacts DEF OwnType, Levels
    <3>2. CASE sc[l] = "request"
      <4>1. StashPool(sc, l) = "r"
        BY <1>0, <2>2, <3>2, StashPoolFacts
      <4> QED BY <3>1, <3>2, <4>1
    <3>3. CASE sc[l] = "connection"
      <4>1. StashPool(sc, l) = "c"
        BY <1>0, <2>2, <3>3, StashPoolFacts
      <4> QED BY <3>1, <3>3, <4>1
    <3> QED BY <2>2, <3>2, <3>3
  <2>3. CASE ra2 = ra
    BY <2>1, <2>3
  <2>4. CASE /\ l # "c" /\ sc[l] \in {"request", "connection"}
             /\ ra2 = ra \cup {<<sc[l], f.i>>}
    <3> DEFINE x == <<sc[l], f.i>>
    <3>1. /\ x[1] \in {"request", "connection"} /\ o \in ReqLevels
          /\ x[2] = IF x[1] = "request" /\ u["r"] # NULL THEN u["r"] ELSE u["c"]
      BY <2>2, <2>4
    <3> HIDE DEF x
    <3> QED BY <2>1, <2>4, <3>1 DEF RanOK, x
  <2> QED BY <2>3, <2>4
<1>7. PendOK(t, o, sc, u, s, NoCall)
  BY DEF PendOK
<1> HIDE DEF s
<1>8. OwnInv(t, o, cl, sc, u, p, s, NoCall, mr, ra2, h, rc)
  BY <1>3, <1>4, <1>5, <1>6, <1>7 DEF OwnInv
<1> QED BY <1>4, <1>8 DEF s

\* select has no interpreter for q and the thread blocks.
LEMMA BlockOwn ==
    ASSUME NEW t, NEW o, NEW cl, NEW sc, NEW u, NEW p, NEW st, NEW nr, NEW ra,
           NEW h, NEW rc,
           OwnInv(t, o, cl, sc, u, p, st, NoCall, nr, ra, h, rc),
           Settled(u, p, st),
           NEW pe, CalledFor(t, o, st, pe.q),
           u[StashPool(sc, pe.q[2])] = NULL, u["c"] = NULL, NEW mr
    PROVE  OwnInv(t, o, cl, sc, u, p, st, pe, mr, ra, h, rc)
BY DEF OwnInv, PendOK

\* The popped interpreter i is stashed in the pool of q, with a cleanup, and
\* the caller runs on it.
LEMMA PoppedOwn ==
    ASSUME NEW t, NEW o, NEW cl, NEW sc, NEW u, NEW p, NEW st, NEW pe, NEW nr,
           NEW ra, NEW h, NEW rc, OwnType(o, sc, u, p, st, ra, h, rc),
           OwnInv(t, o, cl, sc, u, p, st, pe, nr, ra, h, rc),
           Settled(u, p, st),
           NEW f \in FrameType, CalledFor(t, o, st, f.q),
           f.k \notin {"cb", "unsel", "putback"},
           f.i \notin h, rc[f.i] = 0,
           u[StashPool(sc, f.q[2])] = NULL, u["c"] = NULL,
           NEW v, v = [u EXCEPT ![StashPool(sc, f.q[2])] = f.i],
           NEW w, w = [p EXCEPT ![StashPool(sc, f.q[2])] =
                          Append(p[StashPool(sc, f.q[2])],
                                 [k |-> "userdata", i |-> f.i])],
           NEW ra2,
           \/ ra2 = ra
           \/ /\ f.q[2] # "c" /\ sc[f.q[2]] \in {"request", "connection"}
              /\ ra2 = ra \cup {<<sc[f.q[2]], f.i>>},
           NEW mr
    PROVE  OwnInv(t, o, cl, sc, v, w, Append(st, f), NoCall, mr, ra2,
                  h \cup {f.i}, rc)
<1> DEFINE l == f.q[2]
           m == StashPool(sc, l)
           e == [k |-> "userdata", i |-> f.i]
           s == Append(st, f)
<1>0. /\ l \in Levels /\ l \in Opened(o) /\ f.i \in Items
      /\ u \in [Levels -> Items \cup {NULL}] /\ st \in Seq(FrameType)
      /\ p \in [Levels -> Seq(CleanupType)] /\ rc \in [Items -> Nat]
      /\ o \in Levels \cup {"none"} /\ e \in CleanupType
      /\ ra \in SUBSET (Scopes \X Items)
  BY OpenedFacts, ZenonT(60) DEF CalledFor, OwnType, FrameType, CleanupType
<1>1. m \in Levels /\ m \in Opened(l) /\ m \in Opened(o)
  <2>1. m \in Levels /\ m \in Opened(l)
    BY <1>0, StashPoolFacts
  <2>2. Opened(l) \subseteq Opened(o)
    BY <1>0, OpenedFacts
  <2> QED BY <2>1, <2>2
<1>2. /\ v \in [Levels -> Items \cup {NULL}] /\ v[m] = f.i
      /\ \A x \in Levels : x # m => v[x] = u[x]
  BY <1>0, <1>1
<1>3. /\ w[m] = Append(p[m], e) /\ p[m] \in Seq(CleanupType)
      /\ \A x \in Levels : x # m => w[x] = p[x]
  BY <1>0, <1>1
<1>4. /\ Len(p[m]) \in Nat /\ Len(w[m]) = Len(p[m]) + 1
      /\ w[m][Len(p[m]) + 1] = e
      /\ \A n \in 1..Len(p[m]) : w[m][n] = p[m][n]
  BY <1>0, <1>3, AppendFacts
<1>5. Stashed(v, w, m, f.i)
  BY <1>2, <1>4 DEF Stashed
<1>6. \A x \in Levels, i \in Items : Stashed(u, p, x, i) => Stashed(v, w, x, i)
  BY <1>2, <1>3, InterpAssumption DEF Stashed
<1>7. FramesOK(t, o, v, w, st)
  BY <1>0, <1>6, StashMono DEF OwnInv
<1>8. FramesOK(t, o, v, w, s)
  <2>1. FrameOK(t, o, v, w, f)
    BY <1>1, <1>5 DEF FrameOK, CalledFor
  <2> QED BY <1>0, <1>7, <2>1, PushFrame
<1>9. Settled(v, w, s)
  <2>1. \A n \in 1..Len(s) : s[n].k # "cb"
    BY <1>0, AppendFacts DEF Settled
  <2>2. ASSUME NEW x \in Levels PROVE ~Drained(v, w, x)
    <3>1. CASE x = m
      BY <1>2, <1>5, <3>1 DEF Drained
    <3>2. CASE x # m
      <4>1. ~Drained(u, p, x)
        BY DEF Settled
      <4> QED BY <1>2, <1>3, <3>2, <4>1 DEF Drained, Stashed
    <3> QED BY <3>1, <3>2
  <2> QED BY <2>1, <2>2 DEF Settled
<1>10. PoolsOK(o, v, w)
  BY <1>1, <1>2, <1>3 DEF OwnInv, PoolsOK
<1>11. RanOK(o, v, ra2)
  <2>1. RanOK(o, v, ra)
    <3> SUFFICES ASSUME NEW x \in ra
                 PROVE  /\ o \in ReqLevels
                        /\ x[1] \in {"request", "connection"}
                        /\ x[2] = IF x[1] = "request" /\ v["r"] # NULL
                                  THEN v["r"] ELSE v["c"]
      BY DEF RanOK
    <3>1. /\ o \in ReqLevels
          /\ x[1] \in {"request", "connection"}
          /\ x[2] = IF x[1] = "request" /\ u["r"] # NULL THEN u["r"] ELSE u["c"]
      BY DEF OwnInv, RanOK
    <3>2. x[2] # NULL
      BY <1>0, InterpAssumption
    <3>3. x[1] = "request" /\ u["r"] # NULL /\ x[2] = u["r"]
      BY <3>1, <3>2
    <3>4. "r" # m /\ "r" \in Levels
      BY <3>3 DEF Levels
    <3>5. v["r"] = u["r"]
      BY <1>2, <3>4
    <3> QED BY <3>1, <3>3, <3>5
  <2>2. CASE ra2 = ra
    BY <2>1, <2>2
  <2>3. CASE /\ l # "c" /\ sc[l] \in {"request", "connection"}
             /\ ra2 = ra \cup {<<sc[l], f.i>>}
    <3> DEFINE x == <<sc[l], f.i>>
    <3>1. o \in ReqLevels
      BY <1>0, <2>3, OpenedFacts DEF Levels
    <3>2. f.i # NULL
      BY <1>0, InterpAssumption
    <3>3. f.i = IF sc[l] = "request" /\ v["r"] # NULL THEN v["r"] ELSE v["c"]
      <4>1. CASE sc[l] = "request"
        <5>1. m = "r"
          BY <1>0, <2>3, <4>1, StashPoolFacts
        <5> QED BY <1>2, <3>2, <4>1, <5>1
      <4>2. CASE sc[l] = "connection"
        <5>1. m = "c"
          BY <1>0, <2>3, <4>2, StashPoolFacts
        <5> QED BY <1>2, <4>2, <5>1
      <4> QED BY <2>3, <4>1, <4>2
    <3>4. /\ x[1] \in {"request", "connection"} /\ o \in ReqLevels
          /\ x[2] = IF x[1] = "request" /\ v["r"] # NULL THEN v["r"] ELSE v["c"]
      BY <2>3, <3>1, <3>3
    <3> HIDE DEF x
    <3> QED BY <2>1, <2>3, <3>4 DEF RanOK, x
  <2> QED BY <2>2, <2>3
<1>12. Counted(w, s, h \cup {f.i}, rc)
  <2>1. Counted(p, st, h, rc) /\ e.i = f.i
    BY DEF OwnInv
  <2>a. Registered(e.i, h, rc, rc)
    BY DEF Registered
  <2>2. Counted([p EXCEPT ![m] = Append(p[m], e)], st, h \cup {e.i}, rc)
    BY <1>0, <1>1, <2>1, <2>a, CountRegister
  <2>3. \A i : /\ Cardinality(Callbacks(s, i)) = Cardinality(Callbacks(st, i))
               /\ IsFiniteSet(Callbacks(s, i))
    BY <1>9, NoCallbacks DEF Settled
  <2>4. w = [p EXCEPT ![m] = Append(p[m], e)]
    OBVIOUS
  <2> HIDE DEF e, m, s
  <2> QED BY <2>1, <2>2, <2>3, <2>4, ZenonT(60) DEF Counted
<1>13. PendOK(t, o, sc, v, s, NoCall)
  BY DEF PendOK
<1> HIDE DEF s
<1>14. OwnInv(t, o, cl, sc, v, w, s, NoCall, mr, ra2, h \cup {f.i}, rc)
  BY <1>8, <1>9, <1>10, <1>11, <1>12, <1>13 DEF OwnInv
<1> QED BY <1>14 DEF s


\* Perl code registers a cleanup for its interpreter.
LEMMA RegisterOwn ==
    ASSUME NEW t, NEW o, NEW cl, NEW sc, NEW u, NEW p, NEW st, NEW nr, NEW ra,
           NEW h, NEW rc, OwnType(o, sc, u, p, st, ra, h, rc),
           OwnInv(t, o, cl, sc, u, p, st, NoCall, nr, ra, h, rc),
           Settled(u, p, st),
           NEW f, NEW n \in 1..Len(st), f = st[n],
           NEW l \in Opened(o), NEW rc2, Registered(f.i, h, rc, rc2),
           NEW w, w = [p EXCEPT ![l] = Append(p[l], [k |-> "perl", i |-> f.i])]
    PROVE  /\ OwnInv(t, o, cl, sc, u, w, st, NoCall, nr, ra, h, rc2)
           /\ f.i \in h
<1> DEFINE e == [k |-> "perl", i |-> f.i]
<1>0. /\ l \in Levels /\ o \in Levels \cup {"none"}
      /\ u \in [Levels -> Items \cup {NULL}] /\ st \in Seq(FrameType)
      /\ p \in [Levels -> Seq(CleanupType)] /\ rc \in [Items -> Nat]
      /\ FramesOK(t, o, u, p, st) /\ Counted(p, st, h, rc)
  BY OpenedFacts DEF OwnType, OwnInv
<1>1. f \in FrameType /\ f.i \in Items /\ e \in CleanupType /\ e.i = f.i
  <2>1. f \in FrameType
    BY <1>0
  <2> QED BY <2>1 DEF FrameType, CleanupType
<1>2. f.i \in h
  <2>1. FrameOK(t, o, u, p, f) /\ f.k # "cb"
    BY <1>0 DEF FramesOK, Settled
  <2>2. PICK m \in Levels : Stashed(u, p, m, f.i)
    BY <2>1, OpenedFacts DEF FrameOK
  <2>3. Entries(p, f.i) # {}
    BY <1>0, <2>2, StashedEntry
  <2> QED BY <1>0, <1>1, <2>3, CountedHeld
<1>3. /\ w[l] = Append(p[l], e) /\ p[l] \in Seq(CleanupType)
      /\ \A x \in Levels : x # l => w[x] = p[x]
  BY <1>0
<1>4. /\ Len(p[l]) \in Nat /\ Len(w[l]) = Len(p[l]) + 1
      /\ \A m \in 1..Len(p[l]) : w[l][m] = p[l][m]
  BY <1>1, <1>3, AppendFacts
<1>5. \A x \in Levels : \A i : Stashed(u, p, x, i) => Stashed(u, w, x, i)
  BY <1>3, <1>4 DEF Stashed
<1>6. FramesOK(t, o, u, w, st)
  BY <1>0, <1>5, StashMono
<1>7. Settled(u, w, st)
  BY <1>5 DEF Settled, Drained
<1>8. PoolsOK(o, u, w)
  BY <1>0, <1>3 DEF OwnInv, PoolsOK
<1>9. Counted(w, st, h, rc2)
  <2>1. w = [p EXCEPT ![l] = Append(p[l], e)] /\ h \cup {e.i} = h
    BY <1>1, <1>2
  <2>2. Registered(e.i, h, rc, rc2)
    BY <1>1
  <2> HIDE DEF e
  <2>3. Counted([p EXCEPT ![l] = Append(p[l], e)], st, h \cup {e.i}, rc2)
    BY <1>0, <1>1, <2>2, CountRegister
  <2> QED BY <2>1, <2>3
<1>10. OwnInv(t, o, cl, sc, u, w, st, NoCall, nr, ra, h, rc2)
  BY <1>6, <1>7, <1>8, <1>9 DEF OwnInv
<1> QED BY <1>2, <1>10

\* httpd destroys the innermost pool from where control was in httpd: no frame
\* belongs to that pool.
Outside(o, st) ==
    /\ Suspended(o, st, Len(st))
    /\ \A n \in 1..Len(st) : st[n].k # "cb" /\ o = "s" /\ st[n].q[2] \in {"c", "r"}

LEMMA SuspendedOutside ==
    ASSUME NEW t, NEW o \in Levels, NEW u, NEW p, NEW st \in Seq(FrameType),
           FramesOK(t, o, u, p, st), Suspended(o, st, Len(st)),
           CallbacksOK(o, u, p, st) \/ Settled(u, p, st)
    PROVE  Outside(o, st)
<1>1. CASE Len(st) = 0
  BY <1>1 DEF Outside
<1>2. CASE Len(st) # 0
  <2>1. /\ Len(st) \in Nat /\ Len(st) \in 1..Len(st)
        /\ o = "s" /\ st[Len(st)].k = "run" /\ st[Len(st)].q[2] = "r"
    BY <1>2 DEF Suspended
  <2>2. ASSUME NEW n \in 1..Len(st)
        PROVE  st[n].k # "cb" /\ st[n].q[2] \in {"c", "r"}
    <3>1. st[n].q[2] \in {"c", "r", "s"}
      BY <2>1, OpenedFacts DEF FramesOK, FrameOK
    <3>2. CASE n = Len(st)
      BY <2>1, <3>2
    <3>3. CASE n # Len(st)
      <4>1. n < Len(st)
        BY <2>1, <3>3
      <4>2. st[n].q[2] # "s"
        BY <2>1, <4>1 DEF FramesOK, Nested
      <4>3. st[n].k # "cb"
        BY <3>3 DEF CallbacksOK, Settled
      <4> QED BY <3>1, <4>2, <4>3
    <3> QED BY <3>2, <3>3
  <2> QED BY <2>1, <2>2 DEF Outside
<1> QED BY <1>1, <1>2

\* Those frames do not use what is stashed in the pool.
LEMMA OutsideFrames ==
    ASSUME NEW t, NEW o \in Levels, NEW u, NEW p, NEW v, NEW w,
           NEW st \in Seq(FrameType),
           FramesOK(t, o, u, p, st), Outside(o, st),
           \A l \in Levels : l # o => v[l] = u[l] /\ w[l] = p[l]
    PROVE  FramesOK(t, o, v, w, st)
<1>1. ASSUME NEW n \in 1..Len(st)
      PROVE  FrameOK(t, o, v, w, st[n])
  <2>1. FrameOK(t, o, u, p, st[n])
    BY DEF FramesOK
  <2>2. o = "s" /\ st[n].q[2] \in {"c", "r"}
    BY DEF Outside
  <2>3. \A l \in Opened(st[n].q[2]) : l \in Levels /\ l # o
    BY <2>2, OpenedFacts DEF Levels
  <2> QED BY <2>1, <2>3 DEF FrameOK, Stashed
<1> QED BY <1>1 DEF FramesOK

\* The newest cleanup of the pool is run: it is the userdata's, and releases
\* its interpreter, ...
LEMMA CleanupOwn ==
    ASSUME NEW t, NEW o \in Levels, NEW cl, NEW sc, NEW u, NEW p, NEW st, NEW nr,
           NEW ra, NEW h, NEW rc, OwnType(o, sc, u, p, st, ra, h, rc),
           OwnInv(t, o, cl, sc, u, p, st, NoCall, nr, ra, h, rc),
           cl, o \in ReqLevels => nr[o] = 0, Outside(o, st),
           p[o] # <<>>, NEW e, e = p[o][Len(p[o])],
           NEW h2, NEW rc2, Released(e.i, h, rc, h2, rc2),
           NEW w, w = [p EXCEPT ![o] = Pop1(p[o])]
    PROVE  OwnInv(t, o, cl, sc, u, w, st, NoCall, nr, ra, h2, rc2)
<1>0. /\ u \in [Levels -> Items \cup {NULL}] /\ st \in Seq(FrameType)
      /\ p \in [Levels -> Seq(CleanupType)] /\ rc \in [Items -> Nat]
      /\ FramesOK(t, o, u, p, st) /\ Counted(p, st, h, rc)
  BY DEF OwnType, OwnInv
<1>1. \A l \in Levels : l # o => w[l] = p[l]
  BY <1>0
<1>2. e \in CleanupType /\ e.i \in Items
  <2>1. p[o] \in Seq(CleanupType)
    BY <1>0
  <2>2. e \in CleanupType
    BY <2>1, Pop1Facts
  <2> QED BY <2>2 DEF CleanupType
<1>3. FramesOK(t, o, u, w, st)
  BY <1>0, <1>1, OutsideFrames
<1>4. Quiet(o, cl, st, NoCall, nr)
  BY DEF Quiet, Outside
<1>5. CallbacksOK(o, u, w, st)
  <2>1. \A l \in Levels : Drained(u, p, l) => l = o
    BY DEF OwnInv, Settled, CallbacksOK
  <2> QED BY <1>1, <2>1 DEF CallbacksOK, Outside, Drained, Stashed
<1>6. PoolsOK(o, u, w)
  BY <1>1, OpenedFacts DEF OwnInv, PoolsOK
<1>7. Counted(w, st, h2, rc2)
  <2>1. ASSUME NEW j \in Items
        PROVE  /\ IsFiniteSet(Entries(w, j)) /\ IsFiniteSet(Callbacks(st, j))
               /\ Cardinality(Entries(p, j)) + Cardinality(Callbacks(st, j)) =
                     Cardinality(Entries(w, j)) + Cardinality(Callbacks(st, j))
                     + (IF j = e.i THEN 1 ELSE 0)
    <3>1. IsFiniteSet(Entries(p, j))
      BY <1>0 DEF Counted
    <3>2. IsFiniteSet(Callbacks(st, j)) /\ Cardinality(Callbacks(st, j)) \in Nat
      BY <1>0, FS_CardinalityType DEF Counted
    <3>3. p \in [Levels -> Seq(CleanupType)]
      BY <1>0
    <3>4. /\ IsFiniteSet(Entries(w, j))
          /\ Cardinality(Entries(w, j)) \in Nat
          /\ e.i = j => Cardinality(Entries(p, j)) = Cardinality(Entries(w, j)) + 1
          /\ e.i # j => Cardinality(Entries(p, j)) = Cardinality(Entries(w, j))
      BY <3>1, <3>3, EntriesPop, Zenon
    <3> QED BY <3>2, <3>4
  <2>2. OneLess(p, st, w, st, e.i)
    BY <2>1 DEF OneLess
  <2>3. e.i \in Items /\ rc \in [Items -> Nat] /\ Counted(p, st, h, rc)
    BY <1>0, <1>2
  <2> QED BY <2>2, <2>3, CountRelease
<1>8. PendOK(t, o, sc, u, st, NoCall)
  BY DEF PendOK
<1> QED BY <1>3, <1>4, <1>5, <1>6, <1>7, <1>8 DEF OwnInv

\* ... or it is Perl code's, and is called on its interpreter, ...
LEMMA CallbackOwn ==
    ASSUME NEW t, NEW o \in Levels, NEW cl, NEW sc, NEW u, NEW p, NEW st, NEW nr,
           NEW ra, NEW h, NEW rc, OwnType(o, sc, u, p, st, ra, h, rc),
           OwnInv(t, o, cl, sc, u, p, st, NoCall, nr, ra, h, rc),
           cl, o \in ReqLevels => nr[o] = 0, Outside(o, st),
           p[o] # <<>>, NEW e, e = p[o][Len(p[o])],
           NEW f \in FrameType, f.k = "cb", f.q = <<t, o>>, f.i = e.i,
           NEW w, w = [p EXCEPT ![o] = Pop1(p[o])]
    PROVE  OwnInv(t, o, cl, sc, u, w, Append(st, f), NoCall, nr, ra, h, rc)
<1> DEFINE s == Append(st, f)
<1>0. /\ u \in [Levels -> Items \cup {NULL}] /\ st \in Seq(FrameType)
      /\ p \in [Levels -> Seq(CleanupType)] /\ rc \in [Items -> Nat]
      /\ FramesOK(t, o, u, p, st) /\ Counted(p, st, h, rc)
  BY DEF OwnType, OwnInv
<1>1. \A l \in Levels : l # o => w[l] = p[l]
  BY <1>0
<1>2. /\ s \in Seq(FrameType) /\ Len(st) \in Nat /\ Len(s) = Len(st) + 1
      /\ \A n \in 1..Len(st) : s[n] = st[n]
      /\ s[Len(st) + 1] = f
  BY <1>0, AppendFacts
<1>3. FramesOK(t, o, u, w, st)
  BY <1>0, <1>1, OutsideFrames
<1>4. FramesOK(t, o, u, w, s)
  <2>1. FrameOK(t, o, u, w, f)
    BY OpenedFacts DEF FrameOK
  <2>2. CalledFor(t, o, st, f.q)
    BY OpenedFacts DEF CalledFor
  <2> QED BY <1>0, <1>3, <2>1, <2>2, PushFrame
<1> HIDE DEF s
<1>5. Quiet(o, cl, s, NoCall, nr)
  <2>1. Suspended(o, s, Len(s) - 1)
    <3>1. Len(s) - 1 = Len(st) /\ (Len(st) = 0 \/ Len(st) \in 1..Len(st))
      BY <1>2
    <3> QED BY <1>2, <3>1 DEF Outside, Suspended
  <2>2. Len(s) > 0 /\ s[Len(s)].k = "cb"
    BY <1>2
  <2> QED BY <2>1, <2>2 DEF Quiet
<1>6. CallbacksOK(o, u, w, s)
  <2>1. \A l \in Levels : Drained(u, p, l) => l = o
    BY DEF OwnInv, Settled, CallbacksOK
  <2>2. \A n \in 1..Len(s) : s[n].k = "cb" => n = Len(s)
    BY <1>2 DEF Outside
  <2> QED BY <1>1, <2>1, <2>2 DEF CallbacksOK, Drained, Stashed
<1>7. PoolsOK(o, u, w)
  BY <1>1, OpenedFacts DEF OwnInv, PoolsOK
<1>8. Counted(w, s, h, rc)
  <2> SUFFICES ASSUME NEW j \in Items
               PROVE  /\ IsFiniteSet(Entries(w, j)) /\ IsFiniteSet(Callbacks(s, j))
                      /\ Cardinality(Entries(w, j)) + Cardinality(Callbacks(s, j)) =
                            IF j \in h THEN rc[j] + 1 ELSE 0
    BY DEF Counted
  <2>1. /\ Cardinality(Entries(p, j)) + Cardinality(Callbacks(st, j)) =
              IF j \in h THEN rc[j] + 1 ELSE 0
    BY <1>0 DEF Counted
  <2>2. IsFiniteSet(Entries(p, j))
    BY <1>0 DEF Counted
  <2>3. IsFiniteSet(Callbacks(st, j))
    BY <1>0 DEF Counted
  <2>4. p \in [Levels -> Seq(CleanupType)] /\ st \in Seq(FrameType)
    BY <1>0
  <2>5. /\ IsFiniteSet(Entries(w, j))
        /\ Cardinality(Entries(w, j)) \in Nat
        /\ e.i = j => Cardinality(Entries(p, j)) = Cardinality(Entries(w, j)) + 1
        /\ e.i # j => Cardinality(Entries(p, j)) = Cardinality(Entries(w, j))
    BY <2>2, <2>4, EntriesPop, Zenon
  <2>6. s = Append(st, f)
    BY DEF s
  <2>7. /\ IsFiniteSet(Callbacks(s, j))
        /\ Cardinality(Callbacks(st, j)) \in Nat
        /\ (f.k = "cb" /\ f.i = j) =>
              Cardinality(Callbacks(s, j)) = Cardinality(Callbacks(st, j)) + 1
        /\ ~(f.k = "cb" /\ f.i = j) =>
              Cardinality(Callbacks(s, j)) = Cardinality(Callbacks(st, j))
    BY <2>3, <2>4, <2>6, CallbacksAppend, Zenon
  <2> QED BY <2>1, <2>5, <2>7
<1>9. PendOK(t, o, sc, u, s, NoCall)
  BY DEF PendOK
<1>10. OwnInv(t, o, cl, sc, u, w, s, NoCall, nr, ra, h, rc)
  BY <1>4, <1>5, <1>6, <1>7, <1>8, <1>9 DEF OwnInv
<1> QED BY <1>10 DEF s


\* ... which is released when that returns.
LEMMA CallbackReturnOwn ==
    ASSUME NEW t, NEW o, NEW cl, NEW sc, NEW u, NEW p, NEW st, NEW nr,
           NEW ra, NEW h, NEW rc, OwnType(o, sc, u, p, st, ra, h, rc),
           OwnInv(t, o, cl, sc, u, p, st, NoCall, nr, ra, h, rc),
           st # <<>>, NEW f, f = st[Len(st)], f.k = "cb",
           NEW h2, NEW rc2, Released(f.i, h, rc, h2, rc2)
    PROVE  OwnInv(t, o, cl, sc, u, p, Pop1(st), NoCall, nr, ra, h2, rc2)
<1> DEFINE s == Pop1(st)
<1>0. /\ st \in Seq(FrameType) /\ rc \in [Items -> Nat]
      /\ FramesOK(t, o, u, p, st) /\ Counted(p, st, h, rc)
  BY DEF OwnType, OwnInv
<1>1. /\ s \in Seq(FrameType) /\ Len(st) \in Nat /\ Len(st) > 0
      /\ Len(s) = Len(st) - 1
      /\ \A n \in 1..(Len(st) - 1) : s[n] = st[n]
      /\ f \in FrameType
  BY <1>0, Pop1Facts
<1>2. f.i \in Items
  BY <1>1 DEF FrameType
<1> HIDE DEF s
<1>3. ~Settled(u, p, st)
  BY <1>1 DEF Settled
<1>4. Quiet(o, cl, st, NoCall, nr) /\ CallbacksOK(o, u, p, st)
  BY <1>3 DEF OwnInv
<1>5. \A n \in 1..Len(s) : n \in 1..Len(st) /\ n # Len(st) /\ s[n] = st[n]
  BY <1>1
<1>6. \A n \in 1..Len(s) : s[n].k # "cb"
  BY <1>4, <1>5 DEF CallbacksOK
<1>7. Trims(s, st)
  BY <1>0, <1>1, <1>4, <1>5, <1>6 DEF Trims, CallbacksOK, FramesOK, FrameOK
<1>8. FramesOK(t, o, u, p, s)
  BY <1>0, <1>1, <1>7, TrimFrames
<1>9. Quiet(o, cl, s, NoCall, nr)
  <2>1. ~Suspended(o, st, Len(st))
    BY <1>1 DEF Suspended
  <2>2. Suspended(o, st, Len(st) - 1)
    BY <1>4, <2>1 DEF Quiet
  <2>3. Suspended(o, s, Len(s))
    <3>1. Len(s) = 0 \/ Len(s) \in 1..(Len(st) - 1)
      BY <1>1
    <3> QED BY <1>1, <2>2, <3>1 DEF Suspended
  <2> QED BY <1>4, <2>3 DEF Quiet
<1>10. CallbacksOK(o, u, p, s)
  BY <1>4, <1>6 DEF CallbacksOK
<1>11. Counted(p, s, h2, rc2)
  <2>1. ASSUME NEW j \in Items
        PROVE  /\ IsFiniteSet(Entries(p, j)) /\ IsFiniteSet(Callbacks(s, j))
               /\ Cardinality(Entries(p, j)) + Cardinality(Callbacks(st, j)) =
                     Cardinality(Entries(p, j)) + Cardinality(Callbacks(s, j))
                     + (IF j = f.i THEN 1 ELSE 0)
    <3>1. IsFiniteSet(Entries(p, j)) /\ Cardinality(Entries(p, j)) \in Nat
      BY <1>0, FS_CardinalityType DEF Counted
    <3>2. /\ Callbacks(s, j) = {} /\ IsFiniteSet(Callbacks(s, j))
          /\ Cardinality(Callbacks(s, j)) = 0
      BY <1>6, NoCallbacks
    <3>3. CASE j = f.i
      <4>1. Callbacks(st, j) = {Len(st)}
        BY <1>1, <1>4, <3>3 DEF Callbacks, CallbacksOK
      <4>2. Cardinality(Callbacks(st, j)) = 1
        BY <4>1, FS_Singleton
      <4> QED BY <3>1, <3>2, <3>3, <4>2
    <3>4. CASE j # f.i
      <4>1. Callbacks(st, j) = {}
        BY <1>1, <1>4, <3>4 DEF Callbacks, CallbacksOK
      <4> QED BY <3>1, <3>2, <3>4, <4>1
    <3> QED BY <3>3, <3>4
  <2>2. OneLess(p, st, p, s, f.i)
    BY <2>1 DEF OneLess
  <2> QED BY <1>0, <1>2, <2>2, CountRelease
<1>12. PendOK(t, o, sc, u, s, NoCall)
  BY DEF PendOK
<1>13. OwnInv(t, o, cl, sc, u, p, s, NoCall, nr, ra, h2, rc2)
  BY <1>8, <1>9, <1>10, <1>11, <1>12 DEF OwnInv
<1> QED BY <1>13 DEF s

\* The pool is gone, and the one around it is the innermost one.
Outer(o) == CASE o = "s" -> "r" [] o = "r" -> "c" [] o = "c" -> "none"

LEMMA CloseOwn ==
    ASSUME NEW t, NEW o \in Levels, NEW cl, NEW sc, NEW u, NEW p, NEW st, NEW nr,
           NEW ra, NEW h, NEW rc, OwnType(o, sc, u, p, st, ra, h, rc),
           OwnInv(t, o, cl, sc, u, p, st, NoCall, nr, ra, h, rc),
           Outside(o, st), p[o] = <<>>, NEW dl,
           NEW v, v = [u EXCEPT ![o] = NULL],
           NEW ra2, ra2 = IF o = "r" THEN {} ELSE ra
    PROVE  OwnInv(t, Outer(o), dl, sc, v, p, st, NoCall, nr, ra2, h, rc)
<1>0. /\ u \in [Levels -> Items \cup {NULL}] /\ st \in Seq(FrameType)
      /\ FramesOK(t, o, u, p, st) /\ Counted(p, st, h, rc)
      /\ PoolsOK(o, u, p) /\ RanOK(o, u, ra)
  BY DEF OwnType, OwnInv
<1>1. v[o] = NULL /\ \A l \in Levels : l # o => v[l] = u[l]
  BY <1>0
<1>2. /\ o = "s" => Outer(o) = "r"
      /\ o = "r" => Outer(o) = "c"
      /\ o = "c" => Outer(o) = "none"
  BY DEF Outer
<1>3. /\ Levels \ Opened(Outer(o)) = (Levels \ Opened(o)) \cup {o}
      /\ o = "s" => Opened(Outer(o)) = {"c", "r"}
  BY <1>2, OpenedFacts DEF Levels
<1>4. FramesOK(t, Outer(o), v, p, st)
  <2>1. FramesOK(t, o, v, p, st)
    BY <1>0, <1>1, OutsideFrames
  <2>2. Outer(o) # "s"
    BY <1>2 DEF Levels
  <2>3. ASSUME NEW n \in 1..Len(st)
        PROVE  FrameOK(t, Outer(o), v, p, st[n])
    <3>1. FrameOK(t, o, v, p, st[n])
      BY <2>1 DEF FramesOK
    <3>2. st[n].q[2] \in Opened(Outer(o))
      BY <1>3 DEF Outside
    <3> QED BY <3>1, <3>2 DEF FrameOK
  <2> QED BY <2>2, <2>3 DEF FramesOK, Nested
<1>5. Settled(v, p, st)
  <2>1. \A l \in Levels : Drained(u, p, l) => l = o
    BY DEF OwnInv, Settled, CallbacksOK
  <2>2. \A l \in Levels : ~Drained(v, p, l)
    BY <1>1, <2>1 DEF Drained, Stashed
  <2> QED BY <2>2 DEF Settled, Outside
<1>6. PoolsOK(Outer(o), v, p)
  BY <1>0, <1>1, <1>3 DEF PoolsOK
<1>7. RanOK(Outer(o), v, ra2)
  <2>1. CASE o = "r"
    BY <2>1 DEF RanOK
  <2>2. CASE o = "c"
    <3>1. ra2 = {}
      BY <1>0, <2>2 DEF RanOK, ReqLevels
    <3> QED BY <3>1 DEF RanOK
  <2>3. CASE o = "s"
    <3>1. v["r"] = u["r"] /\ v["c"] = u["c"] /\ Outer(o) \in ReqLevels /\ ra2 = ra
      BY <1>1, <1>2, <2>3 DEF Levels, ReqLevels
    <3> QED BY <1>0, <3>1 DEF RanOK
  <2> QED BY <2>1, <2>2, <2>3 DEF Levels
<1>8. PendOK(t, Outer(o), sc, v, st, NoCall)
  BY DEF PendOK
<1> QED BY <1>0, <1>4, <1>5, <1>6, <1>7, <1>8 DEF OwnInv

\* httpd opens a pool inside the innermost one.
LEMMA OpenOwn ==
    ASSUME NEW t, NEW o, NEW l, NEW cl, NEW sc, NEW dsc, NEW u, NEW p, NEW st,
           NEW nr, NEW ra, NEW h, NEW rc, OwnType(o, sc, u, p, st, ra, h, rc),
           OwnInv(t, o, cl, sc, u, p, st, NoCall, nr, ra, h, rc),
           ~cl \/ o = "none",
           \/ o = "none" /\ l = "c"
           \/ o = "c" /\ l = "r"
           \/ o = "r" /\ l = "s",
           NEW ra2, ra2 = IF l = "r" THEN {} ELSE ra
    PROVE  OwnInv(t, l, cl, dsc, u, p, st, NoCall, nr, ra2, h, rc)
<1>0. /\ FramesOK(t, o, u, p, st) /\ Counted(p, st, h, rc)
      /\ PoolsOK(o, u, p) /\ RanOK(o, u, ra)
  BY DEF OwnInv
<1>1. Settled(u, p, st)
  BY DEF OwnInv, Quiet, Levels
<1>2. Opened(o) \subseteq Opened(l) /\ "s" \notin Opened(o)
  BY OpenedFacts
<1>3. FramesOK(t, l, u, p, st)
  <2>1. \A n \in 1..Len(st) : FrameOK(t, l, u, p, st[n])
    BY <1>0, <1>2 DEF FramesOK, FrameOK
  <2>2. \A n \in 1..Len(st) : st[n].q[2] # "s"
    BY <1>0, <1>2 DEF FramesOK, FrameOK
  <2> QED BY <2>1, <2>2 DEF FramesOK, Nested
<1>4. PoolsOK(l, u, p)
  BY <1>0, <1>2 DEF PoolsOK
<1>5. RanOK(l, u, ra2)
  BY <1>0 DEF RanOK, ReqLevels
<1>6. PendOK(t, l, dsc, u, st, NoCall)
  BY DEF PendOK
<1> QED BY <1>0, <1>1, <1>3, <1>4, <1>5, <1>6 DEF OwnInv

-----------------------------------------------------------------------------
(* The steps of the threads.                                               *)

\* No PerlInterpScope handler.
Pooled == "handler" \notin Scopes

\* The step leaves thread w alone.
Same(w) ==
    /\ open'[w] = open[w] /\ closing'[w] = closing[w] /\ scope'[w] = scope[w]
    /\ ud'[w] = ud[w] /\ pool'[w] = pool[w] /\ stack'[w] = stack[w]
    /\ pend'[w] = pend[w] /\ nreg'[w] = nreg[w] /\ ran'[w] = ran[w]
    /\ held'[w] = held[w]
    /\ \A i \in held[w] : refcnt'[i] = refcnt[i]

LEMMA SameInv ==
    ASSUME NEW w, ThreadInv(w), Same(w)
    PROVE  ThreadInv(w)'
<1>1. Counted(pool[w], stack[w], held[w], refcnt')
  BY DEF ThreadInv, OwnInv, Counted, Same
<1>2. OwnInv(w, open[w], closing[w], scope[w], ud[w], pool[w], stack[w], pend[w],
             nreg[w], ran[w], held[w], refcnt')
  BY <1>1 DEF ThreadInv, OwnInv
<1> QED BY <1>2 DEF ThreadInv, Same

\* The thread that takes the step has its invariant again, so all have.
LEMMA StashFrom ==
    ASSUME StashInv, SharedInv', NoPutback', NEW t \in Threads, ThreadInv(t)',
           \A w \in Threads : w # t => Same(w)
    PROVE  StashInv'
<1>1. ASSUME NEW w \in Threads PROVE ThreadInv(w)'
  <2>1. CASE w = t
    BY <2>1
  <2>2. CASE w # t
    BY <2>2, SameInv DEF StashInv
  <2> QED BY <2>1, <2>2
<1> QED BY <1>1 DEF StashInv

\* The types of a thread's state, from the type invariant.
LEMMA OwnTypes ==
    ASSUME SharedInv, NEW t \in Threads
    PROVE  /\ OwnType(open[t], scope[t], ud[t], pool[t], stack[t], ran[t],
                      held[t], refcnt)
           /\ ~InPool(t) => pend[t] = NoCall
           /\ InPool(t) => pend[t] \in [k : Calls, q : Records] /\ pend[t] # NoCall
<1>1. InterpTypeOK /\ TypeOK /\ Blocked
  BY SharedParts DEF Core
<1>2. refcnt \in [Items -> Nat]
  BY <1>1, InterpAssumption DEF InterpTypeOK
<1>3. OwnType(open[t], scope[t], ud[t], pool[t], stack[t], ran[t], held[t], refcnt)
  BY <1>1, <1>2 DEF InterpTypeOK, TypeOK, OwnType
<1>4. pend \in [Threads -> [k : Calls, q : Records] \cup {NoCall}]
  BY <1>1, BlockedFact
<1> QED BY <1>1, <1>3, <1>4 DEF Blocked

\* Without handler scope select looks at the userdata only.
LEMMA FoundIs ==
    ASSUME SharedInv, NoPutback, Pooled, NEW q \in Records
    PROVE  /\ ~HandlerScope(q)
           /\ Found(q) = IF ud[q[1]][StashPool(scope[q[1]], q[2])] # NULL
                         THEN ud[q[1]][StashPool(scope[q[1]], q[2])]
                         ELSE ud[q[1]]["c"]
<1>1. q[1] \in Threads /\ q[2] \in Levels /\ (IsRequest(q) => q[2] \in ReqLevels)
  BY DEF Records, IsRequest, Levels, ReqLevels
<1>2. scope[q[1]] \in [ReqLevels -> Scopes \cup {"none"}]
  BY <1>1, SharedParts DEF InterpTypeOK
<1>3. ~HandlerScope(q)
  BY <1>1, <1>2 DEF HandlerScope, Pooled
<1>4. ~(IsRequest(q) /\ rint[q[1]][q[2]] # NULL)
  BY <1>1 DEF NoPutback
<1> QED BY <1>3, <1>4, PoolForIs DEF Found

\* What the caller of select does to the thread.
Entered(t, q, base, i) ==
    \E f \in FrameType :
        /\ f.q = q /\ f.i = i /\ f.k \notin {"cb", "unsel", "putback"}
        /\ stack' = [stack EXCEPT ![t] = Append(base, f)]
        /\ rint' = rint
        /\ \A w \in Threads : w # t => nreg'[w] = nreg[w] /\ ran'[w] = ran[w]
        /\ \/ ran'[t] = ran[t]
           \/ /\ q[2] # "c" /\ scope[t][q[2]] \in {"request", "connection"}
              /\ ran'[t] = ran[t] \cup {<<scope[t][q[2]], i>>}

LEMMA EnterIs ==
    ASSUME SharedInv, Pooled, NEW t \in Threads, NEW q \in Records, q[1] = t,
           NEW kind \in Calls, NEW base \in Seq(FrameType), NEW i \in Items,
           NEW popped, Enter(t, q, kind, base, i, popped), ~putback'[i]
    PROVE  Entered(t, q, base, i)
<1> DEFINE k == IF kind = "filter" THEN "run" ELSE kind
           f == Frame(k, q, i)
<1>1. /\ f \in FrameType /\ f.q = q /\ f.i = i
      /\ f.k \notin {"cb", "unsel", "putback"}
  BY DEF Frame, FrameType, Calls
<1>2. stack' = [stack EXCEPT ![t] = Append(base, f)]
  BY DEF Enter
<1>3. rint' = rint
  BY DEF Enter
<1>4. \A w \in Threads : w # t => nreg'[w] = nreg[w]
  <2>1. nreg \in [Threads -> [ReqLevels -> Int]]
    BY SharedParts DEF InterpTypeOK
  <2>2. \/ nreg' = [nreg EXCEPT ![t][q[2]] = @ + 1]
        \/ nreg' = [nreg EXCEPT ![t][q[2]] = @ - 1]
        \/ nreg' = nreg
    BY DEF Enter
  <2> QED BY <2>1, <2>2
<1>5. /\ \A w \in Threads : w # t => ran'[w] = ran[w]
      /\ \/ ran'[t] = ran[t]
         \/ /\ q[2] # "c" /\ scope[t][q[2]] \in {"request", "connection"}
            /\ ran'[t] = ran[t] \cup {<<scope[t][q[2]], i>>}
  <2>1. ran \in [Threads -> SUBSET (Scopes \X Items)]
    BY SharedParts DEF InterpTypeOK
  <2>2. \/ ran' = ran
        \/ /\ q[2] # "c" /\ scope[t][q[2]] \in {"request", "connection"}
           /\ ran' = [ran EXCEPT ![t] = @ \cup {<<scope[t][q[2]], i>>}]
    BY DEF Enter, IsRequest
  <2> QED BY <2>1, <2>2
<1> HIDE DEF f
<1> QED BY <1>1, <1>2, <1>3, <1>4, <1>5 DEF Entered


\* The state of thread t, had it the frames st and been in the call pe.
OwnWith(t, st, pe) ==
    /\ OwnInv(t, open[t], closing[t], scope[t], ud[t], pool[t], st, pe, nreg[t],
              ran[t], held[t], refcnt)
    /\ OwnType(open[t], scope[t], ud[t], pool[t], st, ran[t], held[t], refcnt)
    /\ Settled(ud[t], pool[t], st)

\* The record has no interpreter and gets the one that is popped.
LEMMA PoppedStash ==
    ASSUME StashInv, SharedInv', Pooled, NEW t \in Threads, NEW q \in Records,
           NEW kind \in Calls, NEW base \in Seq(FrameType), NEW pe,
           OwnWith(t, base, pe), CalledFor(t, open[t], base, q),
           ud[t][StashPool(scope[t], q[2])] = NULL, ud[t]["c"] = NULL,
           \/ PopIdle(t, 1)
           \/ PopGrow(t, 1)
           \/ ResumeTake(t, 1),
           Selected(t, q, kind, base, Popped(t)),
           UNCHANGED <<refcnt, open, closing, scope>>,
           pend'[t] = NoCall, \A w \in Threads : w # t => pend'[w] = pend[w]
    PROVE  StashInv'
<1> DEFINE i == Popped(t)
           m == StashPool(scope[t], q[2])
           e == [k |-> "userdata", i |-> i]
<1>0. SharedInv /\ NoPutback /\ Core /\ q[1] = t /\ q[2] \in Levels
  BY SharedParts DEF StashInv, CalledFor, Records
<1>1. /\ i \in Items /\ i \notin busy
      /\ \A w \in Threads : i \notin held[w]
      /\ busy' = busy \cup {i}
      /\ held' = [held EXCEPT ![t] = @ \cup {i}]
  BY <1>0, TakeEffect
<1> HIDE DEF i
<1>2. /\ ud' = [ud EXCEPT ![t][m] = i]
      /\ pool' = [pool EXCEPT ![t][m] = Append(pool[t][m], e)]
      /\ UNCHANGED <<request, putback>>
      /\ Enter(t, q, kind, base, i, TRUE)
  BY <1>0, FoundIs, PoolForIs DEF Selected, i
<1>3. putback'[i] = FALSE
  BY <1>0, <1>1, <1>2 DEF NoPutback, SharedInv, InterpTypeOK
<1>4. PICK f \in FrameType :
         /\ f.q = q /\ f.i = i /\ f.k \notin {"cb", "unsel", "putback"}
         /\ stack' = [stack EXCEPT ![t] = Append(base, f)]
         /\ rint' = rint
         /\ \A w \in Threads : w # t => nreg'[w] = nreg[w] /\ ran'[w] = ran[w]
         /\ \/ ran'[t] = ran[t]
            \/ /\ q[2] # "c" /\ scope[t][q[2]] \in {"request", "connection"}
               /\ ran'[t] = ran[t] \cup {<<scope[t][q[2]], i>>}
  <2>1. SharedInv /\ q[1] = t /\ i \in Items /\ ~putback'[i]
    BY <1>0, <1>1, <1>3
  <2>2. Enter(t, q, kind, base, i, TRUE)
    BY <1>2
  <2>3. Entered(t, q, base, i)
    BY <2>1, <2>2, EnterIs
  <2> QED BY <2>3 DEF Entered
<1>5. /\ ud \in [Threads -> [Levels -> Items \cup {NULL}]]
      /\ pool \in [Threads -> [Levels -> Seq(CleanupType)]]
      /\ stack \in [Threads -> Seq(FrameType)]
      /\ held \in [Threads -> SUBSET Items]
      /\ m \in Levels
  BY <1>0, SharedParts, StashPoolFacts DEF InterpTypeOK, TypeOK
<1> HIDE DEF m, e
<1>6. /\ ud'[t] = [ud[t] EXCEPT ![m] = i]
      /\ pool'[t] = [pool[t] EXCEPT ![m] = Append(pool[t][m], e)]
      /\ stack'[t] = Append(base, f)
      /\ held'[t] = held[t] \cup {i}
  BY <1>1, <1>2, <1>4, <1>5
<1>7. \A w \in Threads : w # t => Same(w)
  BY <1>1, <1>2, <1>4, <1>5 DEF Same
<1>8. NoPutback'
  <2>1. \A j \in Items : j \notin busy' => refcnt'[j] = 0
    BY <1>0, <1>1 DEF NoPutback
  <2> QED BY <1>0, <1>2, <1>4, <2>1 DEF NoPutback
<1>9. i \notin held[t] /\ refcnt[i] = 0
  BY <1>0, <1>1 DEF NoPutback
<1>10. /\ OwnType(open[t], scope[t], ud[t], pool[t], base, ran[t], held[t], refcnt)
       /\ OwnInv(t, open[t], closing[t], scope[t], ud[t], pool[t], base, pe,
                 nreg[t], ran[t], held[t], refcnt)
       /\ Settled(ud[t], pool[t], base)
       /\ CalledFor(t, open[t], base, f.q)
  BY <1>4 DEF OwnWith
<1>11. /\ StashPool(scope[t], f.q[2]) = m /\ f.i = i
       /\ e = [k |-> "userdata", i |-> f.i]
  BY <1>4 DEF m, e
<1>12. OwnInv(t, open[t], closing[t], scope[t], ud'[t], pool'[t], Append(base, f),
              NoCall, nreg'[t], ran'[t], held[t] \cup {f.i}, refcnt)
  <2>1. /\ ud'[t] = [ud[t] EXCEPT ![StashPool(scope[t], f.q[2])] = f.i]
        /\ pool'[t] = [pool[t] EXCEPT ![StashPool(scope[t], f.q[2])] =
                          Append(pool[t][StashPool(scope[t], f.q[2])],
                                 [k |-> "userdata", i |-> f.i])]
    BY <1>6, <1>11
  <2>2. /\ f.i \notin held[t] /\ refcnt[f.i] = 0
        /\ ud[t][StashPool(scope[t], f.q[2])] = NULL /\ ud[t]["c"] = NULL
    BY <1>4, <1>9
  <2>3. \/ ran'[t] = ran[t]
        \/ /\ f.q[2] # "c" /\ scope[t][f.q[2]] \in {"request", "connection"}
           /\ ran'[t] = ran[t] \cup {<<scope[t][f.q[2]], f.i>>}
    BY <1>4
  <2>4. f \in FrameType /\ f.k \notin {"cb", "unsel", "putback"}
    BY <1>4
  <2> QED BY ONLY <1>10, <2>1, <2>2, <2>3, <2>4, PoppedOwn
<1>13. ThreadInv(t)'
  BY <1>6, <1>11, <1>12 DEF ThreadInv
<1> QED BY <1>7, <1>8, <1>13, StashFrom

\* The whole of select, on top of the frames base.
LEMMA SelectStash ==
    ASSUME StashInv, SharedInv', Pooled, NEW t \in Threads, NEW q \in Records,
           NEW kind \in Calls, NEW base \in Seq(FrameType), ~InPool(t),
           OwnWith(t, base, NoCall), CalledFor(t, open[t], base, q),
           Select(t, q, kind, base),
           UNCHANGED <<refcnt, open, closing, scope>>
    PROVE  StashInv'
<1>0. SharedInv /\ NoPutback /\ q[1] = t /\ q[2] \in Levels /\ pend[t] = NoCall
  BY OwnTypes DEF StashInv, CalledFor, Records
<1>1. Found(q) = IF ud[t][StashPool(scope[t], q[2])] # NULL
                 THEN ud[t][StashPool(scope[t], q[2])] ELSE ud[t]["c"]
  BY <1>0, FoundIs
<1>2. CASE /\ Found(q) # NULL
           /\ UNCHANGED <<poolVars, request, putback, ud, pool, pend>>
           /\ Enter(t, q, kind, base, Found(q), FALSE)
  <2> DEFINE i == Found(q)
  <2>1. i \in Items
    BY <1>0, <1>2, FoundType, SharedParts
  <2> HIDE DEF i
  <2>2. putback'[i] = FALSE
    BY <1>0, <1>2, <2>1 DEF NoPutback, SharedInv, InterpTypeOK
  <2>3. PICK f \in FrameType :
         /\ f.q = q /\ f.i = i /\ f.k \notin {"cb", "unsel", "putback"}
         /\ stack' = [stack EXCEPT ![t] = Append(base, f)]
         /\ rint' = rint
         /\ \A w \in Threads : w # t => nreg'[w] = nreg[w] /\ ran'[w] = ran[w]
         /\ \/ ran'[t] = ran[t]
            \/ /\ q[2] # "c" /\ scope[t][q[2]] \in {"request", "connection"}
               /\ ran'[t] = ran[t] \cup {<<scope[t][q[2]], i>>}
    <3>1. Enter(t, q, kind, base, i, FALSE)
      BY <1>2 DEF i
    <3>2. SharedInv /\ q[1] = t /\ i \in Items /\ ~putback'[i]
      BY <1>0, <2>1, <2>2
    <3>3. Entered(t, q, base, i)
      BY <3>1, <3>2, EnterIs
    <3> QED BY <3>3 DEF Entered
  <2>4. stack'[t] = Append(base, f) /\ \A w \in Threads : w # t => stack'[w] = stack[w]
    BY <1>0, <2>3, SharedParts DEF InterpTypeOK
  <2>5. \A w \in Threads : w # t => Same(w)
    BY <1>2, <2>3, <2>4 DEF Same, poolVars
  <2>6. NoPutback'
    BY <1>0, <1>2, <2>3 DEF NoPutback, poolVars
  <2>7. f.i = IF ud[t][StashPool(scope[t], f.q[2])] # NULL
              THEN ud[t][StashPool(scope[t], f.q[2])] ELSE ud[t]["c"]
    BY <1>1, <2>3 DEF i
  <2>8. OwnInv(t, open[t], closing[t], scope[t], ud[t], pool[t], Append(base, f),
               NoCall, nreg'[t], ran'[t], held[t], refcnt)
    <3>1. /\ OwnType(open[t], scope[t], ud[t], pool[t], base, ran[t], held[t], refcnt)
          /\ OwnInv(t, open[t], closing[t], scope[t], ud[t], pool[t], base, NoCall,
                    nreg[t], ran[t], held[t], refcnt)
          /\ Settled(ud[t], pool[t], base)
          /\ CalledFor(t, open[t], base, f.q)
      BY <2>3 DEF OwnWith
    <3>2. \/ ran'[t] = ran[t]
          \/ /\ f.q[2] # "c" /\ scope[t][f.q[2]] \in {"request", "connection"}
             /\ ran'[t] = ran[t] \cup {<<scope[t][f.q[2]], f.i>>}
      BY <2>3
    <3>3. f \in FrameType /\ f.k \notin {"cb", "unsel", "putback"}
      BY <2>3
    <3> QED BY <2>7, <3>1, <3>2, <3>3, FoundOwn
  <2>9. ThreadInv(t)'
    BY <1>0, <1>2, <2>4, <2>8 DEF ThreadInv, poolVars
  <2> QED BY <2>5, <2>6, <2>9, StashFrom
<1>3. CASE /\ Found(q) = NULL
           /\ PopIdle(t, 1) \/ PopGrow(t, 1)
           /\ Selected(t, q, kind, base, Popped(t))
           /\ UNCHANGED pend
  <2>1. ud[t][StashPool(scope[t], q[2])] = NULL /\ ud[t]["c"] = NULL
    BY <1>1, <1>3
  <2> QED BY <1>0, <1>3, <2>1, PoppedStash
<1>4. CASE /\ Found(q) = NULL
           /\ PopBlock(t)
           /\ pend' = [pend EXCEPT ![t] = [k |-> kind, q |-> q]]
           /\ stack' = [stack EXCEPT ![t] = base]
           /\ UNCHANGED <<request, putback, ud, pool, rcfgVars, ran>>
  <2> DEFINE pe == [k |-> kind, q |-> q]
  <2>1. /\ stack \in [Threads -> Seq(FrameType)]
        /\ pend \in [Threads -> [k : Calls, q : Records] \cup {NoCall}]
    BY <1>0, SharedParts DEF InterpTypeOK
  <2>2. /\ pend'[t] = pe /\ stack'[t] = base /\ pe.q = q
        /\ \A w \in Threads : w # t => pend'[w] = pend[w] /\ stack'[w] = stack[w]
    BY <1>4, <2>1
  <2> HIDE DEF pe
  <2>3. UNCHANGED <<held, busy>>
    BY <1>4 DEF PopBlock
  <2>4. \A w \in Threads : w # t => Same(w)
    BY <1>4, <2>2, <2>3 DEF Same, rcfgVars
  <2>5. NoPutback'
    BY <1>0, <1>4, <2>3 DEF NoPutback, rcfgVars
  <2>6. OwnInv(t, open[t], closing[t], scope[t], ud[t], pool[t], base, pe, nreg[t],
               ran[t], held[t], refcnt)
    <3>1. /\ OwnInv(t, open[t], closing[t], scope[t], ud[t], pool[t], base, NoCall,
                    nreg[t], ran[t], held[t], refcnt)
          /\ Settled(ud[t], pool[t], base)
          /\ CalledFor(t, open[t], base, pe.q)
      BY <2>2 DEF OwnWith
    <3>2. ud[t][StashPool(scope[t], pe.q[2])] = NULL /\ ud[t]["c"] = NULL
      BY <1>1, <1>4, <2>2
    <3> QED BY <3>1, <3>2, BlockOwn
  <2>7. ThreadInv(t)'
    BY <1>4, <2>2, <2>3, <2>6 DEF ThreadInv, rcfgVars
  <2> QED BY <2>4, <2>5, <2>7, StashFrom
<1> QED BY <1>2, <1>3, <1>4 DEF Select

-----------------------------------------------------------------------------
(* When a thread's state is settled, and which frames it goes on with.     *)

\* Only a pool's own cleanups run while there is stale userdata.
LEMMA SettledUnless ==
    ASSUME StashInv, NEW t \in Threads
    PROVE  \/ Settled(ud[t], pool[t], stack[t])
           \/ /\ closing[t] /\ pend[t] = NoCall /\ open[t] \in Levels
              /\ open[t] \in ReqLevels => nreg[t][open[t]] = 0
              /\ \/ stack[t] = <<>>
                 \/ Top(t).k = "cb"
                 \/ open[t] = "s" /\ Top(t).k = "run" /\ Top(t).q = <<t, "r">>
<1>1. /\ FramesOK(t, open[t], ud[t], pool[t], stack[t])
      /\ \/ Settled(ud[t], pool[t], stack[t])
         \/ Quiet(open[t], closing[t], stack[t], pend[t], nreg[t])
  BY DEF StashInv, ThreadInv, OwnInv
<1>2. stack[t] \in Seq(FrameType)
  BY OwnTypes DEF StashInv, OwnType
<1>3. CASE Quiet(open[t], closing[t], stack[t], pend[t], nreg[t])
  <2>1. \/ stack[t] = <<>>
        \/ Top(t).k = "cb"
        \/ open[t] = "s" /\ Top(t).k = "run" /\ Top(t).q[2] = "r"
    BY <1>2, <1>3 DEF Quiet, Suspended, Top
  <2>2. CASE stack[t] # <<>>
    <3>1. Len(stack[t]) \in 1..Len(stack[t]) /\ Top(t) \in FrameType
      BY <1>2, <2>2, Pop1Facts DEF Top
    <3>2. Top(t).q[1] = t /\ Top(t).q \in Records
      BY <1>1, <3>1 DEF FramesOK, FrameOK, Top, FrameType
    <3>3. Top(t).q[2] = "r" => Top(t).q = <<t, "r">>
      BY <3>2 DEF Records
    <3> QED BY <1>3, <2>1, <3>3 DEF Quiet
  <2> QED BY <1>3, <2>1, <2>2 DEF Quiet
<1> QED BY <1>1, <1>3

\* The code that a thread runs has not been interrupted by the destruction of
\* a pool.
LEMMA ActiveSettled ==
    ASSUME StashInv, NEW t \in Threads, Active(t)
    PROVE  Settled(ud[t], pool[t], stack[t])
<1>1. ~InPool(t) /\ stack[t] # <<>> /\ Top(t).k = "run"
  BY DEF Active, InPerl, TopIs, Top
<1>2. (open[t] = "s" /\ Top(t).q = <<t, "r">>) => ~closing[t]
  BY <1>1 DEF Active, InHttpd, TopIs, Top
<1> QED BY <1>1, <1>2, SettledUnless

\* Control is in httpd: the innermost pool can be destroyed.
LEMMA HttpdOutside ==
    ASSUME StashInv, NEW t \in Threads, InHttpd(t), open[t] \in Levels
    PROVE  Outside(open[t], stack[t])
<1>1. stack[t] \in Seq(FrameType)
  BY OwnTypes DEF StashInv, OwnType
<1>2. Suspended(open[t], stack[t], Len(stack[t]))
  BY <1>1 DEF InHttpd, Suspended, TopIs, Top
<1>3. /\ FramesOK(t, open[t], ud[t], pool[t], stack[t])
      /\ \/ CallbacksOK(open[t], ud[t], pool[t], stack[t])
         \/ Settled(ud[t], pool[t], stack[t])
  BY DEF StashInv, ThreadInv, OwnInv
<1> QED BY <1>1, <1>2, <1>3, SuspendedOutside

\* The thread goes on with all its frames, ...
LEMMA TrimsSelf ==
    ASSUME NEW t, NEW o, NEW u, NEW p, NEW st \in Seq(FrameType),
           FramesOK(t, o, u, p, st), Settled(u, p, st)
    PROVE  Trims(st, st)
BY DEF Trims, FramesOK, FrameOK, Settled

\* ... with all but the newest, ...
LEMMA TrimsPop ==
    ASSUME NEW t, NEW o, NEW u, NEW p, NEW st \in Seq(FrameType), st # <<>>,
           FramesOK(t, o, u, p, st), Settled(u, p, st)
    PROVE  Pop1(st) \in Seq(FrameType) /\ Trims(Pop1(st), st)
<1>1. /\ Pop1(st) \in Seq(FrameType)
      /\ Len(st) \in Nat /\ Len(st) > 0 /\ Len(Pop1(st)) = Len(st) - 1
      /\ \A n \in 1..(Len(st) - 1) : Pop1(st)[n] = st[n]
  BY Pop1Facts
<1>2. Trims(st, st)
  BY TrimsSelf
<1>3. 1..Len(Pop1(st)) \subseteq 1..Len(st)
  BY <1>1
<1> QED BY <1>1, <1>2, <1>3 DEF Trims

\* ... or the newest is at another point of its code.
LEMMA TrimsNext ==
    ASSUME NEW t, NEW o, NEW u, NEW p, NEW st \in Seq(FrameType), st # <<>>,
           FramesOK(t, o, u, p, st), Settled(u, p, st),
           NEW k \in {"finish", "end", "reset", "flush"},
           NEW base,
           base = Append(Pop1(st), [st[Len(st)] EXCEPT !.k = k])
    PROVE  base \in Seq(FrameType) /\ Trims(base, st)
<1> DEFINE g == [st[Len(st)] EXCEPT !.k = k]
<1>1. /\ Pop1(st) \in Seq(FrameType)
      /\ Len(st) \in Nat /\ Len(st) > 0 /\ Len(Pop1(st)) = Len(st) - 1
      /\ \A n \in 1..(Len(st) - 1) : Pop1(st)[n] = st[n]
      /\ st[Len(st)] \in FrameType
  BY Pop1Facts
<1>2. g \in FrameType /\ g.q = st[Len(st)].q /\ g.i = st[Len(st)].i /\ g.k = k
  BY <1>1 DEF FrameType
<1> HIDE DEF g
<1>3. /\ base \in Seq(FrameType) /\ Len(base) = Len(Pop1(st)) + 1
      /\ \A n \in 1..Len(Pop1(st)) : base[n] = Pop1(st)[n]
      /\ base[Len(Pop1(st)) + 1] = g
  <2>1. base = Append(Pop1(st), g)
    BY DEF g
  <2> QED BY <1>1, <1>2, <2>1, AppendFacts
<1>4. Trims(st, st)
  BY TrimsSelf
<1>5. ASSUME NEW n \in 1..Len(base)
      PROVE  /\ base[n].q = st[n].q /\ base[n].i = st[n].i
             /\ base[n].k \notin {"cb", "unsel", "putback"}
             /\ st[n].k # "cb"
  <2>1. n \in 1..Len(st)
    BY <1>1, <1>3
  <2>2. st[n].k \notin {"cb", "unsel", "putback"}
    BY <1>4, <2>1 DEF Trims
  <2>3. CASE n = Len(st)
    BY <1>1, <1>2, <1>3, <2>2, <2>3
  <2>4. CASE n # Len(st)
    <3>1. n \in 1..(Len(st) - 1)
      BY <1>1, <2>1, <2>4
    <3>2. base[n] = st[n]
      BY <1>1, <1>3, <3>1
    <3> QED BY <2>2, <3>2
  <2> QED BY <2>3, <2>4
<1> QED BY <1>1, <1>3, <1>5 DEF Trims

\* Code of the innermost record or of the connection may always run, ...
LEMMA CalledOpen ==
    ASSUME NEW t, NEW o \in Levels, NEW st
    PROVE  CalledFor(t, o, st, <<t, o>>) /\ CalledFor(t, o, st, <<t, "c">>)
BY OpenedFacts DEF CalledFor, Levels

\* ... and so may code of the record that the newest frame belongs to.
LEMMA CalledTop ==
    ASSUME NEW t, NEW o, NEW u, NEW p, NEW st \in Seq(FrameType), st # <<>>,
           FramesOK(t, o, u, p, st), NEW base \in Seq(FrameType), Trims(base, st)
    PROVE  CalledFor(t, o, base, st[Len(st)].q)
<1>1. Len(st) \in Nat /\ Len(st) \in 1..Len(st) /\ Len(base) \in Nat
      /\ Len(base) <= Len(st)
  BY DEF Trims
<1>2. FrameOK(t, o, u, p, st[Len(st)])
  BY <1>1 DEF FramesOK
<1>3. ASSUME o = "s", st[Len(st)].q[2] = "r", NEW n \in 1..Len(base)
      PROVE  base[n].q[2] # "s"
  <2>1. base[n].q = st[n].q
    BY DEF Trims
  <2>2. CASE n = Len(st)
    BY <1>3, <2>1, <2>2
  <2>3. CASE n # Len(st)
    <3>1. n \in 1..Len(st) /\ n < Len(st)
      BY <1>1, <2>3
    <3> QED BY <1>1, <1>3, <2>1, <3>1 DEF FramesOK, Nested
  <2> QED BY <2>2, <2>3
<1> QED BY <1>2, <1>3 DEF CalledFor, FrameOK

\* The thread, had it the frames base.
LEMMA BaseOwn ==
    ASSUME StashInv, NEW t \in Threads, ~InPool(t),
           Settled(ud[t], pool[t], stack[t]),
           NEW base \in Seq(FrameType), Trims(base, stack[t])
    PROVE  OwnWith(t, base, NoCall)
<1>1. /\ OwnType(open[t], scope[t], ud[t], pool[t], stack[t], ran[t], held[t], refcnt)
      /\ pend[t] = NoCall
  BY OwnTypes DEF StashInv
<1>2. OwnInv(t, open[t], closing[t], scope[t], ud[t], pool[t], stack[t], NoCall,
             nreg[t], ran[t], held[t], refcnt)
  BY <1>1 DEF StashInv, ThreadInv
<1>3. /\ OwnInv(t, open[t], closing[t], scope[t], ud[t], pool[t], base, NoCall,
                nreg[t], ran[t], held[t], refcnt)
      /\ OwnType(open[t], scope[t], ud[t], pool[t], base, ran[t], held[t], refcnt)
      /\ Settled(ud[t], pool[t], base)
  BY <1>1, <1>2, TrimOwn
<1> QED BY <1>3 DEF OwnWith

\* What the lemmas above need to know of a thread's frames.
LEMMA ThreadFrames ==
    ASSUME StashInv, NEW t \in Threads
    PROVE  /\ stack[t] \in Seq(FrameType) /\ open[t] \in Levels \cup {"none"}
           /\ FramesOK(t, open[t], ud[t], pool[t], stack[t])
           /\ stack[t] # <<>> => /\ Top(t) = stack[t][Len(stack[t])]
                                 /\ Top(t) \in FrameType
                                 /\ FrameOK(t, open[t], ud[t], pool[t], Top(t))
<1>1. /\ stack[t] \in Seq(FrameType) /\ open[t] \in Levels \cup {"none"}
      /\ FramesOK(t, open[t], ud[t], pool[t], stack[t])
  BY OwnTypes DEF StashInv, ThreadInv, OwnInv, OwnType
<1>2. stack[t] # <<>> => Len(stack[t]) \in 1..Len(stack[t])
  BY <1>1
<1> QED BY <1>1, <1>2 DEF FramesOK, Top


-----------------------------------------------------------------------------
(* The actions.                                                            *)

\* A step that only goes on with older frames.
LEMMA FrameStash ==
    ASSUME StashInv, SharedInv', NEW t \in Threads, ~InPool(t),
           Settled(ud[t], pool[t], stack[t]),
           NEW base \in Seq(FrameType), Trims(base, stack[t]),
           stack' = [stack EXCEPT ![t] = base],
           UNCHANGED <<poolVars, interpVars, poolsVars, nreg, pend, ran>>,
           \A w \in Threads, l \in ReqLevels : rint'[w][l] = NULL
    PROVE  StashInv'
<1>1. OwnWith(t, base, NoCall)
  BY BaseOwn
<1>2. stack \in [Threads -> Seq(FrameType)] /\ pend[t] = NoCall
  BY SharedParts, OwnTypes DEF StashInv, InterpTypeOK
<1>3. stack'[t] = base /\ \A w \in Threads : w # t => stack'[w] = stack[w]
  BY <1>2
<1>4. ThreadInv(t)'
  BY <1>1, <1>2, <1>3 DEF OwnWith, ThreadInv, poolVars, interpVars, poolsVars
<1>5. \A w \in Threads : w # t => Same(w)
  BY <1>3 DEF Same, poolVars, interpVars, poolsVars
<1>6. NoPutback'
  BY DEF StashInv, NoPutback, poolVars, interpVars
<1> QED BY <1>4, <1>5, <1>6, StashFrom

\* An interpreter that nothing is to put back is not put back.
LEMMA NotPutback ==
    ASSUME StashInv, NEW t \in Threads, stack[t] # <<>>
    PROVE  Top(t).i \in Items /\ ~putback[Top(t).i]
<1>1. Top(t).i \in Items
  BY ThreadFrames DEF FrameType
<1> QED BY <1>1 DEF StashInv, NoPutback

\* rcfg->interp stays unset.
LEMMA NoRcfgInterp ==
    ASSUME StashInv, rint' = rint
    PROVE  \A w \in Threads, l \in ReqLevels : rint'[w][l] = NULL
BY DEF StashInv, NoPutback

\* httpd runs handlers or filters of a record.
LEMMA HttpdSelect ==
    ASSUME StashInv, SharedInv', Pooled, NEW t \in Threads, ~InPool(t),
           Settled(ud[t], pool[t], stack[t]),
           NEW l \in Levels, open[t] \in Levels, l \in {"c", open[t]},
           NEW kind \in Calls, Select(t, <<t, l>>, kind, stack[t]),
           UNCHANGED <<refcnt, open, closing, scope>>
    PROVE  StashInv'
<1>1. stack[t] \in Seq(FrameType) /\ Trims(stack[t], stack[t])
  BY ThreadFrames, TrimsSelf
<1>2. OwnWith(t, stack[t], NoCall)
  BY <1>1, BaseOwn
<1>3. CalledFor(t, open[t], stack[t], <<t, l>>)
  BY CalledOpen
<1>4. <<t, l>> \in Records
  BY DEF Records
<1> QED BY <1>1, <1>2, <1>3, <1>4, SelectStash

\* A frame on top of which handlers of its own record are run.
LEMMA TopSelect ==
    ASSUME StashInv, SharedInv', Pooled, NEW t \in Threads, ~InPool(t),
           Settled(ud[t], pool[t], stack[t]), stack[t] # <<>>,
           NEW base \in Seq(FrameType), Trims(base, stack[t]),
           NEW kind \in Calls, Select(t, Top(t).q, kind, base),
           UNCHANGED <<refcnt, open, closing, scope>>
    PROVE  StashInv'
<1>1. OwnWith(t, base, NoCall)
  BY BaseOwn
<1>2. CalledFor(t, open[t], base, Top(t).q)
  BY ThreadFrames, CalledTop
<1>3. Top(t).q \in Records
  BY ThreadFrames DEF FrameType
<1> QED BY <1>1, <1>2, <1>3, SelectStash

LEMMA PhaseStash ==
    ASSUME StashInv, SharedInv', Pooled, NEW t \in Threads,
           \/ RunPhase(t)
           \/ Response(t)
           \/ RequestCleanup(t)
           \/ RunFilter(t)
    PROVE  StashInv'
<1>0. open[t] \in Levels \cup {"none"}
  BY ThreadFrames
<1>1. CASE RunPhase(t) \/ Response(t) \/ RequestCleanup(t)
  <2>1. /\ ~InPool(t) /\ open[t] \in Levels
        /\ UNCHANGED <<refcnt, open, closing, scope>>
    BY <1>0, <1>1 DEF RunPhase, Response, RequestCleanup, InHttpd, Levels, ReqLevels
  <2>2. Settled(ud[t], pool[t], stack[t])
    <3>1. ~closing[t] \/ (open[t] \in ReqLevels /\ nreg[t][open[t]] # 0)
      BY <1>1 DEF RunPhase, Response, RequestCleanup
    <3> QED BY <3>1, SettledUnless
  <2>3. PICK kind \in Calls : Select(t, <<t, open[t]>>, kind, stack[t])
    <3>1. Responses \subseteq Calls /\ "run" \in Calls /\ "clean" \in Calls
      BY InterpAssumption DEF Calls
    <3> QED BY <1>1, <3>1 DEF RunPhase, Response, RequestCleanup
  <2>4. open[t] \in {"c", open[t]}
    OBVIOUS
  <2> QED BY <2>1, <2>2, <2>3, <2>4, HttpdSelect
<1>2. CASE RunFilter(t)
  <2>1. /\ ~InPool(t) /\ open[t] \in Levels
        /\ UNCHANGED <<refcnt, open, closing, scope>>
    BY <1>0, <1>2 DEF RunFilter, InHttpd, Active, InPerl
  <2>2. Settled(ud[t], pool[t], stack[t])
    <3>1. \/ ~closing[t]
          \/ Active(t)
          \/ stack[t] # <<>> /\ Top(t).k \in {"finish", "flush"}
      BY <1>2 DEF RunFilter, TopIs, Top
    <3> QED BY <3>1, SettledUnless, ActiveSettled
  <2>3. PICK l \in {"c", open[t]} : Select(t, <<t, l>>, "filter", stack[t])
    BY <1>2 DEF RunFilter
  <2>4. l \in Levels /\ "filter" \in Calls
    BY <2>1, <2>3 DEF Levels, Calls
  <2> QED BY <2>1, <2>2, <2>3, <2>4, HttpdSelect
<1> QED BY <1>1, <1>2

LEMMA ResponseRunStash ==
    ASSUME StashInv, SharedInv', Pooled, NEW t \in Threads, ResponseRun(t)
    PROVE  StashInv'
<1> DEFINE next == IF Top(t).k = "modperl" THEN "finish" ELSE "end"
           base == Append(Pop1(stack[t]), [Top(t) EXCEPT !.k = next])
<1>1. /\ ~InPool(t) /\ stack[t] # <<>> /\ Top(t).k \in {"modperl", "perl-script"}
      /\ UNCHANGED <<refcnt, open, closing, scope>>
  BY DEF ResponseRun, TopIs, Top
<1>2. Settled(ud[t], pool[t], stack[t])
  BY <1>1, SettledUnless
<1>3. next \in {"finish", "end", "reset", "flush"}
  OBVIOUS
<1> HIDE DEF next
<1>4. base \in Seq(FrameType) /\ Trims(base, stack[t])
  <2>1. base = Append(Pop1(stack[t]), [stack[t][Len(stack[t])] EXCEPT !.k = next])
    BY DEF Top
  <2> HIDE DEF base
  <2>2. /\ stack[t] \in Seq(FrameType)
        /\ FramesOK(t, open[t], ud[t], pool[t], stack[t])
    BY ThreadFrames
  <2> QED BY <1>1, <1>2, <1>3, <2>1, <2>2, TrimsNext
<1>5. \/ Select(t, Top(t).q, "run", base)
      \/ /\ stack' = [stack EXCEPT ![t] = base]
         /\ UNCHANGED <<poolVars, request, putback, ud, pool, rcfgVars, pend, ran>>
  BY DEF ResponseRun, next
<1> HIDE DEF base
<1>6. CASE Select(t, Top(t).q, "run", base)
  <2>1. "run" \in Calls
    BY DEF Calls
  <2> QED BY <1>1, <1>2, <1>4, <1>6, <2>1, TopSelect
<1>7. CASE /\ stack' = [stack EXCEPT ![t] = base]
           /\ UNCHANGED <<poolVars, request, putback, ud, pool, rcfgVars, pend, ran>>
  <2>1. UNCHANGED <<poolVars, interpVars, poolsVars, nreg, pend, ran>> /\ rint' = rint
    BY <1>1, <1>7 DEF interpVars, poolsVars, rcfgVars
  <2>2. \A w \in Threads, l \in ReqLevels : rint'[w][l] = NULL
    BY <2>1, NoRcfgInterp
  <2> QED BY <1>1, <1>2, <1>4, <1>7, <2>1, <2>2, FrameStash
<1> QED BY <1>5, <1>6, <1>7

\* The callers of select return.
LEMMA ReturnStash ==
    ASSUME StashInv, SharedInv', NEW t \in Threads,
           \/ ResponseFinish(t)
           \/ CgiPutback(t)
           \/ CgiFinish(t)
           \/ Return(t)
    PROVE  StashInv'
<1>0. /\ stack[t] \in Seq(FrameType)
      /\ FramesOK(t, open[t], ud[t], pool[t], stack[t])
  BY ThreadFrames
<1>1. ~InPool(t) /\ stack[t] # <<>>
  BY DEF ResponseFinish, CgiPutback, CgiFinish, Return, InPerl, TopIs
<1>2. Settled(ud[t], pool[t], stack[t])
  <2>1. \/ Top(t).k \in {"finish", "end", "reset", "flush"}
        \/ Top(t).k = "run" /\ (Top(t).q = <<t, "r">> => open[t] # "s")
    BY DEF ResponseFinish, CgiPutback, CgiFinish, Return, InPerl, TopIs, Top
  <2> QED BY <1>1, <2>1, SettledUnless, SMTT(60)
<1>3. ~putback[Top(t).i]
  BY <1>1, NotPutback
<1>4. UNCHANGED <<poolVars, interpVars, poolsVars, nreg, pend, ran>>
  BY <1>3 DEF ResponseFinish, CgiPutback, CgiFinish, Return, vars, poolVars
<1>5. \A w \in Threads, l \in ReqLevels : rint'[w][l] = NULL
  <2>1. \/ rint' = rint
        \/ rint' = [rint EXCEPT ![Top(t).q[1]][Top(t).q[2]] = NULL]
    BY <1>3 DEF ResponseFinish, CgiPutback, CgiFinish, Return
  <2>2. rint \in [Threads -> [ReqLevels -> Items \cup {NULL}]]
    BY SharedParts DEF StashInv, InterpTypeOK
  <2>3. \A w \in Threads, l \in ReqLevels : rint[w][l] = NULL
    BY DEF StashInv, NoPutback
  <2> QED BY <2>1, <2>2, <2>3
<1>6. CASE stack' = [stack EXCEPT ![t] = Pop1(@)]
  <2>1. Pop1(stack[t]) \in Seq(FrameType) /\ Trims(Pop1(stack[t]), stack[t])
    BY <1>0, <1>1, <1>2, TrimsPop
  <2>2. stack' = [stack EXCEPT ![t] = Pop1(stack[t])]
    BY <1>6
  <2> QED BY <1>1, <1>2, <1>4, <1>5, <2>1, <2>2, FrameStash
<1>7. CASE stack' = [stack EXCEPT ![t] = Append(Pop1(@), [Top(t) EXCEPT !.k = "flush"])]
  <2> DEFINE base == Append(Pop1(stack[t]), [Top(t) EXCEPT !.k = "flush"])
  <2>1. stack' = [stack EXCEPT ![t] = base]
    BY <1>7
  <2>2. base = Append(Pop1(stack[t]), [stack[t][Len(stack[t])] EXCEPT !.k = "flush"])
    BY DEF Top
  <2> HIDE DEF base
  <2>3. base \in Seq(FrameType) /\ Trims(base, stack[t])
    BY <1>0, <1>1, <1>2, <2>2, TrimsNext
  <2> QED BY <1>1, <1>2, <1>4, <1>5, <2>1, <2>3, FrameStash
<1>8. \/ stack' = [stack EXCEPT ![t] = Pop1(@)]
      \/ stack' = [stack EXCEPT ![t] = Append(Pop1(@), [Top(t) EXCEPT !.k = "flush"])]
  BY <1>3 DEF ResponseFinish, CgiPutback, CgiFinish, Return
<1> QED BY <1>6, <1>7, <1>8

LEMMA RunCleanupStash ==
    ASSUME StashInv, SharedInv', Pooled, NEW t \in Threads, RunCleanupHandlers(t)
    PROVE  StashInv'
<1>1. /\ ~InPool(t) /\ stack[t] # <<>> /\ Top(t).k \in {"clean", "unsel"}
      /\ UNCHANGED <<refcnt, open, closing, scope>>
  BY DEF RunCleanupHandlers, TopIs, Top
<1>2. Top(t).k = "clean"
  BY <1>1, ThreadFrames DEF FrameOK
<1>3. Settled(ud[t], pool[t], stack[t])
  BY <1>1, SettledUnless
<1>4. Pop1(stack[t]) \in Seq(FrameType) /\ Trims(Pop1(stack[t]), stack[t])
  BY <1>1, <1>3, ThreadFrames, TrimsPop
<1>5. \/ Select(t, Top(t).q, "run", Pop1(stack[t]))
      \/ /\ stack' = [stack EXCEPT ![t] = Pop1(stack[t])]
         /\ UNCHANGED <<poolVars, request, putback, ud, pool, rcfgVars, pend, ran>>
  BY <1>2 DEF RunCleanupHandlers
<1>6. CASE Select(t, Top(t).q, "run", Pop1(stack[t]))
  <2>1. "run" \in Calls
    BY DEF Calls
  <2> QED BY <1>1, <1>3, <1>4, <1>6, <2>1, TopSelect
<1>7. CASE /\ stack' = [stack EXCEPT ![t] = Pop1(stack[t])]
           /\ UNCHANGED <<poolVars, request, putback, ud, pool, rcfgVars, pend, ran>>
  <2>1. UNCHANGED <<poolVars, interpVars, poolsVars, nreg, pend, ran>> /\ rint' = rint
    BY <1>1, <1>7 DEF interpVars, poolsVars, rcfgVars
  <2>2. \A w \in Threads, l \in ReqLevels : rint'[w][l] = NULL
    BY <2>1, NoRcfgInterp
  <2> QED BY <1>1, <1>3, <1>4, <1>7, <2>1, <2>2, FrameStash
<1> QED BY <1>5, <1>6, <1>7


\* COND_WAIT returns.
LEMMA ResumeStash ==
    ASSUME StashInv, SharedInv', Pooled, NEW t \in Threads,
           ResumeSelect(t) \/ ResumeWait(t)
    PROVE  StashInv'
<1>0. SharedInv /\ NoPutback
  BY DEF StashInv
<1>1. CASE ResumeSelect(t)
  <2>1. InPool(t) /\ ResumeTake(t, 1)
    BY <1>1 DEF ResumeSelect, ResumeTake, InPool
  <2>2. /\ pend[t] \in [k : Calls, q : Records] /\ pend[t] # NoCall
        /\ OwnType(open[t], scope[t], ud[t], pool[t], stack[t], ran[t], held[t],
                   refcnt)
    BY <1>0, <2>1, OwnTypes
  <2>3. pend[t].q \in Records /\ pend[t].k \in Calls
    BY <2>2
  <2>4. Settled(ud[t], pool[t], stack[t])
    BY <2>2, SettledUnless
  <2>5. OwnWith(t, stack[t], pend[t])
    BY <2>2, <2>4 DEF OwnWith, StashInv, ThreadInv
  <2>6. /\ CalledFor(t, open[t], stack[t], pend[t].q)
        /\ ud[t][StashPool(scope[t], pend[t].q[2])] = NULL /\ ud[t]["c"] = NULL
    BY <2>2 DEF StashInv, ThreadInv, OwnInv, PendOK
  <2>7. stack[t] \in Seq(FrameType)
    BY ThreadFrames
  <2>8. /\ Selected(t, pend[t].q, pend[t].k, stack[t], Popped(t))
        /\ UNCHANGED <<refcnt, open, closing, scope>>
    BY <1>1 DEF ResumeSelect
  <2>9. pend'[t] = NoCall /\ \A w \in Threads : w # t => pend'[w] = pend[w]
    BY <1>0, <1>1, SharedParts DEF ResumeSelect, InterpTypeOK
  <2> QED BY <2>1, <2>3, <2>5, <2>6, <2>7, <2>8, <2>9, PoppedStash
<1>2. CASE ResumeWait(t)
  <2>1. UNCHANGED <<busy, held, interpVars, poolsVars, rcfgVars, threadVars>>
    BY <1>2 DEF ResumeWait, ResumeBlock
  <2>2. NoPutback' /\ \A w \in Threads : Same(w)
    BY <1>0, <2>1
    DEF NoPutback, Same, interpVars, poolsVars, rcfgVars, threadVars
  <2> QED BY <2>2, SameInv DEF StashInv
<1> QED BY <1>1, <1>2

\* httpd starts to destroy a pool.
LEMMA CloseBeginStash ==
    ASSUME StashInv, SharedInv', NEW t \in Threads, CloseBegin(t)
    PROVE  StashInv'
<1>1. Settled(ud[t], pool[t], stack[t])
  BY SettledUnless DEF CloseBegin
<1>2. UNCHANGED <<vars, interpVars, open, scope, ud, pool, rcfgVars, threadVars>>
  BY DEF CloseBegin
<1>3. \A w \in Threads : w # t => closing'[w] = closing[w]
  BY SharedParts DEF CloseBegin, StashInv, InterpTypeOK
<1>4. ThreadInv(t)'
  <2>1. OwnInv(t, open[t], closing'[t], scope[t], ud[t], pool[t], stack[t], pend[t],
               nreg[t], ran[t], held[t], refcnt)
    BY <1>1 DEF StashInv, ThreadInv, OwnInv
  <2> QED BY <1>2, <2>1 DEF ThreadInv, vars, poolVars, interpVars, rcfgVars, threadVars
<1>5. \A w \in Threads : w # t => Same(w)
  BY <1>2, <1>3 DEF Same, vars, poolVars, interpVars, rcfgVars, threadVars
<1>6. NoPutback'
  BY <1>2 DEF StashInv, NoPutback, vars, poolVars, interpVars, rcfgVars
<1> QED BY <1>4, <1>5, <1>6, StashFrom

\* Perl code registers a cleanup.
LEMMA RegisterStash ==
    ASSUME StashInv, SharedInv', NEW t \in Threads, RegisterCleanup(t)
    PROVE  StashInv'
<1> DEFINE f == Top(t)
           i == f.i
<1>0. SharedInv /\ NoPutback
  BY DEF StashInv
<1>1. ~InPool(t) /\ stack[t] # <<>> /\ Settled(ud[t], pool[t], stack[t])
  BY ActiveSettled DEF RegisterCleanup, Active, InPerl, TopIs
<1>2. /\ stack[t] \in Seq(FrameType) /\ Len(stack[t]) \in 1..Len(stack[t])
      /\ f = stack[t][Len(stack[t])] /\ f \in FrameType
      /\ FrameOK(t, open[t], ud[t], pool[t], f)
      /\ open[t] \in Levels \cup {"none"}
  BY <1>1, ThreadFrames
<1>3. i \in Items
  BY <1>2 DEF FrameType
<1>4. PICK l \in Levels :
         /\ l = "r" => open[t] \in ReqLevels
         /\ l = "s" => open[t] = "s"
         /\ pool' = [pool EXCEPT ![t][l] = Append(pool[t][l], [k |-> "perl", i |-> i])]
  BY DEF RegisterCleanup
<1>5. l \in Opened(open[t])
  <2>1. open[t] # "none"
    BY <1>2, OpenedFacts DEF FrameOK
  <2> QED BY <1>2, <1>4, <2>1, OpenedFacts DEF Levels, ReqLevels
<1>6. /\ refcnt' = [refcnt EXCEPT ![i] = refcnt[i] + 1] /\ i \in busy
      /\ UNCHANGED <<poolVars, request, putback, open, closing, scope, ud,
                     rcfgVars, threadVars>>
  BY DEF RegisterCleanup
<1>7. /\ OwnType(open[t], scope[t], ud[t], pool[t], stack[t], ran[t], held[t], refcnt)
      /\ pend[t] = NoCall
  BY <1>0, <1>1, OwnTypes
<1>8. OwnInv(t, open[t], closing[t], scope[t], ud[t], pool[t], stack[t], NoCall,
             nreg[t], ran[t], held[t], refcnt)
  BY <1>7 DEF StashInv, ThreadInv
<1>9. /\ pool \in [Threads -> [Levels -> Seq(CleanupType)]]
      /\ refcnt \in [Items -> Nat]
  BY <1>0, <1>7, SharedParts DEF InterpTypeOK, OwnType
<1> HIDE DEF i
<1>10. pool'[t] = [pool[t] EXCEPT ![l] = Append(pool[t][l], [k |-> "perl", i |-> f.i])]
  BY <1>4, <1>9 DEF i
<1>11. f.i \in held[t]
  <2>1. PICK m \in Opened(f.q[2]) : Stashed(ud[t], pool[t], m, f.i)
    <3>1. f.k = "run"
      BY DEF RegisterCleanup, Active, InPerl, TopIs, Top
    <3> QED BY <1>2, <3>1 DEF FrameOK
  <2>2. m \in Levels
    BY OpenedFacts
  <2>3. Entries(pool[t], f.i) # {}
    BY <1>9, <2>1, <2>2, StashedEntry
  <2> QED BY <1>3, <1>8, <1>9, <2>3, CountedHeld DEF OwnInv, i
<1>12. Registered(f.i, held[t], refcnt, refcnt')
  BY <1>3, <1>6, <1>9, <1>11 DEF Registered, i
<1>13. OwnInv(t, open[t], closing[t], scope[t], ud[t], pool'[t], stack[t], NoCall,
              nreg[t], ran[t], held[t], refcnt')
  <2> DEFINE n == Len(stack[t])
  <2>1. n \in 1..Len(stack[t]) /\ f = stack[t][n]
    BY <1>2
  <2> HIDE DEF n, f
  <2> QED BY <1>1, <1>5, <1>7, <1>8, <1>10, <1>12, <2>1, RegisterOwn
<1>14. ThreadInv(t)'
  BY <1>6, <1>7, <1>13 DEF ThreadInv, poolVars, rcfgVars, threadVars
<1>15. ASSUME NEW w \in Threads, w # t PROVE Same(w)
  <2>1. pool'[w] = pool[w]
    BY <1>4, <1>9, <1>15
  <2>2. i \notin held[w]
    <3>1. ExclusiveUse
      BY <1>0, SharedParts DEF Core
    <3> QED BY <1>11, <1>15, <3>1 DEF ExclusiveUse, i
  <2>3. \A j \in held[w] : refcnt'[j] = refcnt[j]
    <3>1. held[w] \subseteq Items
      BY <1>0, SharedParts DEF Core, TypeOK
    <3> QED BY <1>6, <1>9, <2>2, <3>1
  <2> QED BY <1>6, <2>1, <2>3 DEF Same, poolVars, rcfgVars, threadVars
<1>16. NoPutback'
  BY <1>0, <1>6, <1>9 DEF NoPutback, poolVars, rcfgVars
<1> QED BY <1>14, <1>15, <1>16, StashFrom

\* modperl_interp_unselect: the interpreter is put back by the last caller.
LEMMA UnselectEffect ==
    ASSUME StashInv, Ready, NEW t \in Threads, NEW i \in held[t], NEW base,
           Unselect(t, i, base), rint' = rint
    PROVE  /\ Released(i, held[t], refcnt, held'[t], refcnt')
           /\ stack' = [stack EXCEPT ![t] = base]
           /\ \A w \in Threads : w # t =>
                 /\ held'[w] = held[w]
                 /\ \A j \in held[w] : refcnt'[j] = refcnt[j]
           /\ NoPutback'
<1>0. SharedInv /\ NoPutback /\ Core
  BY SharedParts DEF StashInv
<1>1. /\ i \in Items /\ i \in busy /\ refcnt \in [Items -> Nat]
      /\ held \in [Threads -> SUBSET Items]
      /\ \A w \in Threads : w # t => i \notin held[w]
  <2>1. ExclusiveUse /\ held \in [Threads -> SUBSET Items]
    BY <1>0 DEF Core, TypeOK
  <2>2. refcnt \in [Items -> Nat]
    BY <1>0, OwnTypes DEF OwnType
  <2> QED BY <2>1, <2>2 DEF ExclusiveUse
<1>2. request[i] = NULL /\ putback \in [Items -> BOOLEAN]
  BY <1>0, <1>1, SharedParts DEF NoPutback, InterpTypeOK
<1>3. CASE /\ refcnt[i] # 0
           /\ refcnt' = [refcnt EXCEPT ![i] = @ - 1]
           /\ stack' = [stack EXCEPT ![t] = base]
           /\ UNCHANGED <<poolVars, request, putback, flag>>
  <2>1. held' = held /\ busy' = busy
    BY <1>3 DEF poolVars
  <2>2. Released(i, held[t], refcnt, held'[t], refcnt')
    BY <1>1, <1>3, <2>1 DEF Released
  <2>3. NoPutback'
    BY <1>0, <1>1, <1>3, <2>1 DEF NoPutback
  <2> QED BY <1>1, <1>3, <2>1, <2>2, <2>3
<1>4. CASE /\ refcnt[i] = 0
           /\ Reclaim(i)
           /\ stack' = [stack EXCEPT ![t] = base]
           /\ UNCHANGED refcnt
  <2>1. \/ PutbackKeep(i)
        \/ PutbackNotBusy(i)
        \/ PutbackDestroy(i)
        \/ PutbackReplace(i)
    BY <1>4 DEF Reclaim
  <2>2. busy' = busy \ {i} /\ \A w \in Threads : held'[w] = held[w] \ {i}
    BY <1>0, <1>1, <2>1, PutbackPool
  <2>3. Released(i, held[t], refcnt, held'[t], refcnt')
    BY <1>4, <2>2 DEF Released
  <2>4. \A w \in Threads : w # t => held'[w] = held[w]
    BY <1>1, <2>2
  <2>5. NoPutback'
    <3>1. \A j \in Items : request'[j] = NULL
      <4>1. request \in [Items -> (Threads \X ReqLevels) \cup {FREED, NULL}]
        BY <1>0, SharedParts DEF InterpTypeOK
      <4>2. request' = request \/ request' = [request EXCEPT ![i] = NULL]
        BY <1>4 DEF Reclaim
      <4> QED BY <1>0, <4>1, <4>2 DEF NoPutback
    <3>2. putback' = [putback EXCEPT ![i] = FALSE]
      BY <1>4 DEF Reclaim
    <3>3. \A j \in Items : ~putback'[j]
      BY <1>0, <1>2, <3>2 DEF NoPutback
    <3>4. \A j \in Items : j \notin busy' => refcnt'[j] = 0
      BY <1>0, <1>4, <2>2 DEF NoPutback
    <3> QED BY <1>0, <3>1, <3>3, <3>4 DEF NoPutback
  <2> QED BY <1>4, <2>3, <2>4, <2>5
<1> QED BY <1>2, <1>3, <1>4 DEF Unselect


\* A pool's own cleanup is run.
LEMMA PoolCleanupStash ==
    ASSUME StashInv, SharedInv', NEW t \in Threads, PoolCleanup(t)
    PROVE  StashInv'
<1> DEFINE o == open[t]
           p == pool[t]
           e == p[o][Len(p[o])]
           f == Frame("cb", <<t, o>>, e.i)
<1>0. SharedInv /\ NoPutback /\ InterpTypeOK /\ Ready
  BY SharedParts DEF StashInv, PoolCleanup, Ready
<1>1. /\ InHttpd(t) /\ ~InPool(t) /\ closing[t] /\ o \in Levels
      /\ o \in ReqLevels => nreg[t][o] = 0
      /\ p[o] # <<>>
  <2>1. InHttpd(t) /\ closing[t] /\ (o \in ReqLevels => nreg[t][o] = 0) /\ p[o] # <<>>
    BY DEF PoolCleanup
  <2> QED BY <1>0, <2>1 DEF InHttpd, InterpTypeOK
<1>2. Outside(o, stack[t])
  BY <1>1, HttpdOutside
<1>3. /\ OwnType(o, scope[t], ud[t], p, stack[t], ran[t], held[t], refcnt)
      /\ pend[t] = NoCall
  BY <1>0, <1>1, OwnTypes
<1>4. OwnInv(t, o, closing[t], scope[t], ud[t], p, stack[t], NoCall, nreg[t], ran[t],
             held[t], refcnt)
  BY <1>3 DEF StashInv, ThreadInv
<1>5. /\ p \in [Levels -> Seq(CleanupType)] /\ refcnt \in [Items -> Nat]
      /\ p[o] \in Seq(CleanupType) /\ Len(p[o]) \in Nat /\ Len(p[o]) > 0
      /\ e \in CleanupType
  BY <1>1, <1>3, Pop1Facts DEF OwnType
<1>6. e.i \in Items /\ e.k \in {"userdata", "perl"}
  BY <1>5 DEF CleanupType
<1>7. e.i \in held[t]
  <2>1. <<o, Len(p[o])>> \in Entries(p, e.i)
    BY <1>1, <1>5 DEF Entries
  <2> QED BY <1>4, <1>5, <1>6, <2>1, CountedHeld DEF OwnInv
<1>8. /\ pool' = [pool EXCEPT ![t][o] = Pop1(p[o])]
      /\ UNCHANGED <<open, closing, scope, ud, rint, nreg, pend, ran>>
      /\ \/ Unselect(t, e.i, stack[t])
         \/ /\ stack' = [stack EXCEPT ![t] = Append(stack[t], f)]
            /\ UNCHANGED <<poolVars, interpVars, flag>>
  BY DEF PoolCleanup
<1>9. /\ pool \in [Threads -> [Levels -> Seq(CleanupType)]]
      /\ stack \in [Threads -> Seq(FrameType)]
  BY <1>0 DEF InterpTypeOK
<1>10. /\ pool'[t] = [p EXCEPT ![o] = Pop1(p[o])]
       /\ \A w \in Threads : w # t => pool'[w] = pool[w]
  BY <1>8, <1>9
<1>11. CASE Unselect(t, e.i, stack[t])
  <2> DEFINE i == e.i
  <2>1. i \in held[t] /\ Unselect(t, i, stack[t]) /\ rint' = rint
    BY <1>7, <1>8, <1>11
  <2> HIDE DEF i
  <2>2. /\ Released(i, held[t], refcnt, held'[t], refcnt')
        /\ stack' = [stack EXCEPT ![t] = stack[t]]
        /\ \A w \in Threads : w # t =>
              /\ held'[w] = held[w]
              /\ \A j \in held[w] : refcnt'[j] = refcnt[j]
        /\ NoPutback'
    BY <1>0, <2>1, UnselectEffect
  <2>3. stack' = stack
    BY <1>9, <2>2
  <2>4. ThreadInv(t)'
    <3>1. OwnInv(t, o, closing[t], scope[t], ud[t], pool'[t], stack[t], NoCall,
                 nreg[t], ran[t], held'[t], refcnt')
      <4> DEFINE g == e
      <4>1. g = p[o][Len(p[o])] /\ Released(g.i, held[t], refcnt, held'[t], refcnt')
        BY <2>2 DEF i
      <4> HIDE DEF g, e, o, p
      <4> QED BY <1>1, <1>2, <1>3, <1>4, <1>10, <4>1, CleanupOwn
    <3> QED BY <1>3, <1>8, <2>3, <3>1 DEF ThreadInv
  <2>5. \A w \in Threads : w # t => Same(w)
    BY <1>8, <1>10, <2>2, <2>3 DEF Same
  <2> QED BY <2>2, <2>4, <2>5, StashFrom
<1>12. CASE /\ stack' = [stack EXCEPT ![t] = Append(stack[t], f)]
            /\ UNCHANGED <<poolVars, interpVars, flag>>
  <2>1. f \in FrameType /\ f.k = "cb" /\ f.q = <<t, o>> /\ f.i = e.i
    BY <1>1, <1>6 DEF Frame, FrameType, Records
  <2>2. /\ stack'[t] = Append(stack[t], f)
        /\ \A w \in Threads : w # t => stack'[w] = stack[w]
    BY <1>9, <1>12
  <2>3. OwnInv(t, o, closing[t], scope[t], ud[t], pool'[t], Append(stack[t], f),
               NoCall, nreg[t], ran[t], held[t], refcnt)
    <3> DEFINE g == e
    <3>1. /\ g = p[o][Len(p[o])] /\ f.i = g.i
          /\ f \in FrameType /\ f.k = "cb" /\ f.q = <<t, o>>
      BY <2>1
    <3>2. /\ o \in Levels /\ closing[t] /\ p[o] # <<>>
          /\ o \in ReqLevels => nreg[t][o] = 0
      BY <1>1
    <3>3. pool'[t] = [p EXCEPT ![o] = Pop1(p[o])]
      BY <1>10
    <3>4. OwnType(o, scope[t], ud[t], p, stack[t], ran[t], held[t], refcnt)
      BY <1>3
    <3> HIDE DEF g, e, o, p, f
    <3> QED BY <1>2, <1>4, <3>1, <3>2, <3>3, <3>4, CallbackOwn, ZenonT(60)
  <2>4. ThreadInv(t)'
    BY <1>3, <1>8, <1>12, <2>2, <2>3 DEF ThreadInv, poolVars, interpVars
  <2>5. \A w \in Threads : w # t => Same(w)
    BY <1>8, <1>10, <1>12, <2>2 DEF Same, poolVars, interpVars
  <2>6. NoPutback'
    BY <1>0, <1>8, <1>12 DEF NoPutback, poolVars, interpVars
  <2> QED BY <2>4, <2>5, <2>6, StashFrom
<1> QED BY <1>8, <1>11, <1>12

\* mpxs_cleanup_run ends.
LEMMA CallbackReturnStash ==
    ASSUME StashInv, SharedInv', NEW t \in Threads, CallbackReturn(t)
    PROVE  StashInv'
<1> DEFINE f == Top(t)
           st == stack[t]
<1>0. SharedInv /\ NoPutback /\ InterpTypeOK /\ Ready
  BY SharedParts DEF StashInv, CallbackReturn, Ready
<1>1. /\ ~InPool(t) /\ st # <<>> /\ f = st[Len(st)] /\ f.k = "cb"
      /\ Unselect(t, f.i, Pop1(st))
      /\ UNCHANGED <<poolsVars, rint, nreg, pend, ran>>
  BY DEF CallbackReturn, TopIs, Top
<1>2. /\ OwnType(open[t], scope[t], ud[t], pool[t], st, ran[t], held[t], refcnt)
      /\ pend[t] = NoCall
  BY <1>0, <1>1, OwnTypes
<1>3. OwnInv(t, open[t], closing[t], scope[t], ud[t], pool[t], st, NoCall, nreg[t],
             ran[t], held[t], refcnt)
  BY <1>2 DEF StashInv, ThreadInv
<1>4. f \in FrameType /\ f.i \in Items /\ Len(st) \in 1..Len(st)
  BY <1>1, ThreadFrames DEF FrameType
<1>5. f.i \in held[t]
  <2>1. Len(st) \in Callbacks(st, f.i)
    BY <1>1, <1>4 DEF Callbacks
  <2>2. refcnt \in [Items -> Nat] /\ Counted(pool[t], st, held[t], refcnt)
    BY <1>2, <1>3 DEF OwnType, OwnInv
  <2> QED BY <1>4, <2>1, <2>2, CountedHeld
<1> HIDE DEF f
<1>6. /\ Released(f.i, held[t], refcnt, held'[t], refcnt')
      /\ stack' = [stack EXCEPT ![t] = Pop1(st)]
      /\ \A w \in Threads : w # t =>
            /\ held'[w] = held[w]
            /\ \A j \in held[w] : refcnt'[j] = refcnt[j]
      /\ NoPutback'
  BY <1>0, <1>1, <1>5, UnselectEffect
<1>7. stack'[t] = Pop1(st) /\ \A w \in Threads : w # t => stack'[w] = stack[w]
  BY <1>0, <1>6 DEF InterpTypeOK
<1>8. OwnInv(t, open[t], closing[t], scope[t], ud[t], pool[t], Pop1(st), NoCall,
             nreg[t], ran[t], held'[t], refcnt')
  BY <1>1, <1>2, <1>3, <1>6, CallbackReturnOwn
<1>9. ThreadInv(t)'
  BY <1>1, <1>2, <1>7, <1>8 DEF ThreadInv, poolsVars
<1>10. \A w \in Threads : w # t => Same(w)
  BY <1>1, <1>6, <1>7 DEF Same, poolsVars
<1> QED BY <1>6, <1>9, <1>10, StashFrom

\* A pool is gone.
LEMMA CloseEndStash ==
    ASSUME StashInv, SharedInv', NEW t \in Threads, CloseEnd(t)
    PROVE  StashInv'
<1> DEFINE o == open[t]
<1>0. SharedInv /\ NoPutback /\ InterpTypeOK
  BY SharedParts DEF StashInv
<1>1. InHttpd(t) /\ ~InPool(t) /\ closing[t] /\ o \in Levels /\ pool[t][o] = <<>>
  <2>1. InHttpd(t) /\ closing[t] /\ pool[t][o] = <<>>
    BY DEF CloseEnd
  <2> QED BY <1>0, <2>1 DEF InHttpd, InterpTypeOK
<1>2. Outside(o, stack[t])
  BY <1>1, HttpdOutside
<1>3. /\ OwnType(o, scope[t], ud[t], pool[t], stack[t], ran[t], held[t], refcnt)
      /\ pend[t] = NoCall
  BY <1>0, <1>1, OwnTypes
<1>4. OwnInv(t, o, closing[t], scope[t], ud[t], pool[t], stack[t], NoCall, nreg[t],
             ran[t], held[t], refcnt)
  BY <1>3 DEF StashInv, ThreadInv
<1>5. UNCHANGED <<vars, refcnt, putback, scope, pool, rcfgVars, stack, pend>>
  BY DEF CloseEnd
<1>6. /\ closing \in [Threads -> BOOLEAN] /\ open \in [Threads -> Levels \cup {"none"}]
      /\ ud \in [Threads -> [Levels -> Items \cup {NULL}]]
      /\ ran \in [Threads -> SUBSET (Scopes \X Items)]
  BY <1>0 DEF InterpTypeOK
<1>7. /\ ud'[t] = [ud[t] EXCEPT ![o] = NULL]
      /\ \A w \in Threads : w # t => ud'[w] = ud[w]
  BY <1>6 DEF CloseEnd
<1>8. /\ open'[t] = Outer(o)
      /\ \A w \in Threads : w # t => open'[w] = open[w] /\ closing'[w] = closing[w]
  BY <1>6 DEF CloseEnd, Outer
<1>9. /\ ran'[t] = IF o = "r" THEN {} ELSE ran[t]
      /\ \A w \in Threads : w # t => ran'[w] = ran[w]
  BY <1>6 DEF CloseEnd
<1>10. NoPutback'
  <2>1. \A i \in Items : request'[i] = NULL
    <3>1. NULL \notin Threads \X {"c", "r", "s"}
      BY InterpAssumption
    <3>2. <<t, o>> \in Threads \X {"c", "r", "s"}
      BY <1>1 DEF Levels
    <3> QED BY <1>0, <3>1, <3>2 DEF CloseEnd, NoPutback
  <2> QED BY <1>0, <1>5, <2>1 DEF NoPutback, vars, poolVars, rcfgVars
<1>11. OwnInv(t, open'[t], closing'[t], scope[t], ud'[t], pool[t], stack[t], NoCall,
              nreg[t], ran'[t], held[t], refcnt)
  <2>1. o \in Levels /\ pool[t][o] = <<>>
    BY <1>1
  <2>2. ud'[t] = [ud[t] EXCEPT ![o] = NULL]
    BY <1>7
  <2>3. ran'[t] = IF o = "r" THEN {} ELSE ran[t]
    BY <1>9
  <2>4. OwnType(o, scope[t], ud[t], pool[t], stack[t], ran[t], held[t], refcnt)
    BY <1>3
  <2> HIDE DEF o
  <2>5. OwnInv(t, Outer(o), closing'[t], scope[t], ud'[t], pool[t], stack[t], NoCall,
               nreg[t], ran'[t], held[t], refcnt)
    BY <1>2, <1>4, <2>1, <2>2, <2>3, <2>4, CloseOwn
  <2> QED BY <1>8, <2>5
<1>12. ThreadInv(t)'
  BY <1>3, <1>5, <1>11 DEF ThreadInv, vars, poolVars, rcfgVars
<1>13. \A w \in Threads : w # t => Same(w)
  BY <1>5, <1>7, <1>8, <1>9 DEF Same, vars, poolVars, rcfgVars
<1> QED BY <1>10, <1>12, <1>13, StashFrom

\* A connection, a request or a subrequest begins.
LEMMA OpenStash ==
    ASSUME StashInv, SharedInv', NEW t \in Threads, Accept(t) \/ OpenRequest(t)
    PROVE  StashInv'
<1> DEFINE o == open[t]
<1>0. SharedInv /\ NoPutback /\ InterpTypeOK
  BY SharedParts DEF StashInv
<1>6. /\ closing \in [Threads -> BOOLEAN] /\ open \in [Threads -> Levels \cup {"none"}]
      /\ scope \in [Threads -> [ReqLevels -> Scopes \cup {"none"}]]
      /\ rint \in [Threads -> [ReqLevels -> Items \cup {NULL}]]
      /\ ran \in [Threads -> SUBSET (Scopes \X Items)]
      /\ closing[t] => o # "none"
  BY <1>0 DEF InterpTypeOK
<1>1. PICK l :
        /\ \/ o = "none" /\ l = "c"
           \/ o = "c" /\ l = "r"
           \/ o = "r" /\ l = "s"
        /\ open' = [open EXCEPT ![t] = l]
        /\ ran' = IF l = "r" THEN [ran EXCEPT ![t] = {}] ELSE ran
        /\ ~closing[t] \/ o = "none"
        /\ \A w \in Threads : w # t => scope'[w] = scope[w]
        /\ rint' = rint \/ rint' = [rint EXCEPT ![t][l] = NULL]
  <2>1. CASE Accept(t)
    BY <2>1 DEF Accept, rcfgVars, threadVars
  <2>2. CASE OpenRequest(t)
    <3>1. CASE o = "c"
      BY <1>6, <2>2, <3>1 DEF OpenRequest
    <3>2. CASE o = "r"
      BY <1>6, <2>2, <3>2 DEF OpenRequest
    <3> QED BY <2>2, <3>1, <3>2 DEF OpenRequest
  <2> QED BY <2>1, <2>2
<1>2. UNCHANGED <<poolVars, interpVars, closing, ud, pool, nreg, stack, pend>>
  BY DEF Accept, OpenRequest, rcfgVars, threadVars
<1>3. pend[t] = NoCall
  <2>1. CASE OpenRequest(t)
    BY <1>0, <2>1, OwnTypes DEF OpenRequest, InHttpd, InPerl
  <2>2. CASE Accept(t)
    <3>1. o = "none"
      BY <2>2 DEF Accept
    <3>2. PendOK(t, o, scope[t], ud[t], stack[t], pend[t])
      BY DEF StashInv, ThreadInv, OwnInv
    <3> QED BY <3>1, <3>2, OpenedFacts DEF PendOK, CalledFor
  <2> QED BY <2>1, <2>2
<1>4. OwnType(o, scope[t], ud[t], pool[t], stack[t], ran[t], held[t], refcnt)
  BY <1>0, OwnTypes
<1>5. OwnInv(t, o, closing[t], scope[t], ud[t], pool[t], stack[t], NoCall, nreg[t],
             ran[t], held[t], refcnt)
  BY <1>3 DEF StashInv, ThreadInv
<1>7. open'[t] = l /\ \A w \in Threads : w # t => open'[w] = open[w]
  BY <1>1, <1>6
<1>8. /\ ran'[t] = IF l = "r" THEN {} ELSE ran[t]
      /\ \A w \in Threads : w # t => ran'[w] = ran[w]
  BY <1>1, <1>6
<1>9. OwnInv(t, l, closing[t], scope'[t], ud[t], pool[t], stack[t], NoCall, nreg[t],
             ran'[t], held[t], refcnt)
  <2> HIDE DEF o
  <2> QED BY <1>1, <1>4, <1>5, <1>8, OpenOwn
<1>10. ThreadInv(t)'
  BY <1>2, <1>3, <1>7, <1>9 DEF ThreadInv, poolVars, interpVars
<1>11. \A w \in Threads : w # t => Same(w)
  BY <1>1, <1>2, <1>7, <1>8 DEF Same, poolVars, interpVars
<1>12. NoPutback'
  <2>1. \A w \in Threads, m \in ReqLevels : rint'[w][m] = NULL
    BY <1>0, <1>1, <1>6 DEF NoPutback
  <2> QED BY <1>0, <1>2, <2>1 DEF NoPutback, poolVars, interpVars
<1> QED BY <1>10, <1>11, <1>12, StashFrom


LEMMA StashThreadStep ==
    ASSUME StashInv, Pooled, NEW t \in Threads, ThreadStep(t)
    PROVE  StashInv'
<1>1. SharedInv'
  BY SharedThreadStep DEF StashInv
<1>2. ~UnselectFinish(t)
  <2>1. TopIs(t, "putback") => Top(t).k = "putback" /\ stack[t] # <<>>
    BY DEF TopIs, Top
  <2> QED BY <2>1, ThreadFrames DEF UnselectFinish, FrameOK
<1>3. CASE RunPhase(t) \/ Response(t) \/ RequestCleanup(t) \/ RunFilter(t)
  BY <1>1, <1>3, PhaseStash
<1>4. CASE ResponseRun(t)
  BY <1>1, <1>4, ResponseRunStash
<1>5. CASE ResponseFinish(t) \/ CgiPutback(t) \/ CgiFinish(t) \/ Return(t)
  BY <1>1, <1>5, ReturnStash
<1>6. CASE RunCleanupHandlers(t)
  BY <1>1, <1>6, RunCleanupStash
<1>7. CASE ResumeSelect(t) \/ ResumeWait(t)
  BY <1>1, <1>7, ResumeStash
<1>8. CASE CloseBegin(t)
  BY <1>1, <1>8, CloseBeginStash
<1>9. CASE RegisterCleanup(t)
  BY <1>1, <1>9, RegisterStash
<1>10. CASE PoolCleanup(t)
  BY <1>1, <1>10, PoolCleanupStash
<1>11. CASE CallbackReturn(t)
  BY <1>1, <1>11, CallbackReturnStash
<1>12. CASE CloseEnd(t)
  BY <1>1, <1>12, CloseEndStash
<1>13. CASE Accept(t) \/ OpenRequest(t)
  BY <1>1, <1>13, OpenStash
<1> QED
  BY <1>2, <1>3, <1>4, <1>5, <1>6, <1>7, <1>8, <1>9, <1>10, <1>11, <1>12, <1>13
  DEF ThreadStep

\* No thread holds an interpreter between two connections.
LEMMA NoneHeld ==
    ASSUME StashInv, NEW t \in Threads, open[t] = "none"
    PROVE  held[t] = {}
<1>1. OwnType(open[t], scope[t], ud[t], pool[t], stack[t], ran[t], held[t], refcnt)
  BY OwnTypes DEF StashInv
<1>2. /\ FramesOK(t, open[t], ud[t], pool[t], stack[t])
      /\ PoolsOK(open[t], ud[t], pool[t])
      /\ Counted(pool[t], stack[t], held[t], refcnt)
  BY DEF StashInv, ThreadInv, OwnInv
<1>3. ASSUME NEW i \in Items PROVE Entries(pool[t], i) = {}
  <2>1. \A l \in Levels : pool[t][l] = <<>>
    BY <1>2, OpenedFacts DEF PoolsOK
  <2>2. \A l \in Levels : 1..Len(pool[t][l]) = {}
    BY <2>1
  <2> QED BY <2>2 DEF Entries
<1>4. ASSUME NEW i \in Items PROVE Callbacks(stack[t], i) = {}
  <2>1. \A n \in 1..Len(stack[t]) : FALSE
    BY <1>2, OpenedFacts DEF FramesOK, FrameOK
  <2> QED BY <2>1 DEF Callbacks
<1>5. ASSUME NEW i \in held[t] PROVE FALSE
  <2>1. i \in Items /\ refcnt \in [Items -> Nat]
    BY <1>1 DEF OwnType
  <2> QED BY <1>2, <1>3, <1>4, <2>1, CountedHeld
<1> QED BY <1>5

LEMMA StashStep ==
    ASSUME StashInv, Pooled, [InterpNext]_ivars
    PROVE  StashInv'
<1>0. SharedInv' /\ NoPutback
  BY SharedStep DEF StashInv
<1>1. CASE \E t \in Threads : ThreadStep(t)
  BY <1>1, StashThreadStep
<1>2. CASE Shutdown
  <2>1. \A t \in Threads : held[t] = {}
    BY <1>2, NoneHeld DEF Shutdown
  <2>2. UNCHANGED <<interpVars, poolsVars, rcfgVars, threadVars, held>>
    BY <1>2 DEF Shutdown, Destroy
  <2>3. \A t \in Threads : Same(t)
    BY <2>2 DEF Same, interpVars, poolsVars, rcfgVars, threadVars
  <2>4. NoPutback'
    <3>1. busy' = busy
      BY <1>2 DEF Shutdown, Destroy
    <3> QED BY <1>0, <2>2, <3>1 DEF NoPutback, interpVars, rcfgVars
  <2> QED BY <1>0, <2>3, <2>4, SameInv DEF StashInv
<1>3. CASE UNCHANGED ivars
  <2>1. \A t \in Threads : Same(t)
    BY <1>3
    DEF Same, ivars, vars, poolVars, interpVars, poolsVars, rcfgVars, threadVars
  <2>2. NoPutback'
    BY <1>0, <1>3 DEF NoPutback, ivars, vars, poolVars, interpVars, rcfgVars
  <2> QED BY <1>0, <2>1, <2>2, SameInv DEF StashInv
<1> QED BY <1>1, <1>2, <1>3 DEF InterpNext, Finished

LEMMA StashInit ==
    ASSUME InterpInit
    PROVE  StashInv
<1>1. SharedInv
  BY SharedInit
<1>2. NoPutback
  BY DEF InterpInit, NoPutback
<1>3. ASSUME NEW t \in Threads PROVE ThreadInv(t)
  <2>1. /\ open[t] = "none" /\ stack[t] = <<>> /\ pend[t] = NoCall /\ ran[t] = {}
        /\ held[t] = {}
        /\ \A l \in Levels : ud[t][l] = NULL /\ pool[t][l] = <<>>
    BY DEF InterpInit, Init
  <2>2. FramesOK(t, open[t], ud[t], pool[t], stack[t])
    BY <2>1 DEF FramesOK, Nested
  <2>3. Settled(ud[t], pool[t], stack[t])
    BY <2>1 DEF Settled, Drained
  <2>4. PoolsOK(open[t], ud[t], pool[t])
    BY <2>1 DEF PoolsOK
  <2>5. PendOK(t, open[t], scope[t], ud[t], stack[t], pend[t])
    BY <2>1 DEF PendOK
  <2>6. RanOK(open[t], ud[t], ran[t])
    BY <2>1 DEF RanOK
  <2>7. Counted(pool[t], stack[t], held[t], refcnt)
    <3>1. \A l \in Levels : 1..Len(pool[t][l]) = {}
      BY <2>1
    <3>2. \A i \in Items : Entries(pool[t], i) = {}
      BY <3>1 DEF Entries
    <3>3. \A i \in Items : Callbacks(stack[t], i) = {}
      BY <2>1 DEF Callbacks
    <3>4. IsFiniteSet({}) /\ Cardinality({}) = 0
      BY FS_EmptySet
    <3>5. \A i \in Items :
             /\ IsFiniteSet(Entries(pool[t], i)) /\ IsFiniteSet(Callbacks(stack[t], i))
             /\ Cardinality(Entries(pool[t], i)) = 0
             /\ Cardinality(Callbacks(stack[t], i)) = 0
             /\ i \notin held[t]
      BY <2>1, <3>2, <3>3, <3>4
    <3> QED BY <3>5 DEF Counted
  <2> QED BY <2>2, <2>3, <2>4, <2>5, <2>6, <2>7 DEF ThreadInv, OwnInv
<1> QED BY <1>1, <1>2, <1>3 DEF StashInv

\* The invariant is inductive.
LEMMA StashAlways ==
    ASSUME Pooled
    PROVE  InterpSpec => []StashInv
<1>1. InterpInit => StashInv
  BY StashInit
<1>2. StashInv /\ [InterpNext]_ivars => StashInv'
  BY StashStep
<1> QED BY <1>1, <1>2, PTL DEF InterpSpec

-----------------------------------------------------------------------------
(* What follows from it.                                                   *)

\* Without PerlInterpScope handler, Perl code only runs on an interpreter that
\* its thread has popped and not put back, at any depth of nesting: a pool
\* cleanup never pulls the interpreter from under a handler that still runs.
THEOREM InterpreterIsOwn ==
    ASSUME Pooled
    PROVE  InterpSpec => []RunsOnOwnInterpreter
<1>1. StashInv => RunsOnOwnInterpreter
  <2> SUFFICES ASSUME StashInv, NEW t \in Threads, NEW n \in 1..Len(stack[t]),
                      stack[t][n].k \in {"run", "cb"}
               PROVE  stack[t][n].i \in held[t]
    BY DEF RunsOnOwnInterpreter, Frames
  <2> DEFINE f == stack[t][n]
  <2>1. OwnType(open[t], scope[t], ud[t], pool[t], stack[t], ran[t], held[t], refcnt)
    BY OwnTypes DEF StashInv
  <2>2. /\ pool[t] \in [Levels -> Seq(CleanupType)] /\ refcnt \in [Items -> Nat]
        /\ Counted(pool[t], stack[t], held[t], refcnt)
        /\ FrameOK(t, open[t], ud[t], pool[t], f)
        /\ f \in FrameType
    BY <2>1 DEF OwnType, StashInv, ThreadInv, OwnInv, FramesOK
  <2>3. f.i \in Items
    BY <2>2 DEF FrameType
  <2>4. CASE f.k = "cb"
    <3>1. n \in Callbacks(stack[t], f.i)
      BY <2>4 DEF Callbacks
    <3> QED BY <2>2, <2>3, <3>1, CountedHeld
  <2>5. CASE f.k # "cb"
    <3>1. PICK l \in Opened(f.q[2]) : Stashed(ud[t], pool[t], l, f.i)
      BY <2>2, <2>5 DEF FrameOK
    <3>2. l \in Levels
      BY OpenedFacts
    <3>3. Entries(pool[t], f.i) # {}
      BY <2>2, <3>1, <3>2, StashedEntry
    <3> QED BY <2>2, <2>3, <3>3, CountedHeld
  <2> QED BY <2>4, <2>5
<1> QED BY <1>1, StashAlways, PTL

\* Every cleanup that is registered with one of a thread's pools is for an
\* interpreter that the thread still has.
THEOREM CleanupsNotDangling ==
    ASSUME Pooled
    PROVE  InterpSpec => []NoDanglingCleanup
<1>1. StashInv => NoDanglingCleanup
  <2> SUFFICES ASSUME StashInv, NEW t \in Threads, NEW l \in Levels,
                      NEW n \in 1..Len(pool[t][l])
               PROVE  pool[t][l][n].i \in held[t]
    BY DEF NoDanglingCleanup, CleanupsOf
  <2> DEFINE e == pool[t][l][n]
  <2>1. OwnType(open[t], scope[t], ud[t], pool[t], stack[t], ran[t], held[t], refcnt)
    BY OwnTypes DEF StashInv
  <2>2. /\ pool[t][l] \in Seq(CleanupType) /\ refcnt \in [Items -> Nat]
        /\ Counted(pool[t], stack[t], held[t], refcnt)
    BY <2>1 DEF OwnType, StashInv, ThreadInv, OwnInv
  <2>3. e \in CleanupType /\ n \in Nat
    BY <2>2
  <2>4. e.i \in Items
    BY <2>3 DEF CleanupType
  <2>5. <<l, n>> \in Entries(pool[t], e.i)
    BY <2>3 DEF Entries
  <2> QED BY <2>2, <2>4, <2>5, CountedHeld
<1> QED BY <1>1, StashAlways, PTL

\* refcnt counts the cleanups of an interpreter exactly, so that it is put back
\* by the last of them and by no other.
THEOREM ReferencesCounted ==
    ASSUME Pooled
    PROVE  InterpSpec => []RefcntExact
<1>1. StashInv => RefcntExact
  <2> SUFFICES ASSUME StashInv, NEW t \in Threads, NEW i \in held[t]
               PROVE  refcnt[i] + 1 =
            Cardinality(UNION {{l} \X {n \in 1..Len(pool[t][l]) :
                                          pool[t][l][n].i = i} : l \in Levels})
            + Cardinality({n \in 1..Len(stack[t]) :
                              stack[t][n].k = "cb" /\ stack[t][n].i = i})
    BY DEF RefcntExact
  <2> DEFINE U == UNION {{l} \X {n \in 1..Len(pool[t][l]) : pool[t][l][n].i = i} :
                            l \in Levels}
  <2>1. /\ i \in Items
        /\ pool[t] \in [Levels -> Seq(CleanupType)]
        /\ Counted(pool[t], stack[t], held[t], refcnt)
    BY OwnTypes DEF StashInv, OwnType, ThreadInv, OwnInv
  <2>2. U = Entries(pool[t], i)
    <3>1. ASSUME NEW x \in U PROVE x \in Entries(pool[t], i)
      <4>1. PICK l \in Levels : x \in {l} \X {n \in 1..Len(pool[t][l]) :
                                                 pool[t][l][n].i = i}
        OBVIOUS
      <4>2. PICK n \in 1..Len(pool[t][l]) : x = <<l, n>> /\ pool[t][l][n].i = i
        BY <4>1
      <4>3. pool[t][l] \in Seq(CleanupType) /\ n \in Nat
        BY <2>1
      <4> QED BY <4>2, <4>3 DEF Entries
    <3>2. ASSUME NEW x \in Entries(pool[t], i) PROVE x \in U
      <4>1. /\ x[1] \in Levels /\ x = <<x[1], x[2]>>
            /\ x[2] \in 1..Len(pool[t][x[1]]) /\ pool[t][x[1]][x[2]].i = i
        BY DEF Entries
      <4>2. x \in {x[1]} \X {n \in 1..Len(pool[t][x[1]]) : pool[t][x[1]][n].i = i}
        BY <4>1
      <4> QED BY <4>1, <4>2
    <3> QED BY <3>1, <3>2
  <2>3. Callbacks(stack[t], i) =
           {n \in 1..Len(stack[t]) : stack[t][n].k = "cb" /\ stack[t][n].i = i}
    BY DEF Callbacks
  <2>4. Cardinality(Entries(pool[t], i)) + Cardinality(Callbacks(stack[t], i)) =
           refcnt[i] + 1
    BY <2>1 DEF Counted
  <2> QED BY <2>2, <2>3, <2>4
<1> QED BY <1>1, StashAlways, PTL

\* A thread that has finished a connection has given back every interpreter.
THEOREM NothingIsLeaked ==
    ASSUME Pooled
    PROVE  InterpSpec => []NothingLeaked
<1>1. StashInv => NothingLeaked
  BY NoneHeld DEF NothingLeaked
<1> QED BY <1>1, StashAlways, PTL

\* Everything a request and its subrequests run in request scope runs on one
\* interpreter, and everything in connection scope on one.
THEOREM RequestKeepsInterpreter ==
    ASSUME Pooled
    PROVE  InterpSpec => []OneInterpreterPerRequest
<1>1. StashInv => OneInterpreterPerRequest
  <2> SUFFICES ASSUME StashInv, NEW t \in Threads, NEW x \in ran[t], NEW y \in ran[t],
                      x[1] = y[1]
               PROVE  x = y
    BY DEF OneInterpreterPerRequest
  <2>1. ran[t] \in SUBSET (Scopes \X Items) /\ RanOK(open[t], ud[t], ran[t])
    BY OwnTypes DEF StashInv, OwnType, ThreadInv, OwnInv
  <2>2. x = <<x[1], x[2]>> /\ y = <<y[1], y[2]>>
    BY <2>1
  <2>3. x[2] = y[2]
    BY <2>1 DEF RanOK
  <2> QED BY <2>2, <2>3
<1> QED BY <1>1, StashAlways, PTL

=============================================================================
