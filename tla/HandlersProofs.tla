-------------------------- MODULE HandlersProofs --------------------------
(***************************************************************************)
(* Proofs about Handlers: for any phases, handlers, requests and bounds, a *)
(* phase calls the handlers of its list in order, each once, and to the    *)
(* last of those pushed while it runs; and what a request pushes or sets   *)
(* is seen by that request only.                                           *)
(***************************************************************************)
EXTENDS Handlers, Induction

-----------------------------------------------------------------------------
(* The inductive invariant.                                                *)

\* The arrays that a section's configuration may point to for phase ph.
ConfIds(ph) == ({"own"} \X Sections \X {ph}) \cup {<<"merged", "vhost", ph>>}

\* Who may point to which array.
Ownership ==
    /\ \A s \in Sections, ph \in Phases : conf[s][ph] \in ConfIds(ph) \cup {NULL}
    /\ \A r \in Requests, ph \in Phases :
          dcfg[r][ph] \in ConfIds(ph) \cup {NULL, <<"merged", r, ph>>}

\* Requests run only once the server serves, and only those that have started;
\* the main server runs its phases during startup only.
Stages ==
    /\ stage # "serving" => opened = {}
    /\ \A r \in Requests : run[r].on => r \in opened /\ run[r].ph \in Phases
    /\ run["server"].on => stage = "startup" /\ run["server"].ph \in Phases

\* The runner is at the i-th handler of the list it looks up, and has called
\* those before it.
AtHandler(f, list) ==
    /\ f.i = Len(f.called)
    /\ f.reset = NULL =>
         /\ f.i <= Len(list)
         /\ \A k \in 1 .. f.i : f.called[k] = list[k]

Running ==
    \A x \in Runners : run[x].on =>
        /\ Lookup(x, run[x].ph) # NULL
        /\ AtHandler(run[x], array[Lookup(x, run[x].ph)])

\* The server's runner holds the array it looked up.
ServerHolds ==
    run["server"].on => run["server"].av = conf["main"][run["server"].ph]

HandlersInv == HandlersTypeOK /\ Ownership /\ Stages /\ Running /\ ServerHolds

-----------------------------------------------------------------------------
(* modperl_handler_array_merge computes a list of handlers.                *)

\* The inner loop of modperl_handler_array_merge: after j rounds F[j] has been
\* pushed.
OthersLoop(F, a, h, H) ==
    /\ F[0] = <<>>
    /\ \A j \in 1 .. Len(a) :
         F[j] = IF a[j] = h THEN F[j - 1] ELSE Append(F[j - 1], a[j])
    /\ \A j \in 0 .. Len(a) : F[j] \in Seq(H)
    /\ Others(a, h) = F[Len(a)]

LEMMA OthersLoops ==
    ASSUME NEW H, NEW a \in Seq(H), NEW h
    PROVE  \E F : OthersLoop(F, a, h, H)
<1> DEFINE n == Len(a)
           Body(g, j) == IF j = 0 THEN <<>>
                         ELSE IF a[j] = h THEN g[j - 1]
                         ELSE Append(g[j - 1], a[j])
           F == CHOOSE g : g = [j \in 0 .. n |-> Body(g, j)]
           st == [p \in (Nat \ {0}) \X Seq(H) |->
                    IF p[1] \in 1 .. n
                    THEN IF a[p[1]] = h THEN p[2] ELSE Append(p[2], a[p[1]])
                    ELSE p[2]]
<1>1. n \in Nat /\ \A j \in 1 .. n : a[j] \in H
  OBVIOUS
<1>2. st \in [(Nat \ {0}) \X Seq(H) -> Seq(H)]
  <2>1. ASSUME NEW i \in Nat \ {0}, NEW s \in Seq(H)
        PROVE  (IF i \in 1 .. n THEN IF a[i] = h THEN s ELSE Append(s, a[i])
                ELSE s) \in Seq(H)
    BY <1>1
  <2> QED BY <2>1
<1>3. \E g : IsLoop(g, n, Seq(H), <<>>, st)
  <2>1. << >> \in Seq(H)
    OBVIOUS
  <2> HIDE DEF st, n
  <2> QED BY <1>1, <1>2, <2>1, LoopExists
<1>4. PICK g : IsLoop(g, n, Seq(H), <<>>, st)
  BY <1>3
<1>5. g = [j \in 0 .. n |-> Body(g, j)]
  <2>1. ASSUME NEW j \in 1 .. n PROVE g[j] = Body(g, j)
    <3>1. g[j] = st[<<j, g[j - 1]>>] /\ g[j - 1] \in Seq(H)
      <4> HIDE DEF n, st
      <4> QED BY <1>1, <1>4 DEF IsLoop
    <3>2. <<j, g[j - 1]>> \in (Nat \ {0}) \X Seq(H)
      BY <3>1, <1>1
    <3> QED BY <3>1, <3>2, <1>1
  <2>2. g[0] = Body(g, 0) /\ DOMAIN g = 0 .. n /\ g = [j \in DOMAIN g |-> g[j]]
    BY <1>4 DEF IsLoop
  <2>3. ASSUME NEW j \in 0 .. n PROVE g[j] = Body(g, j)
    <3>1. j = 0 \/ j \in 1 .. n
      BY <1>1
    <3> HIDE DEF Body, n
    <3> QED BY <2>1, <2>2, <3>1
  <2> HIDE DEF Body, n
  <2> QED BY <2>2, <2>3
<1>6. F = [j \in 0 .. n |-> Body(F, j)]
  <2> HIDE DEF Body, n
  <2> QED BY <1>5, Zenon
<1>7. ASSUME NEW j \in 0 .. n PROVE F[j] = Body(F, j)
  <2> HIDE DEF F, Body, n
  <2> QED BY <1>6
<1>8. \A j \in 0 .. n : F[j] \in Seq(H)
  <2> DEFINE T == {j \in Nat : F[j] \in Seq(H)}
  <2> HIDE DEF F
  <2>2. ASSUME NEW j \in 1 .. n, j - 1 \in T PROVE j \in T
    <3>1. j \in Nat /\ j # 0 /\ j \in 0 .. n
      BY <1>1
    <3>2. F[j] = Body(F, j) /\ F[j - 1] \in Seq(H) /\ a[j] \in H
      <4> HIDE DEF Body, n
      <4> QED BY <1>1, <1>7, <2>2, <3>1 DEF T
    <3>3. Append(F[j - 1], a[j]) \in Seq(H)
      BY <3>2
    <3> QED BY <3>1, <3>2, <3>3
  <2>3. 0 \in T
    <3>1. 0 \in 0 .. n
      BY <1>1
    <3>2. F[0] = Body(F, 0)
      BY ONLY <1>7, <3>1
    <3>3. Body(F, 0) = <<>> /\ <<>> \in Seq(H)
      OBVIOUS
    <3> QED BY <3>2, <3>3
  <2> HIDE DEF T, n
  <2>4. \A j \in 0 .. n : j \in T
    BY <1>1, <2>2, <2>3, Upto
  <2> QED BY <2>4 DEF T
<1>9. Others(a, h) = F[n]
  BY DEF Others
<1>10. OthersLoop(F, a, h, H)
  <2> HIDE DEF F
  <2>1. 0 \in 0 .. n /\ \A j \in 1 .. n : j \in 0 .. n /\ j # 0
    BY <1>1
  <2>2. F[0] = <<>>
    <3>1. F[0] = Body(F, 0)
      BY ONLY <1>7, <2>1
    <3> QED BY <3>1
  <2>3. ASSUME NEW j \in 1 .. n PROVE F[j] = Body(F, j) /\ j # 0
    BY ONLY <1>7, <2>1
  <2> QED BY <1>8, <1>9, <2>2, <2>3 DEF OthersLoop
<1> HIDE DEF F
<1> QED BY <1>10

LEMMA OthersType ==
    ASSUME NEW H, NEW a \in Seq(H), NEW h
    PROVE  Others(a, h) \in Seq(H)
<1>1. PICK F : OthersLoop(F, a, h, H)
  BY OthersLoops
<1>2. Len(a) \in 0 .. Len(a)
  OBVIOUS
<1> QED BY <1>1, <1>2 DEF OthersLoop

\* The outer loop: after i rounds the new array is F[i].
MergeLoop(F, b, a, H) ==
    /\ F[0] = b
    /\ \A i \in 1 .. Len(b) : F[i] = F[i - 1] \o Others(a, b[i])
    /\ \A i \in 0 .. Len(b) : F[i] \in Seq(H)
    /\ ArrayMerge(b, a) = F[Len(b)]

LEMMA MergeLoops ==
    ASSUME NEW H, NEW b \in Seq(H), NEW a \in Seq(H)
    PROVE  \E F : MergeLoop(F, b, a, H)
<1> DEFINE n == Len(b)
           Body(g, j) == IF j = 0 THEN b ELSE g[j - 1] \o Others(a, b[j])
           F == CHOOSE g : g = [j \in 0 .. n |-> Body(g, j)]
           st == [p \in (Nat \ {0}) \X Seq(H) |->
                    p[2] \o Others(a, b[p[1]])]
<1>1. n \in Nat /\ \A j : Others(a, b[j]) \in Seq(H)
  BY OthersType
<1>2. st \in [(Nat \ {0}) \X Seq(H) -> Seq(H)]
  <2>1. ASSUME NEW i \in Nat \ {0}, NEW s \in Seq(H)
        PROVE  s \o Others(a, b[i]) \in Seq(H)
    BY <1>1
  <2> QED BY <2>1
<1>3. \E g : IsLoop(g, n, Seq(H), b, st)
  <2> HIDE DEF st, n
  <2> QED BY <1>1, <1>2, LoopExists
<1>4. PICK g : IsLoop(g, n, Seq(H), b, st)
  BY <1>3
<1>5. g = [j \in 0 .. n |-> Body(g, j)]
  <2>1. ASSUME NEW j \in 1 .. n PROVE g[j] = Body(g, j)
    <3>1. g[j] = st[<<j, g[j - 1]>>] /\ g[j - 1] \in Seq(H)
      <4> HIDE DEF n, st
      <4> QED BY <1>1, <1>4 DEF IsLoop
    <3>2. <<j, g[j - 1]>> \in (Nat \ {0}) \X Seq(H)
      BY <3>1, <1>1
    <3> QED BY <3>1, <3>2, <1>1
  <2>2. g[0] = Body(g, 0) /\ DOMAIN g = 0 .. n /\ g = [j \in DOMAIN g |-> g[j]]
    BY <1>4 DEF IsLoop
  <2>3. ASSUME NEW j \in 0 .. n PROVE g[j] = Body(g, j)
    <3>1. j = 0 \/ j \in 1 .. n
      BY <1>1
    <3> HIDE DEF Body, n
    <3> QED BY <2>1, <2>2, <3>1
  <2> HIDE DEF Body, n
  <2> QED BY <2>2, <2>3
<1>6. F = [j \in 0 .. n |-> Body(F, j)]
  <2> HIDE DEF Body, n
  <2> QED BY <1>5, Zenon
<1>7. ASSUME NEW j \in 0 .. n PROVE F[j] = Body(F, j)
  <2> HIDE DEF F, Body, n
  <2> QED BY <1>6
<1>8. \A j \in 0 .. n : F[j] \in Seq(H)
  <2> DEFINE T == {j \in Nat : F[j] \in Seq(H)}
  <2> HIDE DEF F
  <2>2. ASSUME NEW j \in 1 .. n, j - 1 \in T PROVE j \in T
    <3>1. j \in Nat /\ j # 0 /\ j \in 0 .. n
      BY <1>1
    <3>2. F[j] = Body(F, j) /\ F[j - 1] \in Seq(H) /\ Others(a, b[j]) \in Seq(H)
      <4> HIDE DEF Body, n
      <4> QED BY <1>1, <1>7, <2>2, <3>1 DEF T
    <3>3. F[j - 1] \o Others(a, b[j]) \in Seq(H)
      BY <3>2
    <3> QED BY <3>1, <3>2, <3>3
  <2>3. 0 \in T
    <3>1. 0 \in 0 .. n
      BY <1>1
    <3>2. F[0] = Body(F, 0)
      BY ONLY <1>7, <3>1
    <3>3. Body(F, 0) = b
      OBVIOUS
    <3> QED BY <3>2, <3>3
  <2> HIDE DEF T, n
  <2>4. \A j \in 0 .. n : j \in T
    BY <1>1, <2>2, <2>3, Upto
  <2> QED BY <2>4 DEF T
<1>9. ArrayMerge(b, a) = F[n]
  BY DEF ArrayMerge
<1>10. MergeLoop(F, b, a, H)
  <2> HIDE DEF F
  <2>1. 0 \in 0 .. n /\ \A j \in 1 .. n : j \in 0 .. n /\ j # 0
    BY <1>1
  <2>2. F[0] = b
    <3>1. F[0] = Body(F, 0)
      BY ONLY <1>7, <2>1
    <3> QED BY <3>1
  <2>3. ASSUME NEW j \in 1 .. n PROVE F[j] = Body(F, j) /\ j # 0
    BY ONLY <1>7, <2>1
  <2> QED BY <1>8, <1>9, <2>2, <2>3 DEF MergeLoop
<1> HIDE DEF F
<1> QED BY <1>10

LEMMA ArrayMergeType ==
    ASSUME NEW H, NEW b \in Seq(H), NEW a \in Seq(H)
    PROVE  ArrayMerge(b, a) \in Seq(H)
<1>1. PICK F : MergeLoop(F, b, a, H)
  BY MergeLoops
<1>2. Len(b) \in 0 .. Len(b)
  OBVIOUS
<1> QED BY <1>1, <1>2 DEF MergeLoop

\* h is in the list l.
In(h, l) == \E k \in 1 .. Len(l) : l[k] = h

LEMMA InConcat ==
    ASSUME NEW H, NEW l \in Seq(H), NEW m \in Seq(H), NEW h, In(h, l) \/ In(h, m)
    PROVE  In(h, l \o m)
<1>1. CASE In(h, l)
  BY <1>1 DEF In
<1>2. CASE In(h, m)
  <2>1. PICK k \in 1 .. Len(m) : m[k] = h
    BY <1>2 DEF In
  <2>2. Len(l) + k \in 1 .. Len(l \o m) /\ (l \o m)[Len(l) + k] = h
    BY <2>1
  <2> QED BY <2>2 DEF In
<1> QED BY <1>1, <1>2

\* The inner loop pushes every handler of a that is not h.
LEMMA OthersHolds ==
    ASSUME NEW H, NEW a \in Seq(H), NEW h, NEW j \in 1 .. Len(a), a[j] # h
    PROVE  In(a[j], Others(a, h))
<1>1. PICK F : OthersLoop(F, a, h, H)
  BY OthersLoops
<1> DEFINE T == {i \in Nat : j <= i => In(a[j], F[i])}
<1>2. 0 \in T
  OBVIOUS
<1>3. ASSUME NEW i \in 1 .. Len(a), i - 1 \in T PROVE i \in T
  <2>1. /\ F[i - 1] \in Seq(H) /\ a[i] \in H
        /\ F[i] = IF a[i] = h THEN F[i - 1] ELSE Append(F[i - 1], a[i])
    BY <1>1 DEF OthersLoop
  <2> SUFFICES ASSUME j <= i PROVE In(a[j], F[i])
    OBVIOUS
  <2>2. CASE j = i
    <3>1. F[i] = Append(F[i - 1], a[i])
      BY <2>1, <2>2
    <3>2. Len(F[i]) \in 1 .. Len(F[i]) /\ F[i][Len(F[i])] = a[i]
      BY <2>1, <3>1
    <3> QED BY <2>2, <3>2 DEF In
  <2>3. CASE j # i
    <3>1. In(a[j], F[i - 1])
      BY <1>3, <2>3
    <3>2. CASE a[i] = h
      BY <2>1, <3>1, <3>2
    <3>3. CASE a[i] # h
      <4>1. PICK k \in 1 .. Len(F[i - 1]) : F[i - 1][k] = a[j]
        BY <3>1 DEF In
      <4>2. k \in 1 .. Len(F[i]) /\ F[i][k] = a[j]
        BY <2>1, <3>3, <4>1
      <4> QED BY <4>2 DEF In
    <3> QED BY <3>2, <3>3
  <2> QED BY <2>2, <2>3
<1> HIDE DEF T
<1>4. \A i \in 0 .. Len(a) : i \in T
  <2>1. Len(a) \in Nat
    OBVIOUS
  <2> QED BY <1>2, <1>3, <2>1, Upto
<1>5. In(a[j], F[Len(a)])
  BY <1>4 DEF T
<1> QED BY <1>1, <1>5 DEF OthersLoop

\* modperl_handler_array_merge: the handlers of base come first, in their
\* order, and unless base is empty no handler of add is lost.
THEOREM MergeKeepsAll ==
    ASSUME NEW H, NEW b \in Seq(H), NEW a \in Seq(H)
    PROVE  /\ ArrayMerge(b, a) \in Seq(H)
           /\ Len(ArrayMerge(b, a)) >= Len(b)
           /\ \A i \in 1 .. Len(b) : ArrayMerge(b, a)[i] = b[i]
           /\ b # <<>> => \A j \in 1 .. Len(a) : In(a[j], ArrayMerge(b, a))
<1>1. PICK F : MergeLoop(F, b, a, H)
  BY MergeLoops
<1>2. Len(b) \in Nat /\ Len(a) \in Nat
  OBVIOUS
<1>3. ASSUME NEW i \in 1 .. Len(b)
      PROVE  /\ F[i - 1] \in Seq(H) /\ Others(a, b[i]) \in Seq(H)
             /\ F[i] = F[i - 1] \o Others(a, b[i])
  <2>1. i - 1 \in 0 .. Len(b)
    BY <1>2
  <2>2. Others(a, b[i]) \in Seq(H)
    BY OthersType
  <2> QED BY <1>1, <2>1, <2>2 DEF MergeLoop
<1>4. \A i \in 0 .. Len(b) :
         Len(F[i]) >= Len(b) /\ \A k \in 1 .. Len(b) : F[i][k] = b[k]
  <2> DEFINE T == {i \in Nat : /\ Len(F[i]) >= Len(b)
                               /\ \A k \in 1 .. Len(b) : F[i][k] = b[k]}
  <2>1. 0 \in T
    BY <1>1 DEF MergeLoop
  <2>2. ASSUME NEW i \in 1 .. Len(b), i - 1 \in T PROVE i \in T
    <3> DEFINE o == Others(a, b[i])
    <3>1. /\ F[i - 1] \in Seq(H) /\ o \in Seq(H) /\ F[i] = F[i - 1] \o o
          /\ Len(F[i - 1]) >= Len(b)
          /\ \A k \in 1 .. Len(b) : F[i - 1][k] = b[k]
      BY <1>3, <2>2
    <3> HIDE DEF o
    <3>2. Len(F[i]) >= Len(F[i - 1])
          /\ \A k \in 1 .. Len(F[i - 1]) : F[i][k] = F[i - 1][k]
      BY <3>1
    <3>3. i \in Nat /\ Len(F[i - 1]) \in Nat /\ Len(F[i]) \in Nat
      BY <3>1
    <3> QED BY <1>2, <3>1, <3>2, <3>3
  <2> HIDE DEF T
  <2>3. \A i \in 0 .. Len(b) : i \in T
    BY <1>2, <2>1, <2>2, Upto
  <2> QED BY <2>3 DEF T
<1>5. ASSUME b # <<>>, NEW j \in 1 .. Len(a)
      PROVE  In(a[j], ArrayMerge(b, a))
  <2> DEFINE T == {i \in Nat : i >= 1 => In(a[j], F[i])}
  <2>1. 0 \in T
    OBVIOUS
  <2>2. ASSUME NEW i \in 1 .. Len(b), i - 1 \in T PROVE i \in T
    <3>1. In(a[j], F[i - 1]) \/ In(a[j], Others(a, b[i]))
      <4>1. CASE i = 1 /\ a[j] # b[1]
        BY <4>1, OthersHolds
      <4>2. CASE i = 1 /\ a[j] = b[1]
        BY <1>1, <4>2 DEF MergeLoop, In
      <4>3. CASE i # 1
        BY <2>2, <4>3
      <4> QED BY <4>1, <4>2, <4>3
    <3>2. In(a[j], F[i - 1] \o Others(a, b[i]))
      <4>1. F[i - 1] \in Seq(H) /\ Others(a, b[i]) \in Seq(H)
        BY <1>3
      <4> QED BY <3>1, <4>1, InConcat
    <3>3. F[i] = F[i - 1] \o Others(a, b[i])
      BY <1>3
    <3>4. In(a[j], F[i]) /\ i \in Nat
      BY ONLY <1>2, <3>2, <3>3, i \in 1 .. Len(b)
    <3> QED BY <3>4
  <2> HIDE DEF T
  <2>3. \A i \in 0 .. Len(b) : i \in T
    BY <1>2, <2>1, <2>2, Upto
  <2>4. Len(b) >= 1 /\ Len(b) \in 0 .. Len(b)
    BY <1>5
  <2>5. In(a[j], F[Len(b)])
    BY <2>3, <2>4 DEF T
  <2> QED BY <1>1, <2>5 DEF MergeLoop
<1>6. Len(b) \in 0 .. Len(b) /\ ArrayMerge(b, a) = F[Len(b)]
  BY <1>1, <1>2 DEF MergeLoop
<1>7. ArrayMerge(b, a) \in Seq(H)
  BY ArrayMergeType
<1> QED BY <1>4, <1>5, <1>6, <1>7

-----------------------------------------------------------------------------
(* Identities of arrays.                                                   *)

\* Arrays that a configuration, a merge for a request, or a request itself
\* has made are different arrays.
LEMMA IdsDiffer ==
    ASSUME NEW r \in Requests, NEW q \in Requests \cup {"vhost"},
           NEW ph \in Phases, NEW p \in Phases
    PROVE  /\ <<"request", r, ph>> \notin ConfIds(p)
           /\ <<"merged", r, ph>> \notin ConfIds(p)
           /\ <<"request", r, ph>> # <<"merged", q, p>>
           /\ ConfIds(p) \subseteq Ids
           /\ <<"request", r, ph>> \in Ids
           /\ <<"merged", q, p>> \in Ids
           /\ NULL \notin ConfIds(p)
  BY HandlersAssumption DEF ConfIds, Ids, Sections

\* What a runner looks up is of its phase, and made by the configuration, for
\* it or by it.
LEMMA LookedUp ==
    ASSUME HandlersTypeOK, Ownership, NEW ph \in Phases
    PROVE  /\ Lookup("server", ph) \in ConfIds(ph) \cup {NULL}
           /\ \A r \in Requests :
                /\ Lookup(r, ph) \in ConfIds(ph) \cup
                     {NULL, <<"merged", r, ph>>, <<"request", r, ph>>}
                /\ Lookup(r, ph) \in Ids \cup {NULL}
<1>1. Lookup("server", ph) \in ConfIds(ph) \cup {NULL}
  BY DEF Lookup, Ownership, Sections
<1>2. ASSUME NEW r \in Requests
      PROVE  /\ Lookup(r, ph) \in ConfIds(ph) \cup
                  {NULL, <<"merged", r, ph>>, <<"request", r, ph>>}
             /\ Lookup(r, ph) \in Ids \cup {NULL}
  <2>1. r # "server"
    BY HandlersAssumption
  <2>2. dcfg[r][ph] \in Ids \cup {NULL}
    BY DEF HandlersTypeOK
  <2>3. rcfg[r][ph] \in {NULL, <<"request", r, ph>>}
    BY DEF HandlersTypeOK
  <2>4. dcfg[r][ph] \in ConfIds(ph) \cup {NULL, <<"merged", r, ph>>}
    BY DEF Ownership
  <2>5. <<"request", r, ph>> \in Ids
    BY IdsDiffer
  <2> QED BY <2>1, <2>2, <2>3, <2>4, <2>5 DEF Lookup
<1> QED BY <1>1, <1>2

-----------------------------------------------------------------------------
(* Every action keeps the types.                                           *)

LEMMA ListsType == Lists \subseteq Seq(Handler)
<1>1. <<>> \in Seq(Handler)
  OBVIOUS
<1>2. ASSUME NEW h \in Handler PROVE <<h>> \in Seq(Handler)
  OBVIOUS
<1>3. ASSUME NEW g \in Handler, NEW h \in Handler
      PROVE  <<g, h>> \in Seq(Handler)
  OBVIOUS
<1>4. SUFFICES ASSUME NEW l \in Lists PROVE l \in Seq(Handler)
  OBVIOUS
<1>5. \/ l = <<>>
      \/ \E h \in Handler : l = <<h>>
      \/ \E g, h \in Handler : l = <<g, h>>
  BY DEF Lists
<1> QED BY <1>1, <1>2, <1>3, <1>5

\* What a merge points to is one of the three arrays or none.
LEMMA MergeRefIn ==
    ASSUME NEW ph, NEW b, NEW a, NEW n
    PROVE  MergeRef(ph, b, a, n) \in {b, a, n}
  BY DEF MergeRef

LEMMA ViewType ==
    ASSUME HandlersTypeOK, NEW ref \in Ids \cup {NULL}
    PROVE  View(ref) \in Seq(Handler)
  BY DEF View, HandlersTypeOK

LEMMA InitType ==
    ASSUME HandlersInit PROVE HandlersTypeOK
<1> USE HandlersAssumption DEF HandlersInit
<1>1. Idle \in RunType
  BY DEF Idle, RunType
<1> QED BY <1>1 DEF HandlersTypeOK, Runners

LEMMA ConfigHandlerType ==
    ASSUME HandlersTypeOK, NEW s \in Sections, NEW ph \in Phases,
           NEW h \in Handler, ConfigHandler(s, ph, h)
    PROVE  HandlersTypeOK'
<1> USE DEF HandlersTypeOK
<1> DEFINE own == <<"own", s, ph>>
<1>1. own \in Ids
  BY DEF Ids
<1>2. array' = [array EXCEPT ![own] = Append(@, h)]
      /\ conf' = [conf EXCEPT ![s][ph] = own]
  BY DEF ConfigHandler
<1>3. array' \in [Ids -> Seq(Handler)]
  BY <1>1, <1>2
<1>4. conf' \in [Sections -> [Phases -> Ids \cup {NULL}]]
  BY <1>1, <1>2
<1>5. ops' \in 0 .. MaxOps
  BY HandlersAssumption DEF ConfigHandler, CountOp
<1> QED BY <1>3, <1>4, <1>5 DEF ConfigHandler

LEMMA StartServerType ==
    ASSUME HandlersTypeOK, StartServer
    PROVE  HandlersTypeOK'
<1> USE DEF HandlersTypeOK
<1> DEFINE new(ph) == <<"merged", "vhost", ph>>
           ref(ph) == MergeRef(ph, conf["main"][ph], conf["vhost"][ph], new(ph))
<1>1. conf' = [conf EXCEPT !["vhost"] = [ph \in Phases |-> ref(ph)]]
  BY DEF StartServer
<1>2. ASSUME NEW ph \in Phases PROVE ref(ph) \in Ids \cup {NULL}
  <2>1. new(ph) \in Ids
    BY DEF Ids
  <2>2. ref(ph) \in {conf["vhost"][ph], conf["main"][ph], new(ph)}
    BY MergeRefIn
  <2>3. conf["vhost"][ph] \in Ids \cup {NULL} /\ conf["main"][ph] \in Ids \cup {NULL}
    BY DEF Sections
  <2> QED BY <2>1, <2>2, <2>3
<1>3. conf' \in [Sections -> [Phases -> Ids \cup {NULL}]]
  BY <1>1, <1>2
<1>4. ASSUME NEW a \in Ids PROVE array'[a] \in Seq(Handler)
  <2>1. array'[a] = IF a[1] = "merged" /\ conf'["vhost"][a[3]] = a
                    THEN ArrayMerge(View(conf["main"][a[3]]),
                                    View(conf["vhost"][a[3]]))
                    ELSE array[a]
    BY DEF StartServer
  <2>2. a[3] \in Phases
    BY DEF Ids
  <2>3. View(conf["main"][a[3]]) \in Seq(Handler)
        /\ View(conf["vhost"][a[3]]) \in Seq(Handler)
    BY <2>2, ViewType DEF Sections
  <2>4. ArrayMerge(View(conf["main"][a[3]]), View(conf["vhost"][a[3]]))
          \in Seq(Handler)
    BY <2>3, ArrayMergeType
  <2> QED BY <2>1, <2>4
<1>5. array' \in [Ids -> Seq(Handler)]
  <2>1. array' = [a \in Ids |-> array'[a]]
    BY DEF StartServer
  <2> QED BY <2>1, <1>4
<1> QED BY <1>3, <1>5 DEF StartServer

LEMMA ServerModifyType ==
    ASSUME HandlersTypeOK, NEW s \in Servers, NEW ph \in Phases,
           NEW action, NEW list \in Lists, ServerModify(s, ph, action, list)
    PROVE  HandlersTypeOK'
<1> USE DEF HandlersTypeOK
<1> DEFINE ref == IF conf[s][ph] = NULL THEN <<"own", s, ph>> ELSE conf[s][ph]
           old == IF action = "PUSH" THEN array[ref] ELSE <<>>
<1>1. ref \in Ids
  BY DEF Ids, Servers, Sections
<1>2. old \o list \in Seq(Handler)
  BY <1>1, ListsType
<1>3. array' = [array EXCEPT ![ref] = old \o list]
      /\ conf' = [conf EXCEPT ![s][ph] = ref]
  BY DEF ServerModify
<1>4. array' \in [Ids -> Seq(Handler)]
  <2> HIDE DEF ref, old
  <2> QED BY <1>1, <1>2, <1>3
<1>5. conf' \in [Sections -> [Phases -> Ids \cup {NULL}]]
  <2> HIDE DEF ref, old
  <2> QED BY <1>1, <1>3 DEF Servers, Sections
<1>6. ops' \in 0 .. MaxOps
  BY HandlersAssumption DEF ServerModify, CountOp
<1>7. run' \in [Runners -> RunType]
  <2>1. "server" \in Runners /\ Len(run["server"].called) \in Nat
    BY DEF Runners, RunType
  <2>2. PICK v \in Nat \cup {NULL} :
           run' = [run EXCEPT !["server"].reset = v]
    <3>1. run["server"].reset \in Nat \cup {NULL}
      BY <2>1 DEF RunType
    <3> QED BY <2>1, <3>1 DEF ServerModify
  <2>3. [run["server"] EXCEPT !.reset = v] \in RunType
    BY <2>1, <2>2 DEF RunType
  <2> QED BY <2>1, <2>2, <2>3
<1> QED BY <1>4, <1>5, <1>6, <1>7 DEF ServerModify

LEMMA RequestStartType ==
    ASSUME HandlersTypeOK, NEW r \in Requests, RequestStart(r)
    PROVE  HandlersTypeOK'
<1> USE DEF HandlersTypeOK
<1> DEFINE ref(ph) == IF Kind[ph] = "dir"
                      THEN MergeRef(ph, conf["vhost"][ph], conf["loc"][ph],
                                    <<"merged", r, ph>>)
                      ELSE conf["vhost"][ph]
<1>1. dcfg' = [dcfg EXCEPT ![r] = [ph \in Phases |-> ref(ph)]]
  BY DEF RequestStart
<1>2. ASSUME NEW ph \in Phases PROVE ref(ph) \in Ids \cup {NULL}
  <2>1. <<"merged", r, ph>> \in Ids
    BY DEF Ids
  <2>2. ref(ph) \in {conf["vhost"][ph], conf["loc"][ph], <<"merged", r, ph>>}
    BY MergeRefIn
  <2>3. conf["vhost"][ph] \in Ids \cup {NULL} /\ conf["loc"][ph] \in Ids \cup {NULL}
    BY DEF Sections
  <2> QED BY <2>1, <2>2, <2>3
<1>3. dcfg' \in [Requests -> [Phases -> Ids \cup {NULL}]]
  BY <1>1, <1>2
<1>4. ASSUME NEW a \in Ids PROVE array'[a] \in Seq(Handler)
  <2>1. array'[a] = IF a[1] = "merged" /\ a[2] = r /\ dcfg'[r][a[3]] = a
                    THEN ArrayMerge(View(conf["vhost"][a[3]]),
                                    View(conf["loc"][a[3]]))
                    ELSE array[a]
    BY DEF RequestStart
  <2>2. a[3] \in Phases
    BY DEF Ids
  <2>3. View(conf["vhost"][a[3]]) \in Seq(Handler)
        /\ View(conf["loc"][a[3]]) \in Seq(Handler)
    BY <2>2, ViewType DEF Sections
  <2>4. ArrayMerge(View(conf["vhost"][a[3]]), View(conf["loc"][a[3]]))
          \in Seq(Handler)
    BY <2>3, ArrayMergeType
  <2> QED BY <2>1, <2>4
<1>5. array' \in [Ids -> Seq(Handler)]
  <2>1. array' = [a \in Ids |-> array'[a]]
    BY DEF RequestStart
  <2> QED BY <2>1, <1>4
<1> QED BY <1>3, <1>5 DEF RequestStart

LEMMA PhaseStartType ==
    ASSUME HandlersTypeOK, Ownership, NEW x \in Runners, NEW ph \in Phases,
           PhaseStart(x, ph)
    PROVE  HandlersTypeOK'
<1> DEFINE av == Lookup(x, ph)
<1>1. av \in Ids
  <2>1. av \in Ids \cup {NULL}
    <3>1. conf["main"][ph] \in Ids \cup {NULL}
      BY DEF HandlersTypeOK, Sections
    <3>2. CASE x = "server"
      BY <3>1, <3>2 DEF Lookup
    <3>3. CASE x # "server"
      BY <3>3, LookedUp DEF Runners
    <3> QED BY <3>2, <3>3
  <2> QED BY <2>1 DEF PhaseStart
<1>2. array[av] \in Seq(Handler)
  BY <1>1 DEF HandlersTypeOK
<1>3. Idle \in RunType
  BY DEF Idle, RunType
<1>4. ASSUME array[av] # <<>>
      PROVE  [Idle EXCEPT !.on = TRUE, !.ph = ph, !.i = 1, !.av = av,
                          !.called = <<Head(array[av])>>] \in RunType
  <2>1. <<Head(array[av])>> \in Seq(Handler)
    BY <1>2, <1>4
  <2> QED BY <1>1, <2>1 DEF Idle, RunType
<1>5. run' \in [Runners -> RunType]
  <2>1. PICK v \in RunType : run' = [run EXCEPT ![x] = v]
    <3>1. run' = [run EXCEPT ![x] =
                  IF array[av] = <<>> THEN Idle
                  ELSE [Idle EXCEPT !.on = TRUE, !.ph = ph, !.i = 1,
                                    !.av = av, !.called = <<Head(array[av])>>]]
      BY DEF PhaseStart
    <3> QED BY <1>3, <1>4, <3>1, Zenon
  <2> QED BY <2>1 DEF HandlersTypeOK
<1> QED BY <1>5 DEF PhaseStart, HandlersTypeOK

\* The array a running phase continues with.
LEMMA NextArray ==
    ASSUME HandlersTypeOK, Ownership, Stages, NEW x \in Runners, run[x].on,
           Lookup(x, run[x].ph) # NULL
    PROVE  /\ Lookup(x, run[x].ph) \in Ids
           /\ array[Lookup(x, run[x].ph)] \in Seq(Handler)
<1>1. run[x].ph \in Phases
  BY DEF Stages, Runners
<1>2. Lookup(x, run[x].ph) \in Ids \cup {NULL}
  <2>1. conf["main"][run[x].ph] \in Ids \cup {NULL}
    BY <1>1 DEF HandlersTypeOK, Sections
  <2>2. CASE x = "server"
    BY <2>1, <2>2 DEF Lookup
  <2>3. CASE x # "server"
    BY <1>1, <2>3, LookedUp DEF Runners
  <2> QED BY <2>2, <2>3
<1> QED BY <1>2 DEF HandlersTypeOK

LEMMA CallbackReturnType ==
    ASSUME HandlersTypeOK, Ownership, Stages, Running, NEW x \in Runners,
           NEW status, CallbackReturn(x, status)
    PROVE  HandlersTypeOK'
<1> DEFINE f == run[x]
           av == Lookup(x, f.ph)
           ends == Stops(f.ph, status)
<1>1. f.on /\ av # NULL
  BY DEF CallbackReturn, Running
<1>2. av \in Ids /\ array[av] \in Seq(Handler)
  BY <1>1, NextArray
<1>3. f \in RunType
  BY DEF HandlersTypeOK
<1>4. run' = [run EXCEPT ![x] =
                  IF ends \/ f.i >= Len(array[av])
                  THEN [Idle EXCEPT !.stopped = ends]
                  ELSE [f EXCEPT !.i = f.i + 1, !.av = av,
                                 !.called = Append(@, array[av][f.i + 1])]]
  BY <1>1 DEF CallbackReturn
<1>5. [Idle EXCEPT !.stopped = ends] \in RunType
  <2>1. ends \in BOOLEAN
    <3>1. Mode[f.ph] \in {"all", "first", "void"}
      BY <1>1, HandlersAssumption DEF Stages, Runners
    <3> QED BY <3>1 DEF Stops
  <2>2. [Idle EXCEPT !.stopped = TRUE] \in RunType
        /\ [Idle EXCEPT !.stopped = FALSE] \in RunType
    <3>1. Idle \in RunType
      BY DEF Idle, RunType
    <3>2. [Idle EXCEPT !.stopped = TRUE] \in RunType
      BY <3>1 DEF RunType
    <3>3. [Idle EXCEPT !.stopped = FALSE] \in RunType
      BY <3>1 DEF RunType
    <3> QED BY <3>2, <3>3
  <2> HIDE DEF ends
  <2> QED BY <2>1, <2>2, Zenon
<1>6. ASSUME ~(f.i >= Len(array[av]))
      PROVE  [f EXCEPT !.i = f.i + 1, !.av = av,
                       !.called = Append(@, array[av][f.i + 1])] \in RunType
  <2>1. array[av][f.i + 1] \in Handler
    BY <1>2, <1>3, <1>6 DEF RunType
  <2>2. Append(f.called, array[av][f.i + 1]) \in Seq(Handler)
    BY <1>3, <2>1 DEF RunType
  <2> DEFINE l == Append(f.called, array[av][f.i + 1])
  <2> HIDE DEF f, av, l
  <2>3. f.i + 1 \in Nat
    BY <1>3 DEF RunType
  <2>4. l \in Seq(Handler)
    BY <2>2 DEF l
  <2>5. [f EXCEPT !.i = f.i + 1, !.av = av, !.called = l] \in RunType
    BY <1>2, <1>3, <2>3, <2>4 DEF RunType
  <2> QED BY <1>3, <2>5 DEF RunType, l
<1>7. run' \in [Runners -> RunType]
  <2>1. PICK v \in RunType : run' = [run EXCEPT ![x] = v]
    BY <1>4, <1>5, <1>6, Zenon
  <2> QED BY <2>1 DEF HandlersTypeOK
<1> QED BY <1>7 DEF CallbackReturn, HandlersTypeOK

\* A request's push or set: its own array and pointer change.
LEMMA RequestModifyType ==
    ASSUME HandlersTypeOK, NEW r \in Requests, NEW ph \in Phases,
           NEW l \in Seq(Handler),
           array' = [array EXCEPT ![<<"request", r, ph>>] = l],
           rcfg' = [rcfg EXCEPT ![r][ph] = <<"request", r, ph>>],
           UNCHANGED <<stage, conf, dcfg, opened>>,
           run' \in [Runners -> RunType], CountOp
    PROVE  HandlersTypeOK'
<1>1. <<"request", r, ph>> \in Ids
  BY DEF Ids
<1>2. array' \in [Ids -> Seq(Handler)]
  BY <1>1 DEF HandlersTypeOK
<1>3. rcfg' \in [Requests -> [Phases -> Ids \cup {NULL}]]
  BY <1>1 DEF HandlersTypeOK
<1>4. ops' \in 0 .. MaxOps
  BY HandlersAssumption DEF HandlersTypeOK, CountOp
<1>5. \A q \in Requests, p \in Phases :
         rcfg'[q][p] \in {NULL, <<"request", q, p>>}
  BY DEF HandlersTypeOK
<1> QED BY <1>2, <1>3, <1>4, <1>5 DEF HandlersTypeOK

LEMMA RequestPushType ==
    ASSUME HandlersTypeOK, Ownership, NEW r \in Requests, NEW ph \in Phases,
           NEW list \in Lists, RequestPush(r, ph, list)
    PROVE  HandlersTypeOK'
<1> DEFINE l == View(Lookup(r, ph)) \o list
<1>1. l \in Seq(Handler)
  <2>1. View(Lookup(r, ph)) \in Seq(Handler)
    BY LookedUp, ViewType
  <2>2. list \in Seq(Handler)
    BY ListsType
  <2> QED BY <2>1, <2>2
<1>2. /\ array' = [array EXCEPT ![<<"request", r, ph>>] = l]
      /\ rcfg' = [rcfg EXCEPT ![r][ph] = <<"request", r, ph>>]
      /\ UNCHANGED <<stage, conf, dcfg, opened>>
      /\ CountOp
  BY DEF RequestPush
<1>3. run' \in [Runners -> RunType]
  BY DEF RequestPush, HandlersTypeOK
<1> HIDE DEF l
<1> QED BY <1>1, <1>2, <1>3, RequestModifyType

LEMMA RequestSetType ==
    ASSUME HandlersTypeOK, NEW r \in Requests, NEW ph \in Phases,
           NEW list \in Lists, RequestSet(r, ph, list)
    PROVE  HandlersTypeOK'
<1>1. list \in Seq(Handler)
  BY ListsType
<1>2. /\ array' = [array EXCEPT ![<<"request", r, ph>>] = list]
      /\ rcfg' = [rcfg EXCEPT ![r][ph] = <<"request", r, ph>>]
      /\ UNCHANGED <<stage, conf, dcfg, opened>>
      /\ CountOp
  BY DEF RequestSet
<1>3. run' \in [Runners -> RunType]
  <2>1. r \in Runners /\ Len(run[r].called) \in Nat
        /\ run[r].reset \in Nat \cup {NULL}
    BY DEF Runners, RunType, HandlersTypeOK
  <2>2. PICK v \in Nat \cup {NULL} : run' = [run EXCEPT ![r].reset = v]
    BY <2>1 DEF RequestSet
  <2>3. [run[r] EXCEPT !.reset = v] \in RunType
    BY <2>1, <2>2, ZenonT(60) DEF RunType, HandlersTypeOK
  <2> QED BY <2>1, <2>2, <2>3 DEF HandlersTypeOK
<1> QED BY <1>1, <1>2, <1>3, RequestModifyType

-----------------------------------------------------------------------------
(* A runner keeps its place in its list.                                   *)

\* Handlers are pushed to the end of the list.
LEMMA AtPushed ==
    ASSUME NEW f \in RunType, NEW l \in Seq(Handler), NEW m \in Seq(Handler),
           AtHandler(f, l)
    PROVE  AtHandler(f, l \o m)
  BY DEF AtHandler, RunType

\* The list is replaced.
LEMMA AtReplaced ==
    ASSUME NEW f \in RunType, NEW l, NEW m, AtHandler(f, l),
           NEW g, g = [f EXCEPT !.reset = Len(f.called)]
    PROVE  AtHandler(g, m)
<1>1. Len(f.called) \in Nat /\ NULL \notin Nat
  BY HandlersAssumption DEF RunType
<1>2. g.reset = Len(f.called) /\ g.i = f.i /\ g.called = f.called
  BY DEF RunType
<1> QED BY <1>1, <1>2 DEF AtHandler

\* The first handler is called.
LEMMA AtFirst ==
    ASSUME NEW l \in Seq(Handler), l # <<>>, NEW ph, NEW av, NEW g,
           g = [Idle EXCEPT !.on = TRUE, !.ph = ph, !.i = 1, !.av = av,
                            !.called = <<Head(l)>>]
    PROVE  AtHandler(g, l)
<1>1. g.i = 1 /\ g.called = <<Head(l)>>
  BY DEF Idle
<1>2. Len(l) >= 1 /\ Head(l) = l[1]
  OBVIOUS
<1> QED BY <1>1, <1>2 DEF AtHandler

\* The next handler is called.
LEMMA AtNext ==
    ASSUME NEW f \in RunType, NEW l \in Seq(Handler), AtHandler(f, l),
           ~(f.i >= Len(l)), NEW av, NEW g,
           g = [f EXCEPT !.i = f.i + 1, !.av = av,
                         !.called = Append(@, l[f.i + 1])]
    PROVE  AtHandler(g, l)
<1>1. /\ g.i = f.i + 1 /\ g.reset = f.reset
      /\ g.called = Append(f.called, l[f.i + 1])
  BY DEF RunType
<1>2. f.i \in Nat /\ f.called \in Seq(Handler) /\ l[f.i + 1] \in Handler
  BY DEF RunType
<1>3. g.i = Len(g.called)
  BY <1>1, <1>2 DEF AtHandler
<1>4. ASSUME g.reset = NULL
      PROVE  g.i <= Len(l) /\ \A k \in 1 .. g.i : g.called[k] = l[k]
  <2>1. \A k \in 1 .. f.i : f.called[k] = l[k]
    BY <1>1, <1>4 DEF AtHandler
  <2>2. f.i = Len(f.called)
    BY DEF AtHandler
  <2> QED BY <1>1, <1>2, <2>1, <2>2
<1> QED BY <1>3, <1>4 DEF AtHandler

\* Nothing runs while the configuration is read.
LEMMA NobodyRuns ==
    ASSUME Stages, stage = "config"
    PROVE  \A x \in Runners : ~run[x].on
  BY DEF Stages, Runners

\* What a runner looks up is not an array that another runner makes.
LEMMA NotOfOther ==
    ASSUME HandlersTypeOK, Ownership, NEW x \in Runners, NEW r \in Requests,
           x # r, NEW p \in Phases, NEW ph \in Phases, Lookup(x, p) # NULL
    PROVE  /\ Lookup(x, p) \in Ids
           /\ ~(Lookup(x, p)[1] = "merged" /\ Lookup(x, p)[2] = r)
           /\ Lookup(x, p) # <<"request", r, ph>>
<1> DEFINE a == Lookup(x, p)
<1>1. "vhost" # r
  BY HandlersAssumption
<1>2. a \in ConfIds(p) \/ (x \in Requests /\ a \in {<<"merged", x, p>>, <<"request", x, p>>})
  BY LookedUp DEF Runners
<1>3. CASE a \in ConfIds(p)
  <2>1. a \in Ids /\ a # <<"request", r, ph>>
    BY <1>3, IdsDiffer
  <2>2. a[1] = "own" \/ a[2] = "vhost"
    BY <1>3 DEF ConfIds
  <2>3. a[1] = "own" => a[1] # "merged"
    OBVIOUS
  <2> HIDE DEF a
  <2> QED BY <1>1, <2>1, <2>2, <2>3 DEF a
<1>4. CASE x \in Requests /\ a = <<"merged", x, p>>
  <2>1. a \in Ids
    BY <1>4, IdsDiffer
  <2>2. a[1] = "merged" /\ a[2] = x
    BY <1>4
  <2>3. a # <<"request", r, ph>>
    BY <2>2
  <2> QED BY <2>1, <2>2, <2>3
<1>5. CASE x \in Requests /\ a = <<"request", x, p>>
  <2>1. a \in Ids
    BY <1>5, IdsDiffer
  <2>2. a[1] = "request" /\ a[2] = x
    BY <1>5
  <2> QED BY <2>1, <2>2
<1> HIDE DEF a
<1> QED BY <1>2, <1>3, <1>4, <1>5 DEF a

-----------------------------------------------------------------------------
(* The parts of the invariant are kept.                                    *)

OthersInv == Ownership /\ Stages /\ Running /\ ServerHolds

\* A step that moves no runner and changes neither what the runners look up
\* nor what is in it.
LEMMA RunningKept ==
    ASSUME Running, Stages, UNCHANGED run,
           \A x \in Runners : run[x].on =>
              /\ Lookup(x, run[x].ph)' = Lookup(x, run[x].ph)
              /\ array'[Lookup(x, run[x].ph)] = array[Lookup(x, run[x].ph)]
    PROVE  Running'
<1> SUFFICES ASSUME NEW x \in Runners', run'[x].on
             PROVE  /\ (Lookup(x, run[x].ph) # NULL)'
                    /\ (AtHandler(run[x], array[Lookup(x, run[x].ph)]))'
  BY DEF Running
<1>1. x \in Runners /\ run[x].on
  BY DEF Runners
<1>2. Lookup(x, run[x].ph) # NULL /\ AtHandler(run[x], array[Lookup(x, run[x].ph)])
  BY <1>1 DEF Running
<1> QED BY <1>1, <1>2 DEF AtHandler

LEMMA InitInv ==
    ASSUME HandlersInit PROVE OthersInv
<1> USE DEF HandlersInit
<1>1. \A x \in Runners : ~run[x].on
  BY DEF Idle
<1>2. Ownership
  BY DEF Ownership
<1>3. Stages
  BY <1>1 DEF Stages, Runners
<1>4. Running /\ ServerHolds
  BY <1>1 DEF Running, ServerHolds, Runners
<1> QED BY <1>2, <1>3, <1>4 DEF OthersInv

LEMMA ConfigHandlerInv ==
    ASSUME HandlersInv, NEW s \in Sections, NEW ph \in Phases,
           NEW h \in Handler, ConfigHandler(s, ph, h)
    PROVE  OthersInv'
<1> USE DEF HandlersInv
<1>1. \A x \in Runners : ~run'[x].on
  BY NobodyRuns DEF ConfigHandler
<1>2. Ownership'
  <2>1. <<"own", s, ph>> \in ConfIds(ph)
    BY DEF ConfIds
  <2>2. conf' = [conf EXCEPT ![s][ph] = <<"own", s, ph>>] /\ dcfg' = dcfg
    BY DEF ConfigHandler
  <2>3. conf \in [Sections -> [Phases -> Ids \cup {NULL}]]
    BY DEF HandlersTypeOK
  <2> QED BY <2>1, <2>2, <2>3 DEF Ownership
<1>3. Stages'
  BY <1>1 DEF Stages, Runners, ConfigHandler
<1>4. Running' /\ ServerHolds'
  BY <1>1 DEF Running, ServerHolds, Runners
<1> QED BY <1>2, <1>3, <1>4 DEF OthersInv

LEMMA StartServerInv ==
    ASSUME HandlersInv, StartServer
    PROVE  OthersInv'
<1> USE DEF HandlersInv
<1>1. \A x \in Runners : ~run'[x].on
  BY NobodyRuns DEF StartServer
<1>2. Ownership'
  <2> DEFINE ref(ph) == MergeRef(ph, conf["main"][ph], conf["vhost"][ph],
                                 <<"merged", "vhost", ph>>)
  <2>1. conf' = [conf EXCEPT !["vhost"] = [ph \in Phases |-> ref(ph)]]
        /\ dcfg' = dcfg
    BY DEF StartServer
  <2>2. ASSUME NEW ph \in Phases PROVE ref(ph) \in ConfIds(ph) \cup {NULL}
    <3>1. conf["main"][ph] \in ConfIds(ph) \cup {NULL}
          /\ conf["vhost"][ph] \in ConfIds(ph) \cup {NULL}
      BY DEF Ownership, Sections
    <3>2. <<"merged", "vhost", ph>> \in ConfIds(ph)
      BY DEF ConfIds
    <3>3. ref(ph) \in {conf["main"][ph], conf["vhost"][ph], <<"merged", "vhost", ph>>}
      BY MergeRefIn
    <3> QED BY <3>1, <3>2, <3>3
  <2>3. conf \in [Sections -> [Phases -> Ids \cup {NULL}]]
    BY DEF HandlersTypeOK
  <2> HIDE DEF ref
  <2> QED BY <2>1, <2>2, <2>3 DEF Ownership
<1>3. Stages'
  BY <1>1 DEF Stages, Runners, StartServer
<1>4. Running' /\ ServerHolds'
  BY <1>1 DEF Running, ServerHolds, Runners
<1> QED BY <1>2, <1>3, <1>4 DEF OthersInv

LEMMA ServeInv ==
    ASSUME HandlersInv, Serve
    PROVE  OthersInv'
<1> USE DEF HandlersInv, Serve
<1>1. Ownership'
  BY DEF Ownership
<1>2. Stages'
  BY DEF Stages
<1>3. Running'
  BY RunningKept DEF Lookup
<1>4. ServerHolds'
  BY DEF ServerHolds
<1> QED BY <1>1, <1>2, <1>3, <1>4 DEF OthersInv

LEMMA ServerModifyInv ==
    ASSUME HandlersInv, NEW s \in Servers, NEW ph \in Phases,
           NEW action \in {"PUSH", "SET"}, NEW list \in Lists,
           ServerModify(s, ph, action, list)
    PROVE  OthersInv'
<1> USE DEF HandlersInv
<1> DEFINE ref == IF conf[s][ph] = NULL THEN <<"own", s, ph>> ELSE conf[s][ph]
           old == IF action = "PUSH" THEN array[ref] ELSE <<>>
           f == run["server"]
           av == Lookup("server", f.ph)
<1>1. /\ conf' = [conf EXCEPT ![s][ph] = ref]
      /\ array' = [array EXCEPT ![ref] = old \o list]
      /\ run' = [run EXCEPT !["server"].reset =
                    IF f.on /\ action = "SET" /\ f.av = ref
                    THEN Len(f.called) ELSE @]
      /\ stage \in {"config", "startup"}
      /\ UNCHANGED <<stage, dcfg, rcfg, opened>>
  BY DEF ServerModify
<1>2. s \in Sections /\ "main" \in Sections /\ "server" \in Runners
      /\ run \in [Runners -> RunType] /\ f \in RunType
      /\ conf \in [Sections -> [Phases -> Ids \cup {NULL}]]
      /\ array \in [Ids -> Seq(Handler)]
  BY DEF Servers, Sections, Runners, HandlersTypeOK
<1>3. ref \in ConfIds(ph) /\ ref \in Ids
  <2>1. <<"own", s, ph>> \in ConfIds(ph) /\ <<"own", s, ph>> \in Ids
    BY <1>2 DEF ConfIds, Ids
  <2>2. conf[s][ph] \in ConfIds(ph) \cup {NULL} /\ conf[s][ph] \in Ids \cup {NULL}
    BY <1>2 DEF Ownership
  <2> QED BY <2>1, <2>2
<1>4. Ownership'
  <2> HIDE DEF ref
  <2> QED BY <1>1, <1>2, <1>3 DEF Ownership
<1>5. /\ run'["server"].on = f.on /\ run'["server"].ph = f.ph
      /\ run'["server"].av = f.av
      /\ \A x \in Runners : x # "server" => run'[x] = run[x]
  <2> HIDE DEF ref
  <2> QED BY <1>1, <1>2 DEF RunType
<1>6. Stages'
  <2> HIDE DEF f
  <2>1. \A r \in Requests : r # "server" /\ r \in Runners
    BY HandlersAssumption DEF Runners
  <2>2. \A r \in Requests : run'[r] = run[r]
    BY <1>5, <2>1
  <2> QED BY <1>1, <1>5, <2>2 DEF Stages, f
<1>7. \A r \in Requests : ~run'[r].on
  <2>1. \A r \in Requests : ~run[r].on
    BY <1>1 DEF Stages
  <2> QED BY <1>5, <2>1, HandlersAssumption DEF Runners
<1>8. ASSUME f.on
      PROVE  /\ av \in Ids /\ f.av = av /\ AtHandler(f, array[av])
             /\ conf'["main"][f.ph] = av /\ Lookup("server", f.ph)' = av
  <2>1. f.ph \in Phases /\ av # NULL /\ AtHandler(f, array[av])
    BY <1>2, <1>8 DEF Stages, Running
  <2>2. av = conf["main"][f.ph]
    BY DEF Lookup
  <2>3. f.av = av
    BY <1>8, <2>2 DEF ServerHolds
  <2>4. conf'["main"][f.ph] = av
    <3>1. CASE s = "main" /\ ph = f.ph
      BY <1>1, <1>2, <2>1, <2>2, <3>1
    <3>2. CASE ~(s = "main" /\ ph = f.ph)
      <4> HIDE DEF ref, f, av
      <4> QED BY <1>1, <1>2, <2>1, <2>2, <3>2
    <3> QED BY <3>1, <3>2, Zenon
  <2>5. Lookup("server", f.ph)' = conf'["main"][f.ph]
    BY <1>5 DEF Lookup
  <2>6. av \in Ids
    BY <1>2, <2>1, <2>2
  <2> HIDE DEF f, av
  <2> QED BY <2>1, <2>2, <2>3, <2>4, <2>5, <2>6
<1>9. ServerHolds'
  <2> HIDE DEF f, av
  <2> QED BY <1>5, <1>8 DEF ServerHolds, f
<1>10. ASSUME f.on PROVE AtHandler(run'["server"], array'[av])
  <2>1. CASE av # ref
    <3>1. run'["server"] = f
      BY <1>1, <1>2, <1>8, <1>10, <2>1 DEF RunType
    <3>2. array'[av] = array[av]
      <4> HIDE DEF ref, av, f
      <4> QED BY <1>1, <1>2, <1>8, <1>10, <2>1
    <3> QED BY <1>8, <1>10, <3>1, <3>2
  <2>2. CASE av = ref /\ action = "PUSH"
    <3>1. run'["server"] = f
      BY <1>1, <1>2, <2>2 DEF RunType
    <3>2. array'[av] = array[av] \o list
      <4> HIDE DEF ref, av, f
      <4> QED BY <1>1, <1>2, <1>3, <2>2
    <3>3. array[av] \in Seq(Handler) /\ list \in Seq(Handler)
      BY <1>2, <1>8, <1>10, ListsType
    <3> HIDE DEF ref, av, f
    <3>4. AtHandler(f, array[av] \o list)
      BY <1>2, <1>8, <1>10, <3>3, AtPushed
    <3> QED BY <3>1, <3>2, <3>4
  <2>3. CASE av = ref /\ action = "SET"
    <3>1. run'["server"] = [f EXCEPT !.reset = Len(f.called)]
      BY <1>1, <1>2, <1>8, <1>10, <2>3 DEF RunType
    <3> HIDE DEF ref, av, f
    <3> QED BY <1>2, <1>8, <1>10, <3>1, AtReplaced
  <2> HIDE DEF ref, av, f
  <2> QED BY <2>1, <2>2, <2>3
<1>11. Running'
  <2> SUFFICES ASSUME NEW x \in Runners, run'[x].on
               PROVE  /\ (Lookup(x, run[x].ph) # NULL)'
                      /\ (AtHandler(run[x], array[Lookup(x, run[x].ph)]))'
    BY DEF Running, Runners
  <2>1. x = "server"
    BY <1>7 DEF Runners
  <2>2. f.on
    BY <1>5, <2>1
  <2>3. (Lookup(x, run[x].ph))' = av /\ av # NULL
    <3>1. av # NULL
      BY <1>8, <2>2, HandlersAssumption
    <3>2. (Lookup("server", run["server"].ph))' = conf'["main"][run'["server"].ph]
      BY DEF Lookup
    <3> HIDE DEF f, av
    <3> QED BY <1>5, <1>8, <2>1, <2>2, <3>1, <3>2
  <2>4. (AtHandler(run[x], array[Lookup(x, run[x].ph)]))'
    <3>1. AtHandler(run'["server"], array'[av])
      BY <1>10, <2>2
    <3> HIDE DEF av
    <3> QED BY <2>1, <2>3, <3>1 DEF AtHandler
  <2> HIDE DEF av
  <2> QED BY <2>3, <2>4
<1> QED BY <1>4, <1>6, <1>9, <1>11 DEF OthersInv

LEMMA RequestStartInv ==
    ASSUME HandlersInv, NEW r \in Requests, RequestStart(r)
    PROVE  OthersInv'
<1> USE DEF HandlersInv
<1> DEFINE ref(ph) == IF Kind[ph] = "dir"
                      THEN MergeRef(ph, conf["vhost"][ph], conf["loc"][ph],
                                    <<"merged", r, ph>>)
                      ELSE conf["vhost"][ph]
<1>1. /\ dcfg' = [dcfg EXCEPT ![r] = [ph \in Phases |-> ref(ph)]]
      /\ stage = "serving" /\ r \notin opened /\ opened' = opened \cup {r}
      /\ UNCHANGED <<stage, conf, rcfg, run, ops>>
  BY DEF RequestStart
<1>2. ASSUME NEW a \in Ids, ~(a[1] = "merged" /\ a[2] = r)
      PROVE  array'[a] = array[a]
  BY <1>2 DEF RequestStart
<1>3. Ownership'
  <2>1. ASSUME NEW ph \in Phases
        PROVE  ref(ph) \in ConfIds(ph) \cup {NULL, <<"merged", r, ph>>}
    <3>1. conf["vhost"][ph] \in ConfIds(ph) \cup {NULL}
          /\ conf["loc"][ph] \in ConfIds(ph) \cup {NULL}
      BY DEF Ownership, Sections
    <3>2. ref(ph) \in {conf["vhost"][ph], conf["loc"][ph], <<"merged", r, ph>>}
      BY MergeRefIn
    <3> QED BY <3>1, <3>2
  <2>2. dcfg \in [Requests -> [Phases -> Ids \cup {NULL}]]
    BY DEF HandlersTypeOK
  <2> HIDE DEF ref
  <2> QED BY <1>1, <2>1, <2>2 DEF Ownership
<1>4. Stages'
  BY <1>1 DEF Stages
<1>5. Running'
  <2>1. ASSUME NEW x \in Runners, run[x].on
        PROVE  /\ Lookup(x, run[x].ph)' = Lookup(x, run[x].ph)
               /\ array'[Lookup(x, run[x].ph)] = array[Lookup(x, run[x].ph)]
    <3>1. x # r /\ run[x].ph \in Phases /\ Lookup(x, run[x].ph) # NULL
      BY <1>1, <2>1 DEF Stages, Runners, Running
    <3>2. Lookup(x, run[x].ph) \in Ids
          /\ ~(Lookup(x, run[x].ph)[1] = "merged" /\ Lookup(x, run[x].ph)[2] = r)
      BY <3>1, NotOfOther
    <3>3. array'[Lookup(x, run[x].ph)] = array[Lookup(x, run[x].ph)]
      BY <1>2, <3>2
    <3>4. x # "server" => dcfg'[x] = dcfg[x]
      <4> HIDE DEF ref
      <4> QED BY <1>1, <3>1 DEF HandlersTypeOK, Runners
    <3>5. Lookup(x, run[x].ph)' = Lookup(x, run[x].ph)
      BY <1>1, <3>4 DEF Lookup
    <3> QED BY <3>3, <3>5
  <2>2. UNCHANGED run
    BY <1>1
  <2> QED BY <2>1, <2>2, RunningKept
<1>6. ServerHolds'
  BY <1>1 DEF ServerHolds
<1> QED BY <1>3, <1>4, <1>5, <1>6 DEF OthersInv

LEMMA PhaseStartInv ==
    ASSUME HandlersInv, NEW x \in Runners, NEW ph \in Phases, PhaseStart(x, ph)
    PROVE  OthersInv'
<1> USE DEF HandlersInv
<1> DEFINE av == Lookup(x, ph)
           list == array[av]
           g == [Idle EXCEPT !.on = TRUE, !.ph = ph, !.i = 1, !.av = av,
                             !.called = <<Head(list)>>]
<1>1. /\ run' = [run EXCEPT ![x] = IF list = <<>> THEN Idle ELSE g]
      /\ av # NULL
      /\ IF x = "server" THEN stage = "startup" ELSE x \in opened
      /\ UNCHANGED <<stage, array, conf, dcfg, rcfg, opened>>
  BY DEF PhaseStart
<1>2. run \in [Runners -> RunType] /\ array \in [Ids -> Seq(Handler)]
  BY DEF HandlersTypeOK
<1>3. list \in Seq(Handler)
  <2>1. av \in Ids \cup {NULL}
    <3>1. conf["main"][ph] \in Ids \cup {NULL}
      BY DEF HandlersTypeOK, Sections
    <3>2. CASE x = "server"
      BY <3>1, <3>2 DEF Lookup
    <3>3. CASE x # "server"
      BY <3>3, LookedUp DEF Runners
    <3> QED BY <3>2, <3>3
  <2> QED BY <1>1, <1>2, <2>1
<1>4. \A y \in Runners : y # x => run'[y] = run[y]
  <2> HIDE DEF list, g
  <2> QED BY <1>1, <1>2
<1>5. run'[x].on => list # <<>> /\ run'[x] = g
  <2>1. run'[x] = IF list = <<>> THEN Idle ELSE g
    <3> HIDE DEF list, g
    <3> QED BY <1>1, <1>2
  <2> QED BY <2>1 DEF Idle
<1>6. g.ph = ph /\ g.av = av
  BY DEF Idle
<1>7. AtHandler(g, list) \/ list = <<>>
  <2> HIDE DEF list, av
  <2> QED BY <1>3, AtFirst
<1> HIDE DEF list, g, av
<1>8. Ownership'
  BY <1>1 DEF Ownership
<1>9. Stages'
  <2>1. ASSUME NEW q \in Requests, run'[q].on
        PROVE  q \in opened' /\ run'[q].ph \in Phases
    <3>1. q \in Runners /\ q # "server"
      BY HandlersAssumption DEF Runners
    <3>2. CASE q = x
      BY <1>1, <1>5, <1>6, <2>1, <3>1, <3>2
    <3>3. CASE q # x
      BY <1>1, <1>4, <2>1, <3>1, <3>3 DEF Stages
    <3> QED BY <3>2, <3>3
  <2>2. ASSUME run'["server"].on
        PROVE  stage' = "startup" /\ run'["server"].ph \in Phases
    <3>1. CASE x = "server"
      BY <1>1, <1>5, <1>6, <2>2, <3>1
    <3>2. CASE x # "server"
      BY <1>1, <1>4, <2>2, <3>2 DEF Stages, Runners
    <3> QED BY <3>1, <3>2
  <2>3. stage' # "serving" => opened' = {}
    BY <1>1 DEF Stages
  <2> QED BY <2>1, <2>2, <2>3 DEF Stages
<1>10. ASSUME NEW y, NEW p PROVE Lookup(y, p)' = Lookup(y, p)
  BY <1>1 DEF Lookup
<1>11. Running'
  <2> SUFFICES ASSUME NEW y \in Runners, run'[y].on
               PROVE  /\ (Lookup(y, run[y].ph) # NULL)'
                      /\ (AtHandler(run[y], array[Lookup(y, run[y].ph)]))'
    BY DEF Running, Runners
  <2>1. CASE y = x
    <3>1. run'[y] = g /\ AtHandler(g, list) /\ g.ph = ph
      BY <1>5, <1>6, <1>7, <2>1
    <3>2. (Lookup(y, run[y].ph))' = av
      BY <1>1, <2>1, <3>1 DEF Lookup, av
    <3>3. array'[av] = list
      BY <1>1 DEF list
    <3> QED BY <1>1, <3>1, <3>2, <3>3 DEF AtHandler
  <2>2. CASE y # x
    <3>1. run'[y] = run[y] /\ run[y].on
      BY <1>4, <2>2
    <3>2. Lookup(y, run[y].ph) # NULL /\ AtHandler(run[y], array[Lookup(y, run[y].ph)])
      BY <3>1 DEF Running
    <3>3. (Lookup(y, run[y].ph))' = Lookup(y, run[y].ph)
      BY <1>1, <3>1 DEF Lookup
    <3> QED BY <1>1, <3>1, <3>2, <3>3 DEF AtHandler
  <2> QED BY <2>1, <2>2
<1>12. ServerHolds'
  <2> SUFFICES ASSUME run'["server"].on
               PROVE  run'["server"].av = conf'["main"][run'["server"].ph]
    BY DEF ServerHolds
  <2>1. CASE x = "server"
    BY <1>5, <1>6, <1>1, <2>1 DEF Lookup, av
  <2>2. CASE x # "server"
    BY <1>1, <1>4, <2>2 DEF ServerHolds, Runners
  <2> QED BY <2>1, <2>2
<1> QED BY <1>8, <1>9, <1>11, <1>12 DEF OthersInv

LEMMA CallbackReturnInv ==
    ASSUME HandlersInv, NEW x \in Runners, NEW status, CallbackReturn(x, status)
    PROVE  OthersInv'
<1> USE DEF HandlersInv
<1> DEFINE f == run[x]
           av == Lookup(x, f.ph)
           list == array[av]
           ends == Stops(f.ph, status)
           g == [f EXCEPT !.i = f.i + 1, !.av = av,
                          !.called = Append(@, list[f.i + 1])]
<1>1. f.on /\ av # NULL /\ AtHandler(f, list)
  BY DEF CallbackReturn, Running
<1>2. av \in Ids /\ list \in Seq(Handler)
  BY <1>1, NextArray
<1>3. run \in [Runners -> RunType] /\ f \in RunType
  BY DEF HandlersTypeOK
<1>4. /\ run' = [run EXCEPT ![x] = IF ends \/ f.i >= Len(list)
                                   THEN [Idle EXCEPT !.stopped = ends] ELSE g]
      /\ UNCHANGED <<stage, array, conf, dcfg, rcfg, opened>>
  BY <1>1 DEF CallbackReturn
<1>5. \A y \in Runners : y # x => run'[y] = run[y]
  <2> HIDE DEF list, g, f, ends
  <2> QED BY <1>3, <1>4
<1>6. run'[x].on => ~(f.i >= Len(list)) /\ run'[x] = g
  <2>1. run'[x] = IF ends \/ f.i >= Len(list)
                  THEN [Idle EXCEPT !.stopped = ends] ELSE g
    <3> HIDE DEF list, g, f, ends
    <3> QED BY <1>3, <1>4
  <2> HIDE DEF list, g, f, ends
  <2> QED BY <2>1 DEF Idle
<1>7. g.ph = f.ph /\ g.av = av
  <2> HIDE DEF list, f, av
  <2> QED BY <1>3 DEF RunType
<1>8. ASSUME ~(f.i >= Len(list)) PROVE AtHandler(g, list)
  <2> HIDE DEF list, f, av
  <2> QED BY <1>1, <1>2, <1>3, <1>8, AtNext
<1> HIDE DEF list, g, av
<1>9. Ownership'
  BY <1>4 DEF Ownership
<1>10. Stages'
  <2>1. ASSUME NEW q \in Requests, run'[q].on
        PROVE  q \in opened' /\ run'[q].ph \in Phases
    <3>1. q \in Runners /\ q # "server"
      BY HandlersAssumption DEF Runners
    <3>2. CASE q = x
      BY <1>1, <1>4, <1>6, <1>7, <2>1, <3>1, <3>2 DEF Stages
    <3>3. CASE q # x
      BY <1>4, <1>5, <2>1, <3>1, <3>3 DEF Stages
    <3> QED BY <3>2, <3>3
  <2>2. ASSUME run'["server"].on
        PROVE  stage' = "startup" /\ run'["server"].ph \in Phases
    <3>1. CASE x = "server"
      BY <1>1, <1>4, <1>6, <1>7, <2>2, <3>1 DEF Stages
    <3>2. CASE x # "server"
      BY <1>4, <1>5, <2>2, <3>2 DEF Stages, Runners
    <3> QED BY <3>1, <3>2
  <2>3. stage' # "serving" => opened' = {}
    BY <1>4 DEF Stages
  <2> QED BY <2>1, <2>2, <2>3 DEF Stages
<1> HIDE DEF ends
<1>11. UNCHANGED <<array, conf, dcfg, rcfg>>
  BY <1>4
<1>12. Running'
  <2> SUFFICES ASSUME NEW y \in Runners, run'[y].on
               PROVE  /\ (Lookup(y, run[y].ph) # NULL)'
                      /\ (AtHandler(run[y], array[Lookup(y, run[y].ph)]))'
    BY DEF Running, Runners
  <2>1. CASE y = x
    <3>1. run'[y] = g /\ AtHandler(g, list) /\ g.ph = f.ph
      BY <1>6, <1>7, <1>8, <2>1
    <3>2. (Lookup(y, run[y].ph))' = av
      BY <1>11, <2>1, <3>1 DEF Lookup, av
    <3>3. array'[av] = list
      BY <1>4 DEF list
    <3> QED BY <1>1, <3>1, <3>2, <3>3 DEF AtHandler
  <2>2. CASE y # x
    <3>1. run'[y] = run[y] /\ run[y].on
      BY <1>5, <2>2
    <3>2. Lookup(y, run[y].ph) # NULL /\ AtHandler(run[y], array[Lookup(y, run[y].ph)])
      BY <3>1 DEF Running
    <3>3. (Lookup(y, run[y].ph))' = Lookup(y, run[y].ph)
      BY <1>11, <3>1 DEF Lookup
    <3> QED BY <1>4, <3>1, <3>2, <3>3 DEF AtHandler
  <2> QED BY <2>1, <2>2
<1>13. ServerHolds'
  <2> SUFFICES ASSUME run'["server"].on
               PROVE  run'["server"].av = conf'["main"][run'["server"].ph]
    BY DEF ServerHolds
  <2>1. CASE x = "server"
    BY <1>4, <1>6, <1>7, <2>1 DEF Lookup, av
  <2>2. CASE x # "server"
    BY <1>4, <1>5, <2>2 DEF ServerHolds, Runners
  <2> QED BY <2>1, <2>2
<1> QED BY <1>9, <1>10, <1>12, <1>13 DEF OthersInv

\* What a request's push or set leaves alone.
LEMMA RequestModifyKeeps ==
    ASSUME HandlersInv, NEW r \in Requests, NEW ph \in Phases, NEW l,
           array' = [array EXCEPT ![<<"request", r, ph>>] = l],
           rcfg' = [rcfg EXCEPT ![r][ph] = <<"request", r, ph>>],
           UNCHANGED <<conf, dcfg>>
    PROVE  /\ \A x \in Runners, p \in Phases :
                 x # r \/ p # ph =>
                    /\ Lookup(x, p)' = Lookup(x, p)
                    /\ Lookup(x, p) # NULL =>
                          array'[Lookup(x, p)] = array[Lookup(x, p)]
           /\ Lookup(r, ph)' = <<"request", r, ph>>
           /\ array'[<<"request", r, ph>>] = l
           /\ \A a \in Ids : a # <<"request", r, ph>> => array'[a] = array[a]
<1> USE DEF HandlersInv
<1> DEFINE own == <<"request", r, ph>>
<1>1. /\ array \in [Ids -> Seq(Handler)] /\ own \in Ids
      /\ rcfg \in [Requests -> [Phases -> Ids \cup {NULL}]]
      /\ r # "server"
  BY HandlersAssumption DEF HandlersTypeOK, Ids
<1>2. \A a \in Ids : a # own => array'[a] = array[a]
  BY <1>1
<1>3. array'[own] = l
  BY <1>1
<1>4. Lookup(r, ph)' = own
  <2>1. rcfg'[r][ph] = own
    BY <1>1
  <2>2. own # NULL
    BY <1>1, HandlersAssumption
  <2> QED BY <1>1, <2>1, <2>2 DEF Lookup
<1>5. ASSUME NEW x \in Runners, NEW p \in Phases, x # r \/ p # ph
      PROVE  /\ Lookup(x, p)' = Lookup(x, p)
             /\ Lookup(x, p) # NULL =>
                   array'[Lookup(x, p)] = array[Lookup(x, p)]
  <2>1. x # "server" => rcfg'[x][p] = rcfg[x][p]
    BY <1>1, <1>5 DEF Runners
  <2>2. Lookup(x, p)' = Lookup(x, p)
    BY <2>1 DEF Lookup
  <2>3. ASSUME Lookup(x, p) # NULL
        PROVE  Lookup(x, p) \in Ids /\ Lookup(x, p) # own
    <3>1. CASE x # r
      BY <2>3, <3>1, NotOfOther
    <3>2. CASE x = r /\ p # ph
      <4>1. Lookup(r, p) \in Ids
        BY <2>3, <3>2, LookedUp
      <4>2. Lookup(r, p) \in ConfIds(p) \cup {<<"merged", r, p>>, <<"request", r, p>>}
        BY <2>3, <3>2, LookedUp
      <4>3. own \notin ConfIds(p) /\ own # <<"merged", r, p>>
        BY IdsDiffer
      <4>4. own # <<"request", r, p>>
        BY <3>2
      <4> QED BY <3>2, <4>1, <4>2, <4>3, <4>4
    <3> QED BY <1>5, <3>1, <3>2
  <2> QED BY <1>2, <2>2, <2>3
<1> QED BY <1>2, <1>3, <1>4, <1>5

\* Neither moves a runner, and nothing else of the invariant is disturbed.
LEMMA RequestModifyRest ==
    ASSUME HandlersInv, NEW r \in Requests,
           UNCHANGED <<stage, conf, dcfg, opened>>,
           \A x \in Runners :
              /\ run'[x].on = run[x].on /\ run'[x].ph = run[x].ph
              /\ run'[x].av = run[x].av
    PROVE  Ownership' /\ Stages' /\ ServerHolds'
<1> USE DEF HandlersInv
<1>1. Ownership'
  BY DEF Ownership
<1>2. Stages'
  BY DEF Stages, Runners
<1>3. ServerHolds'
  BY DEF ServerHolds, Runners
<1> QED BY <1>1, <1>2, <1>3

LEMMA RequestPushInv ==
    ASSUME HandlersInv, NEW r \in Requests, NEW ph \in Phases,
           NEW list \in Lists, RequestPush(r, ph, list)
    PROVE  OthersInv'
<1> USE DEF HandlersInv
<1> DEFINE own == <<"request", r, ph>>
           l == View(Lookup(r, ph)) \o list
<1>1. /\ array' = [array EXCEPT ![own] = l]
      /\ rcfg' = [rcfg EXCEPT ![r][ph] = own]
      /\ UNCHANGED <<stage, conf, dcfg, opened, run>>
  BY DEF RequestPush
<1>2. Ownership' /\ Stages' /\ ServerHolds'
  <2>1. UNCHANGED <<stage, conf, dcfg, opened>> /\ UNCHANGED run
    BY <1>1
  <2> QED BY <2>1, RequestModifyRest
<1>3. Running'
  <2> SUFFICES ASSUME NEW x \in Runners, run'[x].on
               PROVE  /\ (Lookup(x, run[x].ph) # NULL)'
                      /\ (AtHandler(run[x], array[Lookup(x, run[x].ph)]))'
    BY DEF Running, Runners
  <2> DEFINE av == Lookup(x, run[x].ph)
  <2>1. /\ run' = run /\ run[x].on /\ run[x] \in RunType
        /\ av # NULL /\ AtHandler(run[x], array[av]) /\ run[x].ph \in Phases
    BY <1>1 DEF Running, HandlersTypeOK, Stages, Runners
  <2>2. (Lookup(x, run[x].ph))' = (Lookup(x, run[x].ph)')
        /\ run'[x].ph = run[x].ph
    BY <2>1
  <2>3. CASE x # r \/ run[x].ph # ph
    <3> HIDE DEF l
    <3>1. UNCHANGED <<conf, dcfg>>
      BY <1>1
    <3>2. Lookup(x, run[x].ph)' = av /\ array'[av] = array[av]
      <4>1. \A y \in Runners, p \in Phases :
                 y # r \/ p # ph =>
                    /\ Lookup(y, p)' = Lookup(y, p)
                    /\ Lookup(y, p) # NULL =>
                          array'[Lookup(y, p)] = array[Lookup(y, p)]
        BY <1>1, <3>1, RequestModifyKeeps
      <4>2. Lookup(x, run[x].ph) # NULL =>
               array'[Lookup(x, run[x].ph)] = array[Lookup(x, run[x].ph)]
        BY <2>1, <2>3, <4>1
      <4>3. \A p \in Phases : x # r \/ p # ph => Lookup(x, p)' = Lookup(x, p)
        BY <4>1
      <4>4. Lookup(x, run[x].ph)' = av
        BY <2>1, <2>3, <4>3 DEF Lookup
      <4> QED BY <2>1, <4>2, <4>4
    <3> QED BY <2>1, <3>2 DEF AtHandler
  <2>4. CASE x = r /\ run[x].ph = ph
    <3>1. Lookup(r, ph)' = own /\ array'[own] = l
      <4> HIDE DEF l
      <4>1. UNCHANGED <<conf, dcfg>>
        BY <1>1
      <4> QED BY <1>1, <4>1, RequestModifyKeeps
    <3>2. own # NULL
      BY IdsDiffer, HandlersAssumption
    <3>3. av \in Ids /\ array[av] \in Seq(Handler)
      BY <2>1, NextArray
    <3>4. l = array[av] \o list
      BY <2>1, <2>4 DEF View
    <3>5. list \in Seq(Handler)
      BY ListsType
    <3>6. AtHandler(run[x], l)
      <4> HIDE DEF av, l
      <4> QED BY <2>1, <3>3, <3>4, <3>5, AtPushed
    <3>7. (Lookup(x, run[x].ph))' = own
      BY <2>1, <2>4, <3>1 DEF Lookup
    <3> HIDE DEF l, own
    <3> QED BY <2>1, <3>1, <3>2, <3>6, <3>7 DEF AtHandler
  <2> QED BY <2>3, <2>4
<1> QED BY <1>2, <1>3 DEF OthersInv

LEMMA RequestSetInv ==
    ASSUME HandlersInv, NEW r \in Requests, NEW ph \in Phases,
           NEW list \in Lists, RequestSet(r, ph, list)
    PROVE  OthersInv'
<1> USE DEF HandlersInv
<1> DEFINE own == <<"request", r, ph>>
           f == run[r]
<1>1. /\ array' = [array EXCEPT ![own] = list]
      /\ rcfg' = [rcfg EXCEPT ![r][ph] = own]
      /\ run' = [run EXCEPT ![r].reset = IF f.ph = ph THEN Len(f.called) ELSE @]
      /\ UNCHANGED <<stage, conf, dcfg, opened>>
  BY DEF RequestSet
<1>2. run \in [Runners -> RunType] /\ r \in Runners /\ f \in RunType
  BY DEF HandlersTypeOK, Runners
<1>3. /\ \A x \in Runners :
            /\ run'[x].on = run[x].on /\ run'[x].ph = run[x].ph
            /\ run'[x].av = run[x].av
            /\ x # r \/ run[x].ph # ph => run'[x] = run[x]
      /\ f.ph = ph => run'[r] = [f EXCEPT !.reset = Len(f.called)]
  BY <1>1, <1>2 DEF RunType
<1>4. Ownership' /\ Stages' /\ ServerHolds'
  <2>1. UNCHANGED <<stage, conf, dcfg, opened>>
    BY <1>1
  <2>2. \A x \in Runners :
              /\ run'[x].on = run[x].on /\ run'[x].ph = run[x].ph
              /\ run'[x].av = run[x].av
    BY <1>3
  <2> QED BY <2>1, <2>2, RequestModifyRest
<1>5. Running'
  <2> SUFFICES ASSUME NEW x \in Runners, run'[x].on
               PROVE  /\ (Lookup(x, run[x].ph) # NULL)'
                      /\ (AtHandler(run[x], array[Lookup(x, run[x].ph)]))'
    BY DEF Running, Runners
  <2> DEFINE av == Lookup(x, run[x].ph)
  <2>1. /\ run'[x].ph = run[x].ph /\ run[x].on /\ run[x] \in RunType
        /\ av # NULL /\ AtHandler(run[x], array[av]) /\ run[x].ph \in Phases
    BY <1>2, <1>3 DEF Running, Stages, Runners
  <2>2. UNCHANGED <<conf, dcfg>>
    BY <1>1
  <2>3. CASE x # r \/ run[x].ph # ph
    <3>1. \A y \in Runners, p \in Phases :
               y # r \/ p # ph =>
                  /\ Lookup(y, p)' = Lookup(y, p)
                  /\ Lookup(y, p) # NULL =>
                        array'[Lookup(y, p)] = array[Lookup(y, p)]
      BY <1>1, <2>2, RequestModifyKeeps
    <3>2. array'[av] = array[av]
      BY <2>1, <2>3, <3>1
    <3>3. \A p \in Phases : x # r \/ p # ph => Lookup(x, p)' = Lookup(x, p)
      BY <3>1
    <3>4. (Lookup(x, run[x].ph))' = av
      BY <2>1, <2>3, <3>3 DEF Lookup
    <3>5. run'[x] = run[x]
      BY <1>3, <2>3
    <3> HIDE DEF av
    <3> QED BY <2>1, <3>2, <3>4, <3>5 DEF AtHandler
  <2>4. CASE x = r /\ run[x].ph = ph
    <3>1. Lookup(r, ph)' = own /\ array'[own] = list
      BY <1>1, <2>2, RequestModifyKeeps
    <3>2. own # NULL
      BY IdsDiffer, HandlersAssumption
    <3>3. run'[r] = [f EXCEPT !.reset = Len(f.called)] /\ AtHandler(f, array[av])
      BY <1>3, <2>1, <2>4
    <3>4. AtHandler(run'[r], list)
      <4> HIDE DEF f, av
      <4> QED BY <1>2, <3>3, AtReplaced
    <3>5. (Lookup(x, run[x].ph))' = own
      BY <2>1, <2>4, <3>1 DEF Lookup
    <3> HIDE DEF f, own, av
    <3> QED BY <2>4, <3>1, <3>2, <3>4, <3>5 DEF AtHandler
  <2> QED BY <2>3, <2>4
<1> QED BY <1>4, <1>5 DEF OthersInv

-----------------------------------------------------------------------------
(* Every step keeps the invariant.                                         *)

LEMMA HandlersStep ==
    ASSUME HandlersInv, [HandlersNext]_hvars
    PROVE  HandlersInv'
<1>1. CASE UNCHANGED hvars
  <2>1. HandlersTypeOK'
    BY <1>1 DEF HandlersInv, HandlersTypeOK, hvars
  <2>2. Ownership' /\ Stages' /\ ServerHolds'
    BY <1>1 DEF HandlersInv, Ownership, Stages, ServerHolds, hvars
  <2>3. Running'
    BY <1>1 DEF HandlersInv, Running, AtHandler, Lookup, hvars
  <2> QED BY <2>1, <2>2, <2>3 DEF HandlersInv
<1>2. ASSUME HandlersTypeOK', OthersInv' PROVE HandlersInv'
  BY <1>2 DEF HandlersInv, OthersInv
<1>3. HandlersTypeOK /\ Ownership /\ Stages /\ Running
  BY DEF HandlersInv
<1>4. ASSUME NEW s \in Sections, NEW ph \in Phases, NEW h \in Handler,
             ConfigHandler(s, ph, h)
      PROVE  HandlersInv'
  BY <1>2, <1>3, <1>4, ConfigHandlerType, ConfigHandlerInv
<1>5. CASE StartServer
  BY <1>2, <1>3, <1>5, StartServerType, StartServerInv
<1>6. ASSUME NEW s \in Servers, NEW ph \in Phases, NEW action \in {"PUSH", "SET"},
             NEW list \in Lists, ServerModify(s, ph, action, list)
      PROVE  HandlersInv'
  BY <1>2, <1>3, <1>6, ServerModifyType, ServerModifyInv
<1>7. CASE Serve
  <2>1. HandlersTypeOK'
    BY <1>3, <1>7 DEF Serve, HandlersTypeOK
  <2> QED BY <1>2, <1>7, <2>1, ServeInv
<1>8. ASSUME NEW r \in Requests, RequestStart(r) PROVE HandlersInv'
  BY <1>2, <1>3, <1>8, RequestStartType, RequestStartInv
<1>9. ASSUME NEW x \in Runners, NEW ph \in Phases, PhaseStart(x, ph)
      PROVE  HandlersInv'
  BY <1>2, <1>3, <1>9, PhaseStartType, PhaseStartInv
<1>10. ASSUME NEW x \in Runners, NEW status, CallbackReturn(x, status)
       PROVE  HandlersInv'
  BY <1>2, <1>3, <1>10, CallbackReturnType, CallbackReturnInv
<1>11. ASSUME NEW r \in Requests, NEW ph \in Phases, NEW list \in Lists,
              RequestPush(r, ph, list)
       PROVE  HandlersInv'
  BY <1>2, <1>3, <1>11, RequestPushType, RequestPushInv
<1>12. ASSUME NEW r \in Requests, NEW ph \in Phases, NEW list \in Lists,
              RequestSet(r, ph, list)
       PROVE  HandlersInv'
  BY <1>2, <1>3, <1>12, RequestSetType, RequestSetInv
<1>13. ASSUME NEW r \in Requests, NEW ph \in Phases, RequestTooLate(r, ph)
       PROVE  HandlersInv'
  <2>1. r \in Runners /\ CallbackReturn(r, "ERROR")
    BY <1>13 DEF RequestTooLate, Runners
  <2> QED BY <1>10, <2>1
<1> QED BY <1>1, <1>4, <1>5, <1>6, <1>7, <1>8, <1>9, <1>10, <1>11, <1>12,
           <1>13 DEF HandlersNext

\* The invariant that the theorems below rest on: which arrays belong to whom,
\* and where the walk of modperl_callback_run_handlers stands in its list.
THEOREM HandlersInvariant == HandlersSpec => []HandlersInv
<1>1. HandlersInit => HandlersInv
  BY InitType, InitInv DEF HandlersInv, OthersInv
<1>2. HandlersInv /\ [HandlersNext]_hvars => HandlersInv'
  BY HandlersStep
<1> QED BY <1>1, <1>2, PTL DEF HandlersSpec

-----------------------------------------------------------------------------
(* The properties.                                                         *)

\* modperl_callback_run_handlers calls the handlers in order, each once,
\* however the list grows meanwhile.
THEOREM HandlersRunInOrder == HandlersSpec => [](HandlersTypeOK /\ RunsInOrder)
<1>1. ASSUME HandlersInv PROVE RunsInOrder
  <2> SUFFICES ASSUME NEW x \in Runners, run[x].on, run[x].reset = NULL
               PROVE  /\ run[x].i <= Len(View(Lookup(x, run[x].ph)))
                      /\ run[x].called
                           = SubSeq(View(Lookup(x, run[x].ph)), 1, run[x].i)
    BY DEF RunsInOrder
  <2> DEFINE av == Lookup(x, run[x].ph)
  <2>1. av # NULL /\ AtHandler(run[x], array[av]) /\ run[x] \in RunType
    BY <1>1 DEF HandlersInv, Running, HandlersTypeOK
  <2>2. array[av] \in Seq(Handler)
    BY <1>1, <2>1, NextArray DEF HandlersInv
  <2>3. View(av) = array[av]
    BY <2>1 DEF View
  <2> HIDE DEF av
  <2>4. run[x].i <= Len(array[av]) /\ run[x].i = Len(run[x].called)
        /\ \A k \in 1 .. run[x].i : run[x].called[k] = array[av][k]
    BY <2>1 DEF AtHandler
  <2>5. run[x].called \in Seq(Handler) /\ run[x].i \in Nat
    BY <2>1 DEF RunType
  <2>6. run[x].called = SubSeq(array[av], 1, run[x].i)
    BY <2>2, <2>4, <2>5
  <2> QED BY <2>3, <2>4, <2>6 DEF av
<1>2. HandlersInv => HandlersTypeOK /\ RunsInOrder
  BY <1>1 DEF HandlersInv
<1> QED BY <1>2, HandlersInvariant, PTL

\* A phase ends only when a status ends it or the whole list has been called,
\* with what was pushed while it ran.
THEOREM PhasesRunAll == HandlersSpec => PhaseRunsAll
<1> DEFINE Ends == \A x \in Runners :
         run[x].on /\ ~run'[x].on /\ run[x].reset = NULL =>
            \/ run'[x].stopped
            \/ run[x].called = View(Lookup(x, run[x].ph))
<1>1. ASSUME HandlersInv, HandlersNext PROVE Ends
  <2> SUFFICES ASSUME NEW x \in Runners, run[x].on, ~run'[x].on,
                      run[x].reset = NULL, ~run'[x].stopped
               PROVE  run[x].called = View(Lookup(x, run[x].ph))
    OBVIOUS
  <2>1. HandlersTypeOK /\ Ownership /\ Stages /\ Running
        /\ run \in [Runners -> RunType]
    BY <1>1 DEF HandlersInv, HandlersTypeOK
  <2>2. PICK status : CallbackReturn(x, status)
    <3>1. ASSUME NEW y \in Runners, NEW v,
                 run' = [run EXCEPT ![y].reset = v]
          PROVE  FALSE
      BY <2>1, <3>1 DEF RunType
    <3>2. ASSUME UNCHANGED run PROVE FALSE
      BY <3>2
    <3>3. ASSUME NEW s \in Sections, NEW ph \in Phases, NEW h \in Handler,
                 ConfigHandler(s, ph, h)
          PROVE  FALSE
      BY <3>2, <3>3 DEF ConfigHandler
    <3>4. ~StartServer /\ ~Serve
      BY <3>2 DEF StartServer, Serve
    <3>5. ASSUME NEW s \in Servers, NEW ph \in Phases, NEW action,
                 NEW list, ServerModify(s, ph, action, list)
          PROVE  FALSE
      <4>1. \E v : run' = [run EXCEPT !["server"].reset = v]
        BY <3>5 DEF ServerModify
      <4> QED BY <3>1, <4>1 DEF Runners
    <3>6. ASSUME NEW r \in Requests, RequestStart(r) PROVE FALSE
      BY <3>2, <3>6 DEF RequestStart
    <3>7. ASSUME NEW y \in Runners, NEW ph \in Phases, PhaseStart(y, ph)
          PROVE  FALSE
      <4>1. y # x
        BY <3>7 DEF PhaseStart
      <4>2. \E v : run' = [run EXCEPT ![y] = v]
        BY <3>7 DEF PhaseStart
      <4> QED BY <2>1, <4>1, <4>2
    <3>8. ASSUME NEW y \in Runners, NEW status, CallbackReturn(y, status)
          PROVE  y = x
      <4>1. \E v : run' = [run EXCEPT ![y] = v]
        BY <3>8 DEF CallbackReturn
      <4> QED BY <2>1, <4>1
    <3>9. ASSUME NEW r \in Requests, NEW ph \in Phases, NEW list,
                 RequestPush(r, ph, list) \/ RequestSet(r, ph, list)
          PROVE  FALSE
      <4>1. CASE RequestPush(r, ph, list)
        BY <3>2, <4>1 DEF RequestPush
      <4>2. CASE RequestSet(r, ph, list)
        <5>1. \E v : run' = [run EXCEPT ![r].reset = v]
          BY <4>2 DEF RequestSet
        <5> QED BY <3>1, <5>1 DEF Runners
      <4> QED BY <3>9, <4>1, <4>2
    <3>10. ASSUME NEW r \in Requests, NEW ph \in Phases, RequestTooLate(r, ph)
           PROVE  CallbackReturn(r, "ERROR") /\ r \in Runners
      BY <3>10 DEF RequestTooLate, Runners
    <3> QED BY <1>1, <3>3, <3>4, <3>5, <3>6, <3>7, <3>8, <3>9, <3>10
            DEF HandlersNext
  <2> DEFINE f == run[x]
             av == Lookup(x, f.ph)
             ends == Stops(f.ph, status)
  <2>3. av # NULL /\ AtHandler(f, array[av]) /\ f \in RunType
    BY <2>1 DEF Running
  <2>4. array[av] \in Seq(Handler)
    BY <2>1, <2>3, NextArray
  <2>5. run'[x] = IF ends \/ f.i >= Len(array[av])
                  THEN [Idle EXCEPT !.stopped = ends]
                  ELSE [f EXCEPT !.i = f.i + 1, !.av = av,
                                 !.called = Append(@, array[av][f.i + 1])]
    <3>1. run' = [run EXCEPT ![x] =
                  IF ends \/ f.i >= Len(array[av])
                  THEN [Idle EXCEPT !.stopped = ends]
                  ELSE [f EXCEPT !.i = f.i + 1, !.av = av,
                                 !.called = Append(@, array[av][f.i + 1])]]
      BY <2>2, <2>3 DEF CallbackReturn
    <3> HIDE DEF f, av, ends
    <3> QED BY <2>1, <3>1
  <2>6. f.i >= Len(array[av])
    <3> HIDE DEF av, ends
    <3>1. ~(ends \/ f.i >= Len(array[av])) => run'[x].on
      BY <2>3, <2>5 DEF RunType
    <3>2. ends => run'[x].stopped
      BY <2>5 DEF Idle
    <3> QED BY <3>1, <3>2
  <2>7. f.called \in Seq(Handler) /\ f.i \in Nat
    BY <2>3 DEF RunType
  <2>8. f.called = array[av]
    <3> HIDE DEF av
    <3>1. Len(f.called) = Len(array[av])
      BY <2>3, <2>4, <2>6, <2>7 DEF AtHandler
    <3>2. \A k \in 1 .. Len(array[av]) : f.called[k] = array[av][k]
      BY <2>3, <2>4, <2>6, <2>7, <3>1 DEF AtHandler
    <3> QED BY <2>4, <2>7, <3>1, <3>2
  <2> QED BY <2>3, <2>8 DEF View
<1>2. HandlersInv /\ [HandlersNext]_hvars => [Ends]_hvars
  BY <1>1
<1> QED BY <1>2, HandlersInvariant, PTL DEF HandlersSpec, PhaseRunsAll

\* While the server serves no step changes a configured list, nor the lists
\* that a request sees unless it is the request that makes the step.
Isolated ==
    stage = "serving" =>
      /\ \A s \in Sections, ph \in Phases :
            View(conf[s][ph])' = View(conf[s][ph])
      /\ \A q, r \in Requests : q # r =>
            \/ \A ph \in Phases : View(Lookup(q, ph))' = View(Lookup(q, ph))
            \/ \A ph \in Phases : View(Lookup(r, ph))' = View(Lookup(r, ph))

LEMMA IsolatedBy ==
    ASSUME HandlersInv, NEW a \in Requests, UNCHANGED <<conf, rcfg>>,
           \A q \in Requests : q # a => dcfg'[q] = dcfg[q],
           \A b \in Ids : ~(b[1] = "merged" /\ b[2] = a) => array'[b] = array[b]
    PROVE  Isolated
<1> USE DEF HandlersInv
<1>1. ASSUME NEW s \in Sections, NEW ph \in Phases
      PROVE  View(conf[s][ph])' = View(conf[s][ph])
  <2> DEFINE b == conf[s][ph]
  <2>1. b \in ConfIds(ph) \cup {NULL}
    BY DEF Ownership
  <2>2. ASSUME b # NULL PROVE array'[b] = array[b]
    <3>1. b \in Ids /\ (b[1] = "own" \/ b[2] = "vhost")
      <4>1. b \in ConfIds(ph)
        BY <2>1, <2>2
      <4>2. b \in Ids
        BY <4>1, IdsDiffer
      <4> HIDE DEF b
      <4> QED BY <4>1, <4>2 DEF ConfIds
    <3>2. a # "vhost" /\ (b[1] = "own" => b[1] # "merged")
      BY HandlersAssumption
    <3> HIDE DEF b
    <3> QED BY <3>1, <3>2
  <2>3. (conf[s][ph])' = b
    OBVIOUS
  <2> HIDE DEF b
  <2>4. View(b)' = View(b)
    BY <2>2 DEF View, b
  <2> QED BY <2>2, <2>3 DEF View, b
<1>2. ASSUME NEW q \in Requests, q # a, NEW ph \in Phases
      PROVE  View(Lookup(q, ph))' = View(Lookup(q, ph))
  <2> DEFINE b == Lookup(q, ph)
  <2>1. b' = b
    BY <1>2 DEF Lookup
  <2>2. ASSUME b # NULL PROVE array'[b] = array[b]
    <3>1. q \in Runners
      BY DEF Runners
    <3>2. b \in Ids /\ ~(b[1] = "merged" /\ b[2] = a)
      BY <1>2, <2>2, <3>1, NotOfOther
    <3> HIDE DEF b
    <3> QED BY <3>2
  <2> HIDE DEF b
  <2> QED BY <2>1, <2>2 DEF View, b
<1> QED BY <1>1, <1>2 DEF Isolated

LEMMA IsolatedModify ==
    ASSUME HandlersInv, NEW a \in Requests, NEW p \in Phases, NEW l,
           array' = [array EXCEPT ![<<"request", a, p>>] = l],
           rcfg' = [rcfg EXCEPT ![a][p] = <<"request", a, p>>],
           UNCHANGED <<conf, dcfg>>
    PROVE  Isolated
<1> USE DEF HandlersInv
<1> DEFINE own == <<"request", a, p>>
<1>1. \A x \in Runners, ph \in Phases :
         x # a \/ ph # p =>
            /\ Lookup(x, ph)' = Lookup(x, ph)
            /\ Lookup(x, ph) # NULL => array'[Lookup(x, ph)] = array[Lookup(x, ph)]
  BY RequestModifyKeeps
<1>2. \A b \in Ids : b # own => array'[b] = array[b]
  BY RequestModifyKeeps
<1>3. ASSUME NEW s \in Sections, NEW ph \in Phases
      PROVE  View(conf[s][ph])' = View(conf[s][ph])
  <2> DEFINE b == conf[s][ph]
  <2>1. b \in ConfIds(ph) \cup {NULL}
    BY DEF Ownership
  <2>2. ASSUME b # NULL PROVE array'[b] = array[b]
    <3>1. b \in Ids /\ b # own
      BY <2>1, <2>2, IdsDiffer
    <3> HIDE DEF b, own
    <3> QED BY <1>2, <3>1
  <2>3. (conf[s][ph])' = b
    OBVIOUS
  <2> HIDE DEF b
  <2> QED BY <2>2, <2>3 DEF View, b
<1>4. ASSUME NEW q \in Requests, q # a, NEW ph \in Phases
      PROVE  View(Lookup(q, ph))' = View(Lookup(q, ph))
  <2> DEFINE b == Lookup(q, ph)
  <2>1. q \in Runners
    BY DEF Runners
  <2>2. b' = b /\ (b # NULL => array'[b] = array[b])
    BY <1>1, <1>4, <2>1
  <2> HIDE DEF b
  <2> QED BY <2>2 DEF View, b
<1> QED BY <1>3, <1>4 DEF Isolated

\* "$r->push/set at request time will create entries in r->request_config":
\* no request sees what another pushes or sets, and no configuration changes.
THEOREM RequestsAreIsolated == HandlersSpec => RequestsIsolated
<1>1. ASSUME HandlersInv, HandlersNext PROVE Isolated
  <2>1. ASSUME UNCHANGED <<array, conf, dcfg, rcfg>> PROVE Isolated
    BY <2>1 DEF Isolated, View, Lookup
  <2>2. ASSUME NEW s \in Sections, NEW ph \in Phases, NEW h \in Handler,
               ConfigHandler(s, ph, h)
        PROVE  Isolated
    BY <2>2 DEF ConfigHandler, Isolated
  <2>3. CASE StartServer
    BY <2>3 DEF StartServer, Isolated
  <2>4. ASSUME NEW s \in Servers, NEW ph \in Phases, NEW action,
               NEW list, ServerModify(s, ph, action, list)
        PROVE  Isolated
    BY <2>4 DEF ServerModify, Isolated
  <2>5. CASE Serve
    BY <2>5 DEF Serve, Isolated
  <2>6. ASSUME NEW r \in Requests, RequestStart(r) PROVE Isolated
    <3>1. UNCHANGED <<conf, rcfg>>
      BY <2>6 DEF RequestStart
    <3>2. \A q \in Requests : q # r => dcfg'[q] = dcfg[q]
      <4>1. \E v : dcfg' = [dcfg EXCEPT ![r] = v]
        BY <2>6 DEF RequestStart
      <4>2. dcfg \in [Requests -> [Phases -> Ids \cup {NULL}]]
        BY <1>1 DEF HandlersInv, HandlersTypeOK
      <4> QED BY <4>1, <4>2
    <3>3. \A b \in Ids : ~(b[1] = "merged" /\ b[2] = r) => array'[b] = array[b]
      BY <2>6 DEF RequestStart
    <3> QED BY <1>1, <3>1, <3>2, <3>3, IsolatedBy
  <2>7. ASSUME NEW x \in Runners, NEW ph \in Phases, PhaseStart(x, ph)
        PROVE  Isolated
    BY <2>1, <2>7 DEF PhaseStart
  <2>8. ASSUME NEW x \in Runners, NEW status, CallbackReturn(x, status)
        PROVE  Isolated
    BY <2>1, <2>8 DEF CallbackReturn
  <2>9. ASSUME NEW r \in Requests, NEW ph \in Phases, NEW list,
               RequestPush(r, ph, list) \/ RequestSet(r, ph, list)
        PROVE  Isolated
    <3>1. PICK l : /\ array' = [array EXCEPT ![<<"request", r, ph>>] = l]
                   /\ rcfg' = [rcfg EXCEPT ![r][ph] = <<"request", r, ph>>]
                   /\ UNCHANGED <<conf, dcfg>>
      <4>1. CASE RequestPush(r, ph, list)
        BY <4>1 DEF RequestPush
      <4>2. CASE RequestSet(r, ph, list)
        BY <4>2 DEF RequestSet
      <4> QED BY <2>9, <4>1, <4>2
    <3> QED BY <1>1, <3>1, IsolatedModify
  <2>10. ASSUME NEW r \in Requests, NEW ph \in Phases, RequestTooLate(r, ph)
         PROVE  CallbackReturn(r, "ERROR") /\ r \in Runners
    BY <2>10 DEF RequestTooLate, Runners
  <2> QED BY <1>1, <2>2, <2>3, <2>4, <2>5, <2>6, <2>7, <2>8, <2>9, <2>10
          DEF HandlersNext
<1>2. HandlersInv /\ [HandlersNext]_hvars => [Isolated]_hvars
  BY <1>1
<1> QED BY <1>2, HandlersInvariant, PTL DEF HandlersSpec, RequestsIsolated, Isolated

=============================================================================
