-------------------------- MODULE LifecycleProofs --------------------------
(***************************************************************************)
(* Proofs about the life of the interpreters.  Every step changes the      *)
(* memory of one process, or copies the parent's into a new child, so the  *)
(* inductive invariant is one predicate on the memory P of a process p,    *)
(* and each operation of Lifecycle has a lemma that says it keeps it.      *)
(***************************************************************************)
EXTENDS Lifecycle, Induction, SequenceTheorems, TLAPS

-----------------------------------------------------------------------------
(* The invariant.                                                          *)

Phases == {"none", "config", "merged", "started", "serving", "crashed",
           "clearing", "stopped", "forked", "ending", "exited", "died"}
AllKinds == Kinds \cup {"shared"}
PoolStacks == {<<>>, <<"server">>, <<"server", "user">>}

\* The memory of a process.
MemSet ==
    [phase : Phases, status : {0, 2}, post : BOOLEAN, hooks : BOOLEAN,
     conf : [VhostSet -> AllKinds], mip : [ServerSet -> ServerSet \cup {NULL}],
     pools : PoolStacks, cleanups : Seq(ServerSet \cup {"term"}),
     user : SUBSET Perls, idle : [ServerSet -> SUBSET Perls],
     busy : SUBSET Perls, live : SUBSET Perls,
     pid : [Perls -> Procs \cup {NULL}], ended : [Perls -> {0, 1}],
     walk : SUBSET Perls]

MemType(P) == P \in MemSet

\* A cleanup of the interpreter pool owned by s is registered.
Stacked(P, s) == \E i \in 2 .. Len(P.cleanups) : P.cleanups[i] = s

\* A phase in which the pools are still whole.
Whole == {"config", "merged", "started", "serving", "forked"}

\* The cleanups: modperl_sys_term is the oldest, then comes the main server's
\* interpreter pool, and no pool is registered twice.
StackOK(P) ==
    /\ P.status = 0 => P.cleanups = <<>> /\ ~P.hooks
    /\ P.status = 2 => P.hooks /\ Len(P.cleanups) > 0 /\ P.cleanups[1] = "term"
    /\ P.status = 2 /\ P.phase \in Whole => Len(P.cleanups) > 1
    /\ Len(P.cleanups) > 1 => P.cleanups[2] = "main"
    /\ \A i \in 2 .. Len(P.cleanups) : P.cleanups[i] \in ServerSet
    /\ \A i, j \in 2 .. Len(P.cleanups) : P.cleanups[i] = P.cleanups[j] => i = j

\* The interpreter pools of the servers are those that have a cleanup.
MipOK(P) ==
    /\ \A s \in ServerSet : P.mip[s] \in {NULL, "main", s}
    /\ \A s \in ServerSet : Stacked(P, s) => P.mip[s] = s
    /\ P.phase \in Whole =>
         \A s \in ServerSet : P.mip[s] = s => Stacked(P, s)
    /\ P.phase \in {"serving", "forked"} =>
         \A s \in ServerSet : P.mip[s] # NULL

\* A perl exists only while its pool has a cleanup, a parent perl as long as
\* it has; a clone is idle or runs a request.
LiveOK(p, P) ==
    /\ \A x \in P.live : Stacked(P, x[1])
    /\ \A s \in ServerSet : <<s, 0>> \in P.live <=> Stacked(P, s) /\ OwnsPerl(P, s)
    /\ \A s \in ServerSet : \A x \in P.idle[s] :
         x \in P.live /\ x[1] = s /\ x[2] > 0
    /\ \A x \in P.live : x[2] > 0 => threaded /\ (x \in P.idle[x[1]] \/ x \in P.busy)
    /\ P.busy \subseteq P.live
    /\ \A x \in P.busy : threaded => x[2] > 0
    /\ P.phase # "serving" \/ p = "parent" => P.busy = {}

\* The END blocks of a perl that is gone have run once, those of one that is
\* alive have not, unless the process is about to exit without destroying it.
EndsOK(P) ==
    /\ \A x \in P.live : P.pid[x] # NULL
    /\ \A x \in Perls \ P.live : P.pid[x] # NULL => P.ended[x] = 1
    /\ P.phase \notin {"ending", "exited", "died"} => \A x \in P.live : P.ended[x] = 0
    /\ P.phase = "ending" => /\ P.walk \subseteq P.live
                             /\ \A x \in P.live : P.ended[x] = 0 <=> x \in P.walk
    /\ P.phase = "exited" => \A x \in P.live : P.ended[x] = 1

\* A child that serves has set $$ in every perl.
PidOK(p, P) ==
    p # "parent" /\ P.phase = "serving" => \A x \in P.live : P.pid[x] = p

\* What Perl code registered belongs to a perl that is there, and is gone
\* before the first interpreter pool is destroyed.
UserOK(P) ==
    /\ P.user \subseteq P.live
    /\ P.user # {} => P.pools = <<"server", "user">>
    /\ P.status = 2 /\ P.phase \in {"config", "merged", "started", "serving"}
       => P.pools = <<"server", "user">>

MemOK(p, P) ==
    /\ MemType(P) /\ StackOK(P) /\ MipOK(P) /\ LiveOK(p, P)
    /\ EndsOK(P) /\ PidOK(p, P)
    /\ p = "parent" => UserOK(P)

\* The inductive invariant.
LInv ==
    /\ threaded \in BOOLEAN /\ level \in {0, 2} /\ restarts \in 0 .. MaxRestarts
    /\ proc = [p \in Procs |-> proc[p]]
    /\ \A p \in Procs : MemOK(p, proc[p])

-----------------------------------------------------------------------------
(* Perls, servers and the stack of cleanups.                               *)

\* What a perl is made of.
LEMMA PerlFacts ==
    /\ \A x \in Perls : x[1] \in ServerSet /\ x[2] \in Nat /\ x = <<x[1], x[2]>>
    /\ \A s \in ServerSet : <<s, 0>> \in Perls
    /\ \A s \in ServerSet, k \in 1 .. MaxClones : <<s, k>> \in Perls
    /\ "main" \in ServerSet /\ VhostSet \subseteq ServerSet /\ "main" \notin VhostSet
    /\ "term" \notin ServerSet /\ NULL \notin ServerSet /\ NULL \notin Procs
BY LifecycleAssumption DEF Perls, ServerSet, Procs

\* A new cleanup is on top of the others.
LEMMA StackAppend ==
    ASSUME NEW P, NEW Q, P.cleanups \in Seq(ServerSet \cup {"term"}),
           NEW s \in ServerSet, Len(P.cleanups) > 0,
           Q.cleanups = Append(P.cleanups, s)
    PROVE  \A t : Stacked(Q, t) <=> Stacked(P, t) \/ t = s
BY DEF Stacked

\* The newest cleanup is taken off.
LEMMA StackFront ==
    ASSUME NEW P, NEW Q, P.cleanups \in Seq(ServerSet \cup {"term"}),
           StackOK(P), Len(P.cleanups) > 1,
           Q.cleanups = Front(P.cleanups)
    PROVE  /\ Q.cleanups \in Seq(ServerSet \cup {"term"})
           /\ Len(Q.cleanups) = Len(P.cleanups) - 1
           /\ \A i \in 1 .. Len(P.cleanups) - 1 : Q.cleanups[i] = P.cleanups[i]
           /\ \A t : Stacked(Q, t) <=> Stacked(P, t) /\ t # Last(P.cleanups)
<1>1. /\ Q.cleanups \in Seq(ServerSet \cup {"term"})
      /\ Len(Q.cleanups) = Len(P.cleanups) - 1
      /\ \A i \in 1 .. Len(P.cleanups) - 1 : Q.cleanups[i] = P.cleanups[i]
    BY SubSeqProperties DEF Front
<1>2. Len(P.cleanups) \in Nat  OBVIOUS
<1>3. ASSUME NEW t PROVE Stacked(Q, t) <=> Stacked(P, t) /\ t # Last(P.cleanups)
    BY <1>1, <1>2 DEF Stacked, StackOK, Last
<1> QED  BY <1>1, <1>3

\* The last pool to be destroyed is the main server's.
LEMMA MainLast ==
    ASSUME NEW P, P.cleanups \in Seq(ServerSet \cup {"term"}), StackOK(P),
           Len(P.cleanups) > 1, Last(P.cleanups) = "main"
    PROVE  \A t : Stacked(P, t) => t = "main"
BY DEF StackOK, Stacked, Last

\* While there is a pool there is the main server's.
LEMMA MainStacked ==
    ASSUME NEW P, P.cleanups \in Seq(ServerSet \cup {"term"}), StackOK(P),
           P.status \in {0, 2}, NEW s, Stacked(P, s)
    PROVE  Stacked(P, "main") /\ P.status = 2 /\ P.hooks /\ Len(P.cleanups) > 1
<1>1. Len(P.cleanups) > 1  BY DEF Stacked
<1>2. P.cleanups[2] = "main" /\ P.status = 2 /\ P.hooks
    BY <1>1 DEF StackOK
<1> QED  BY <1>1, <1>2 DEF Stacked

\* The fields of a memory have the types they should have.
LEMMA Fields ==
    ASSUME NEW P, MemType(P)
    PROVE  /\ P.phase \in Phases /\ P.status \in {0, 2} /\ P.post \in BOOLEAN
           /\ P.hooks \in BOOLEAN /\ P.conf \in [VhostSet -> AllKinds]
           /\ P.mip \in [ServerSet -> ServerSet \cup {NULL}]
           /\ P.pools \in PoolStacks
           /\ P.cleanups \in Seq(ServerSet \cup {"term"})
           /\ P.user \subseteq Perls /\ P.idle \in [ServerSet -> SUBSET Perls]
           /\ P.busy \subseteq Perls /\ P.live \subseteq Perls
           /\ P.pid \in [Perls -> Procs \cup {NULL}]
           /\ P.ended \in [Perls -> {0, 1}] /\ P.walk \subseteq Perls
BY DEF MemType, MemSet

\* Only the phase is another one.
AfterPhase(P, Q, ph) ==
    /\ MemType(Q) /\ Q.phase = ph /\ Q.status = P.status
    /\ Q.hooks = P.hooks /\ Q.conf = P.conf
    /\ Q.mip = P.mip /\ Q.pools = P.pools /\ Q.cleanups = P.cleanups
    /\ Q.user = P.user /\ Q.idle = P.idle /\ Q.busy = P.busy
    /\ Q.live = P.live /\ Q.pid = P.pid /\ Q.ended = P.ended
    /\ Q.walk = P.walk

\* What Shutdown, Stop, Exited, EndBlockDies and Fork change.
LEMMA PhaseFields ==
    ASSUME NEW P, MemType(P), NEW ph \in Phases
    PROVE  AfterPhase(P, [P EXCEPT !.phase = ph], ph)
BY DEF MemType, MemSet, AfterPhase

-----------------------------------------------------------------------------
(* The parent starts: the operations of modperl_init.                      *)

\* What modperl_interp_init changes.
AfterInterpInit(P, Q, s) ==
    /\ MemType(Q) /\ Q.phase = P.phase /\ Q.status = P.status
    /\ Q.hooks = P.hooks /\ Q.conf = P.conf
    /\ Q.mip = [P.mip EXCEPT ![s] = s] /\ Q.pools = P.pools
    /\ Q.cleanups = Append(P.cleanups, s) /\ Q.user = P.user
    /\ Q.idle = P.idle /\ Q.busy = P.busy /\ Q.live = P.live
    /\ Q.pid = P.pid /\ Q.ended = P.ended /\ Q.walk = P.walk

\* What modperl_startup changes, which also makes the perl m.
AfterStartup(P, Q, s, m, self) ==
    /\ MemType(Q) /\ Q.phase = P.phase /\ Q.status = P.status
    /\ Q.hooks = P.hooks /\ Q.conf = P.conf
    /\ Q.mip = [P.mip EXCEPT ![s] = s] /\ Q.pools = P.pools
    /\ Q.cleanups = Append(P.cleanups, s) /\ Q.user = P.user
    /\ Q.idle = P.idle /\ Q.busy = P.busy /\ Q.live = P.live \cup {m}
    /\ Q.pid = [P.pid EXCEPT ![m] = self]
    /\ Q.ended = [P.ended EXCEPT ![m] = 0] /\ Q.walk = P.walk

\* A new interpreter pool has a cleanup.
LEMMA InterpInitFields ==
    ASSUME NEW P, MemType(P), NEW s \in ServerSet
    PROVE  AfterInterpInit(P, InterpInit(P, s), s)
<1> DEFINE Q == InterpInit(P, s)
<1>1. Append(P.cleanups, s) \in Seq(ServerSet \cup {"term"})
    BY Fields
<1>2. [P.mip EXCEPT ![s] = s] \in [ServerSet -> ServerSet \cup {NULL}]
    BY Fields
<1>3. Q = [P EXCEPT !.mip = [P.mip EXCEPT ![s] = s], !.cleanups = Append(P.cleanups, s)]
    BY DEF InterpInit
<1> HIDE DEF Q
<1>4. AfterInterpInit(P, Q, s)
    BY ONLY <1>1, <1>2, <1>3, MemType(P) DEF MemType, MemSet, AfterInterpInit
<1> QED  BY <1>4 DEF Q

\* A new parent perl is alive and belongs to a pool of its own.
LEMMA StartupFields ==
    ASSUME NEW P, MemType(P), NEW s \in ServerSet, NEW self \in Procs
    PROVE  AfterStartup(P, Startup(P, s, self), s, <<s, 0>>, self)
<1> DEFINE m == <<s, 0>>
           A == [P EXCEPT !.live = @ \cup {m}, !.pid[m] = self, !.ended[m] = 0]
           Q == InterpInit(A, s)
<1>1. m \in Perls
    BY PerlFacts
<1> HIDE DEF m
<1>2. /\ MemType(A) /\ A.phase = P.phase /\ A.status = P.status
      /\ A.hooks = P.hooks /\ A.conf = P.conf /\ A.mip = P.mip
      /\ A.pools = P.pools /\ A.cleanups = P.cleanups /\ A.user = P.user
      /\ A.idle = P.idle /\ A.busy = P.busy /\ A.live = P.live \cup {m}
      /\ A.pid = [P.pid EXCEPT ![m] = self]
      /\ A.ended = [P.ended EXCEPT ![m] = 0] /\ A.walk = P.walk
    <2>1. /\ [P.pid EXCEPT ![m] = self] \in [Perls -> Procs \cup {NULL}]
          /\ [P.ended EXCEPT ![m] = 0] \in [Perls -> {0, 1}]
          /\ P.live \cup {m} \in SUBSET Perls
        BY <1>1, Fields
    <2>2. A = [P EXCEPT !.live = P.live \cup {m}, !.pid = [P.pid EXCEPT ![m] = self],
                        !.ended = [P.ended EXCEPT ![m] = 0]]
        OBVIOUS
    <2> HIDE DEF A
    <2> QED
        BY ONLY <2>1, <2>2, MemType(P) DEF MemType, MemSet
<1>3. Startup(P, s, self) = Q
    BY DEF Startup, m
<1> HIDE DEF A
<1>4. AfterInterpInit(A, Q, s)
    BY <1>2, InterpInitFields
<1> HIDE DEF Q
<1>5. AfterStartup(P, Q, s, m, self)
    BY ONLY <1>2, <1>4, Zenon DEF AfterInterpInit, AfterStartup
<1> QED
    BY <1>3, <1>5 DEF m

\* modperl_hook_init has started the main server's perl.
LEMMA StartMain ==
    ASSUME NEW P, MemOK("parent", P), P.status = 0,
           P.phase \in {"config", "merged"}, NEW Q,
           Q = Startup(SysInit(P), "main", "parent")
    PROVE  /\ MemOK("parent", Q) /\ Q.status = 2 /\ Q.phase = P.phase
<1>1. MemType(P) /\ StackOK(P) /\ MipOK(P) /\ LiveOK("parent", P) /\ EndsOK(P) /\ UserOK(P)
    BY DEF MemOK
<1> DEFINE m == <<"main", 0>>
<1>2. m \in Perls /\ "main" \in ServerSet /\ "parent" \in Procs
    BY PerlFacts DEF Procs
<1>3. /\ MemType(Q) /\ Q.phase = P.phase /\ Q.status = 2 /\ Q.hooks
      /\ Q.conf = P.conf /\ Q.mip = [P.mip EXCEPT !["main"] = "main"]
      /\ Q.pools = <<"server", "user">> /\ Len(Q.cleanups) = 2
      /\ Q.cleanups[1] = "term" /\ Q.cleanups[2] = "main"
      /\ Q.user = P.user /\ Q.idle = P.idle /\ Q.busy = P.busy
      /\ Q.live = P.live \cup {m} /\ Q.pid = [P.pid EXCEPT ![m] = "parent"]
      /\ Q.ended = [P.ended EXCEPT ![m] = 0] /\ Q.walk = P.walk
    <2> DEFINE A == SysInit(P)
    <2>1. /\ MemType(A) /\ A.phase = P.phase /\ A.status = 2 /\ A.hooks
          /\ A.conf = P.conf /\ A.mip = P.mip /\ A.pools = <<"server", "user">>
          /\ A.cleanups = <<"term">> /\ A.user = P.user /\ A.idle = P.idle
          /\ A.busy = P.busy /\ A.live = P.live /\ A.pid = P.pid
          /\ A.ended = P.ended /\ A.walk = P.walk
        <3>1. /\ <<"term">> \in Seq(ServerSet \cup {"term"}) /\ 2 \in {0, 2}
              /\ <<"server", "user">> \in PoolStacks /\ TRUE \in BOOLEAN
            BY DEF PoolStacks
        <3>2. A = [P EXCEPT !.status = 2, !.hooks = TRUE, !.cleanups = <<"term">>,
                            !.pools = <<"server", "user">>]
            BY DEF SysInit
        <3> HIDE DEF A
        <3> QED
            BY ONLY <1>1, <3>1, <3>2 DEF MemType, MemSet
    <2> HIDE DEF A
    <2>2. Q = Startup(A, "main", "parent")
        BY DEF A
    <2> QED
        <3>1. AfterStartup(A, Q, "main", m, "parent")
            BY <2>1, <2>2, <1>2, StartupFields
        <3>2. /\ Len(Append(<<"term">>, "main")) = 2
              /\ Append(<<"term">>, "main")[1] = "term"
              /\ Append(<<"term">>, "main")[2] = "main"
            OBVIOUS
        <3>3. Q.hooks = TRUE
            BY ONLY <2>1, <3>1, Zenon DEF AfterStartup
        <3> HIDE DEF m
        <3>4. Q.cleanups = Append(<<"term">>, "main")
            BY ONLY <2>1, <3>1 DEF AfterStartup
        <3> QED
            BY ONLY <2>1, <3>1, <3>2, <3>3, <3>4 DEF AfterStartup
<1> HIDE DEF m
<1>4. \A t : ~Stacked(P, t)
    BY <1>1 DEF StackOK, Stacked
<1>5. \A t : Stacked(Q, t) <=> t = "main"
    BY <1>3 DEF Stacked
<1>6. P.live = {}
    BY <1>1, <1>4 DEF LiveOK
<1>7. StackOK(Q)
    BY <1>2, <1>3 DEF StackOK
<1>8. MipOK(Q)
    <2>1. \A s \in ServerSet : Q.mip[s] = (IF s = "main" THEN s ELSE P.mip[s])
        BY <1>1, <1>2, <1>3, Fields
    <2>2. \A s \in ServerSet : P.mip[s] \in {NULL, "main", s} /\ P.mip[s] # s
        BY <1>1, <1>4 DEF MipOK, Whole
    <2> QED
        BY <1>3, <1>5, <2>1, <2>2 DEF MipOK
<1>9. LiveOK("parent", Q)
    BY <1>1, <1>2, <1>3, <1>4, <1>5, <1>6, PerlFacts, Fields DEF LiveOK, OwnsPerl, m
<1>10. EndsOK(Q)
    BY <1>1, <1>2, <1>3, <1>6, PerlFacts, Fields DEF EndsOK
<1>11. UserOK(Q)
    BY <1>1, <1>2, <1>3, <1>6, PerlFacts, Fields DEF UserOK
<1> QED
    BY <1>3, <1>7, <1>8, <1>9, <1>10, <1>11 DEF MemOK, PidOK

\* The cleanup of a new pool is on top of a stack that is in order.
LEMMA StackOKAppend ==
    ASSUME NEW P, NEW Q, MemType(P), StackOK(P), P.status = 2,
           P.phase \in Whole, NEW s \in ServerSet, ~Stacked(P, s),
           Q.phase = P.phase, Q.status = P.status, Q.hooks = P.hooks,
           Q.cleanups = Append(P.cleanups, s)
    PROVE  StackOK(Q)
<1>1. /\ P.cleanups \in Seq(ServerSet \cup {"term"}) /\ Len(P.cleanups) > 1
      /\ Len(P.cleanups) \in Nat
    BY Fields DEF StackOK
<1>2. /\ Len(Q.cleanups) = Len(P.cleanups) + 1
      /\ \A i \in 1 .. Len(P.cleanups) : Q.cleanups[i] = P.cleanups[i]
      /\ Q.cleanups[Len(P.cleanups) + 1] = s
    BY <1>1
<1>3. \A i \in 2 .. Len(P.cleanups) : P.cleanups[i] # s
    BY DEF Stacked
<1> QED
    BY <1>1, <1>2, <1>3 DEF StackOK

\* The pool of a virtual host is set, or it gets the main server's.
LEMMA MipOKNew ==
    ASSUME NEW P, NEW Q, MemType(P), MipOK(P), P.phase \in {"config", "merged"},
           NEW v \in ServerSet, NEW m \in {NULL, "main", v},
           Q.phase = P.phase, Q.mip = [P.mip EXCEPT ![v] = m],
           \A t \in ServerSet : Stacked(Q, t) <=> Stacked(P, t) \/ (t = v /\ m = v),
           ~Stacked(P, v)
    PROVE  MipOK(Q)
<1>1. \A s \in ServerSet : Q.mip[s] = (IF s = v THEN m ELSE P.mip[s])
    BY Fields
<1> QED
    BY <1>1, PerlFacts DEF MipOK, Whole

\* modperl_init_vhost for a virtual host with +Parent.
LEMMA InitVhostParent ==
    ASSUME NEW P, MemOK("parent", P), P.status = 2,
           P.phase \in {"config", "merged"}, NEW v \in VhostSet,
           P.mip[v] = NULL, P.conf[v] = "parent", NEW Q,
           AfterStartup(P, Q, v, <<v, 0>>, "parent")
    PROVE  MemOK("parent", Q) /\ Q.status = 2 /\ Q.phase = P.phase
<1>1. MemType(P) /\ StackOK(P) /\ MipOK(P) /\ LiveOK("parent", P) /\ EndsOK(P) /\ UserOK(P)
    BY DEF MemOK
<1> DEFINE m == <<v, 0>>
<1>2. /\ m \in Perls /\ m[1] = v /\ m[2] = 0 /\ v \in ServerSet /\ v # "main"
      /\ NULL # v /\ "parent" # NULL
    BY PerlFacts DEF Procs
<1>3. AfterStartup(P, Q, v, m, "parent")
    OBVIOUS
<1> HIDE DEF m
<1>4. ~Stacked(P, v)
    BY <1>1, <1>2 DEF MipOK
<1>5. \A t : Stacked(Q, t) <=> Stacked(P, t) \/ t = v
    <2>1. P.cleanups \in Seq(ServerSet \cup {"term"}) /\ Len(P.cleanups) > 0
        BY <1>1, Fields DEF StackOK
    <2>2. Q.cleanups = Append(P.cleanups, v)
        BY <1>3, Zenon DEF AfterStartup
    <2> QED
        BY ONLY <1>2, <2>1, <2>2, StackAppend
<1>6. StackOK(Q)
    BY <1>1, <1>2, <1>3, <1>4, StackOKAppend DEF AfterStartup, Whole
<1>7. MipOK(Q)
    <2>1. Q.phase = P.phase /\ Q.mip = [P.mip EXCEPT ![v] = v]
        BY <1>3, Zenon DEF AfterStartup
    <2>2. \A t \in ServerSet : Stacked(Q, t) <=> Stacked(P, t) \/ (t = v /\ v = v)
        BY ONLY <1>5, Zenon
    <2> QED
        BY ONLY <1>1, <1>2, <1>4, P.phase \in {"config", "merged"}, v \in {NULL, "main", v},
                <2>1, <2>2, MipOKNew
<1>8. \A s \in ServerSet : OwnsPerl(Q, s) <=> OwnsPerl(P, s)
    BY <1>3 DEF AfterStartup, OwnsPerl
<1>9. OwnsPerl(P, v)
    BY DEF OwnsPerl
<1>10. m \notin P.live
    BY <1>1, <1>2, <1>4 DEF LiveOK
<1>11. LiveOK("parent", Q)
    BY <1>1, <1>2, <1>3, <1>5, <1>8, <1>9, PerlFacts, Fields DEF LiveOK, AfterStartup, m
<1>12. EndsOK(Q)
    <2>1. \A x \in Perls : /\ Q.pid[x] = (IF x = m THEN "parent" ELSE P.pid[x])
                           /\ Q.ended[x] = (IF x = m THEN 0 ELSE P.ended[x])
        <3>1. P.pid \in [Perls -> Procs \cup {NULL}] /\ P.ended \in [Perls -> {0, 1}]
            BY <1>1, Fields
        <3>2. Q.pid = [P.pid EXCEPT ![m] = "parent"] /\ Q.ended = [P.ended EXCEPT ![m] = 0]
            BY <1>3, Zenon DEF AfterStartup
        <3> QED
            BY ONLY <1>2, <3>1, <3>2
    <2> QED
        BY <1>1, <1>2, <1>3, <2>1, Fields DEF EndsOK, AfterStartup
<1>13. UserOK(Q)
    BY <1>1, <1>3 DEF UserOK, AfterStartup
<1> QED
    BY <1>3, <1>6, <1>7, <1>11, <1>12, <1>13 DEF MemOK, PidOK, AfterStartup

\* modperl_init_vhost for a virtual host with +Clone.
LEMMA InitVhostClone ==
    ASSUME NEW P, MemOK("parent", P), P.status = 2,
           P.phase \in {"config", "merged"}, NEW v \in VhostSet,
           P.mip[v] = NULL, P.conf[v] = "clone", NEW Q, AfterInterpInit(P, Q, v)
    PROVE  MemOK("parent", Q) /\ Q.status = 2 /\ Q.phase = P.phase
<1>1. MemType(P) /\ StackOK(P) /\ MipOK(P) /\ LiveOK("parent", P) /\ EndsOK(P) /\ UserOK(P)
    BY DEF MemOK
<1>2. v \in ServerSet /\ v # "main" /\ NULL # v
    BY PerlFacts
<1>4. ~Stacked(P, v)
    BY <1>1, <1>2 DEF MipOK
<1>5. \A t : Stacked(Q, t) <=> Stacked(P, t) \/ t = v
    <2>1. P.cleanups \in Seq(ServerSet \cup {"term"}) /\ Len(P.cleanups) > 0
        BY <1>1, Fields DEF StackOK
    <2>2. Q.cleanups = Append(P.cleanups, v)
        BY Zenon DEF AfterInterpInit
    <2> QED
        BY ONLY <1>2, <2>1, <2>2, StackAppend
<1>6. StackOK(Q)
    BY <1>1, <1>2, <1>4, StackOKAppend DEF AfterInterpInit, Whole
<1>7. MipOK(Q)
    <2>1. Q.phase = P.phase /\ Q.mip = [P.mip EXCEPT ![v] = v]
        BY Zenon DEF AfterInterpInit
    <2>2. \A t \in ServerSet : Stacked(Q, t) <=> Stacked(P, t) \/ (t = v /\ v = v)
        BY ONLY <1>5, Zenon
    <2> QED
        BY ONLY <1>1, <1>2, <1>4, P.phase \in {"config", "merged"}, v \in {NULL, "main", v},
                <2>1, <2>2, MipOKNew
<1>8. \A s \in ServerSet : OwnsPerl(Q, s) <=> OwnsPerl(P, s)
    BY DEF AfterInterpInit, OwnsPerl
<1>9. ~OwnsPerl(P, v)
    BY <1>2 DEF OwnsPerl
<1>11. LiveOK("parent", Q)
    BY <1>1, <1>2, <1>5, <1>8, <1>9, PerlFacts DEF LiveOK, AfterInterpInit
<1>12. EndsOK(Q) /\ UserOK(Q)
    BY <1>1 DEF EndsOK, UserOK, AfterInterpInit
<1> QED
    BY <1>6, <1>7, <1>11, <1>12 DEF MemOK, PidOK, AfterInterpInit

\* modperl_init_vhost, whatever the virtual host is.
LEMMA InitVhostOK ==
    ASSUME NEW P, MemOK("parent", P), P.status = 2,
           P.phase \in {"config", "merged"}, NEW v \in VhostSet, NEW Q,
           Q = InitVhost(P, v, "parent")
    PROVE  MemOK("parent", Q) /\ Q.status = 2 /\ Q.phase = P.phase
<1>1. MemType(P) /\ StackOK(P) /\ MipOK(P) /\ LiveOK("parent", P) /\ EndsOK(P) /\ UserOK(P)
    BY DEF MemOK
<1>2. v \in ServerSet /\ v # "main" /\ NULL # v /\ "parent" \in Procs /\ "main" \in ServerSet
    BY PerlFacts DEF Procs
<1>3. CASE P.mip[v] # NULL \/ P.conf[v] = "disabled"
    BY <1>3 DEF InitVhost
<1>4. CASE P.mip[v] = NULL /\ P.conf[v] = "parent"
    <2>1. Q = Startup(P, v, "parent")
        BY <1>4 DEF InitVhost
    <2> QED
        BY <1>1, <1>2, <1>4, <2>1, StartupFields, InitVhostParent
<1>5. CASE P.mip[v] = NULL /\ P.conf[v] = "clone"
    <2>1. Q = InterpInit(P, v)
        BY <1>5 DEF InitVhost
    <2> QED
        BY <1>1, <1>2, <1>5, <2>1, InterpInitFields, InitVhostClone
<1>6. CASE P.mip[v] = NULL /\ P.conf[v] \notin {"parent", "clone", "disabled"}
    <2>1. Q = [P EXCEPT !.mip = [P.mip EXCEPT ![v] = P.mip["main"]]]
        BY <1>6 DEF InitVhost
    <2>2. [P.mip EXCEPT ![v] = P.mip["main"]] \in [ServerSet -> ServerSet \cup {NULL}]
        BY <1>1, <1>2, Fields
    <2>3. /\ MemType(Q) /\ Q.phase = P.phase /\ Q.status = P.status
          /\ Q.hooks = P.hooks /\ Q.conf = P.conf
          /\ Q.mip = [P.mip EXCEPT ![v] = P.mip["main"]] /\ Q.pools = P.pools
          /\ Q.cleanups = P.cleanups /\ Q.user = P.user
          /\ Q.idle = P.idle /\ Q.busy = P.busy /\ Q.live = P.live
          /\ Q.pid = P.pid /\ Q.ended = P.ended /\ Q.walk = P.walk
        BY ONLY <1>1, <2>1, <2>2 DEF MemType, MemSet
    <2>4. P.mip["main"] \in {NULL, "main", v} /\ P.mip["main"] # v
        BY <1>1, <1>2 DEF MipOK
    <2>5. \A t : Stacked(Q, t) <=> Stacked(P, t)
        BY <2>3 DEF Stacked
    <2>6. ~Stacked(P, v)
        BY <1>1, <1>2, <1>6 DEF MipOK
    <2>7. MipOK(Q)
        BY <1>1, <1>2, <2>3, <2>4, <2>5, <2>6, MipOKNew
    <2>8. StackOK(Q) /\ EndsOK(Q) /\ UserOK(Q)
        BY <1>1, <2>3 DEF StackOK, EndsOK, UserOK
    <2>9. LiveOK("parent", Q)
        BY <1>1, <2>3, <2>5 DEF LiveOK, OwnsPerl
    <2> QED
        BY <2>3, <2>7, <2>8, <2>9 DEF MemOK, PidOK
<1> QED
    BY <1>3, <1>4, <1>5, <1>6

\* The memories modperl_init goes through once the main server is started.
Starting(ph) ==
    {Q \in MemSet : MemOK("parent", Q) /\ Q.status = 2 /\ Q.phase = ph}

\* modperl_init: the main server, then the virtual hosts.
LEMMA InitLoop ==
    ASSUME NEW ph \in {"config", "merged"}, NEW P, NEW there,
           Startup(P, "main", "parent") \in Starting(ph)
    PROVE  Init_(P, there, "parent") \in Starting(ph)
<1> DEFINE n == Len(Vhosts)
           S == Starting(ph)
           e == Startup(P, "main", "parent")
           Body(g, j) == IF j = 0 THEN e
                         ELSE IF Vhosts[j] \in there
                         THEN InitVhost(g[j - 1], Vhosts[j], "parent")
                         ELSE g[j - 1]
           F == CHOOSE g : g = [j \in 0 .. n |-> Body(g, j)]
           Step(i, Q) == IF i \in 1 .. n /\ Vhosts[i] \in there
                         THEN InitVhost(Q, Vhosts[i], "parent") ELSE Q
           st == [p \in (Nat \ {0}) \X S |-> Step(p[1], p[2])]
<1>1. n \in Nat /\ \A j \in 1 .. n : Vhosts[j] \in VhostSet
    BY LifecycleAssumption
<1>2. ASSUME NEW v \in VhostSet, NEW Q \in S PROVE InitVhost(Q, v, "parent") \in S
    BY InitVhostOK DEF Starting, MemOK, MemType
<1> HIDE DEF S
<1>3. ASSUME NEW i \in Nat \ {0}, NEW Q \in S PROVE Step(i, Q) \in S
    BY <1>1, <1>2
<1>4. st \in [(Nat \ {0}) \X S -> S]
    <2> HIDE DEF Step
    <2> QED BY <1>3
<1>5. e \in S
    BY DEF S
<1>6. \E g : IsLoop(g, n, S, e, st)
    <2> HIDE DEF st, n, e
    <2> QED BY <1>1, <1>4, <1>5, LoopExists
<1>7. PICK g : IsLoop(g, n, S, e, st)
    BY <1>6
<1>8. ASSUME NEW j \in 1 .. n PROVE g[j] = Body(g, j)
    <2>1. g[j] = st[<<j, g[j - 1]>>] /\ g[j - 1] \in S
        <3> HIDE DEF n, st, e
        <3> QED BY <1>1, <1>7 DEF IsLoop
    <2>2. <<j, g[j - 1]>> \in (Nat \ {0}) \X S /\ j # 0
        BY <2>1, <1>1
    <2>3. g[j] = Step(j, g[j - 1])
        <3> HIDE DEF Step
        <3> QED BY <2>1, <2>2
    <2> HIDE DEF e
    <2> QED BY <2>2, <2>3
<1>9. g = [j \in 0 .. n |-> Body(g, j)]
    <2>1. g[0] = Body(g, 0) /\ DOMAIN g = 0 .. n /\ g = [j \in DOMAIN g |-> g[j]]
        <3> HIDE DEF st, n, e
        <3> QED BY <1>7 DEF IsLoop
    <2>2. ASSUME NEW j \in 0 .. n PROVE g[j] = Body(g, j)
        <3>1. j = 0 \/ j \in 1 .. n
            BY <1>1
        <3> HIDE DEF Body, n
        <3> QED BY <1>8, <2>1, <3>1
    <2> HIDE DEF Body, n
    <2> QED BY <2>1, <2>2
<1>10. F = [j \in 0 .. n |-> Body(F, j)]
    <2> HIDE DEF Body, n
    <2> QED BY <1>9, Zenon
<1>11. ASSUME NEW j \in 0 .. n PROVE F[j] = Body(F, j)
    <2> HIDE DEF F, Body, n
    <2> QED BY <1>10
<1>12. \A j \in 0 .. n : F[j] \in S
    <2> DEFINE T == {j \in 0 .. n : F[j] \in S}
    <2>1. 0 \in T
        <3>1. 0 \in 0 .. n
            BY <1>1
        <3>2. F[0] = Body(F, 0)
            BY ONLY <1>11, <3>1
        <3> HIDE DEF F, n, e
        <3> QED BY <1>5, <3>1, <3>2
    <2>2. ASSUME NEW j \in 1 .. n, j - 1 \in T PROVE j \in T
        <3>1. j \in 0 .. n /\ j # 0 /\ Vhosts[j] \in VhostSet
            BY <1>1
        <3>2. F[j] = Body(F, j)
            BY ONLY <1>11, <3>1
        <3>3. F[j - 1] \in S
            BY <2>2
        <3>4. F[j] \in S
            <4> HIDE DEF F, n, e
            <4> QED BY <1>2, <3>1, <3>2, <3>3
        <3> QED BY <3>1, <3>4
    <2> HIDE DEF T, n
    <2>3. \A j \in 0 .. n : j \in T
        BY ONLY <1>1, <2>1, <2>2, Upto
    <2> QED BY ONLY <2>3 DEF T
<1>13. Init_(P, there, "parent") = F[n]
    BY DEF Init_
<1> QED
    <2> HIDE DEF F, n
    <2>1. n \in 0 .. n
        BY <1>1
    <2> QED BY <1>12, <1>13, <2>1 DEF S

\* modperl_hook_init.
LEMMA HookInitOK ==
    ASSUME NEW P, MemOK("parent", P), P.phase \in {"config", "merged"}, NEW there
    PROVE  HookInit(P, there, "parent") \in Starting(P.phase)
<1>1. CASE P.status # 0
    <2>1. P.status = 2 /\ P \in MemSet
        BY <1>1, Fields DEF MemOK, MemType
    <2> QED BY <1>1, <2>1 DEF HookInit, Starting
<1>2. CASE P.status = 0
    <2> DEFINE Q == Startup(SysInit(P), "main", "parent")
    <2>1. MemOK("parent", Q) /\ Q.status = 2 /\ Q.phase = P.phase
        BY <1>2, StartMain
    <2>2. Q \in Starting(P.phase)
        <3> HIDE DEF Q
        <3> QED BY <2>1 DEF Starting, MemOK, MemType
    <2> QED
        BY <1>2, <2>2, InitLoop DEF HookInit
<1> QED  BY <1>1, <1>2

-----------------------------------------------------------------------------
(* The operations of the parent, and the changes of phase.                 *)

\* What a change of phase leaves alone.
LEMMA PhaseKeeps ==
    ASSUME NEW p, NEW P, NEW Q, NEW ph, MemOK(p, P), AfterPhase(P, Q, ph)
    PROVE  /\ \A t : Stacked(Q, t) <=> Stacked(P, t)
           /\ \A s \in ServerSet : OwnsPerl(Q, s) <=> OwnsPerl(P, s)
           /\ ph \notin Whole \/ P.phase \in Whole => StackOK(Q)
BY DEF Stacked, OwnsPerl, AfterPhase, StackOK, MemOK

\* The phase changes and the pools are no longer used.
LEMMA PhaseDown ==
    ASSUME NEW p, NEW P, NEW Q, MemOK(p, P), P.busy = {},
           NEW ph \in {"crashed", "clearing", "stopped"},
           P.phase \notin {"ending", "exited", "died"},
           AfterPhase(P, Q, ph)
    PROVE  MemOK(p, Q)
<1>1. /\ \A t : Stacked(Q, t) <=> Stacked(P, t)
      /\ \A s \in ServerSet : OwnsPerl(Q, s) <=> OwnsPerl(P, s)
      /\ StackOK(Q)
    BY PhaseKeeps DEF Whole
<1>2. MipOK(Q)
    BY <1>1 DEF MemOK, MipOK, AfterPhase, Whole
<1>3. LiveOK(p, Q)
    BY <1>1 DEF MemOK, LiveOK, AfterPhase
<1>4. EndsOK(Q) /\ PidOK(p, Q)
    BY DEF MemOK, EndsOK, PidOK, AfterPhase
<1>5. p = "parent" => UserOK(Q)
    BY DEF MemOK, UserOK, AfterPhase
<1> QED  BY <1>1, <1>2, <1>3, <1>4, <1>5 DEF MemOK, AfterPhase

\* An END block has died.
LEMMA PhaseDied ==
    ASSUME NEW p, NEW P, NEW Q, MemOK(p, P), P.busy = {}, AfterPhase(P, Q, "died")
    PROVE  MemOK(p, Q)
<1>1. /\ \A t : Stacked(Q, t) <=> Stacked(P, t)
      /\ \A s \in ServerSet : OwnsPerl(Q, s) <=> OwnsPerl(P, s)
      /\ StackOK(Q)
    BY PhaseKeeps DEF Whole
<1>2. MipOK(Q)
    BY <1>1 DEF MemOK, MipOK, AfterPhase, Whole
<1>3. LiveOK(p, Q)
    BY <1>1 DEF MemOK, LiveOK, AfterPhase
<1>4. EndsOK(Q) /\ PidOK(p, Q)
    BY DEF MemOK, EndsOK, PidOK, AfterPhase
<1>5. p = "parent" => UserOK(Q)
    BY DEF MemOK, UserOK, AfterPhase
<1> QED  BY <1>1, <1>2, <1>3, <1>4, <1>5 DEF MemOK, AfterPhase

\* A child has exited: the END blocks of its perls have run.
LEMMA PhaseExited ==
    ASSUME NEW p, NEW P, NEW Q, MemOK(p, P), p # "parent",
           \/ P.phase = "ending" /\ P.walk = {}
           \/ P.phase = "clearing" /\ P.cleanups = <<>>,
           AfterPhase(P, Q, "exited")
    PROVE  MemOK(p, Q)
<1>1. /\ \A t : Stacked(Q, t) <=> Stacked(P, t)
      /\ \A s \in ServerSet : OwnsPerl(Q, s) <=> OwnsPerl(P, s)
      /\ StackOK(Q)
    BY PhaseKeeps DEF Whole
<1>2. MipOK(Q)
    BY <1>1 DEF MemOK, MipOK, AfterPhase, Whole
<1>3. LiveOK(p, Q)
    BY <1>1 DEF MemOK, LiveOK, AfterPhase
<1>4. \A x \in P.live : P.ended[x] = 1
    <2>1. CASE P.phase = "ending" /\ P.walk = {}
        <3>1. P.ended \in [Perls -> {0, 1}] /\ P.live \subseteq Perls
            BY Fields DEF MemOK
        <3> QED BY <2>1, <3>1 DEF MemOK, EndsOK
    <2>2. CASE P.phase = "clearing" /\ P.cleanups = <<>>
        <3>1. \A t : ~Stacked(P, t)
            BY <2>2 DEF Stacked
        <3> QED BY <3>1 DEF MemOK, LiveOK
    <2> QED BY <2>1, <2>2
<1>5. EndsOK(Q) /\ PidOK(p, Q)
    BY <1>4 DEF MemOK, EndsOK, PidOK, AfterPhase
<1> QED  BY <1>1, <1>2, <1>3, <1>5 DEF MemOK, AfterPhase

\* A child begins with a copy of the parent's memory.
LEMMA PhaseForked ==
    ASSUME NEW c, NEW P, NEW Q, MemOK("parent", P), c # "parent",
           P.phase = "serving", AfterPhase(P, Q, "forked")
    PROVE  MemOK(c, Q)
<1>1. /\ \A t : Stacked(Q, t) <=> Stacked(P, t)
      /\ \A s \in ServerSet : OwnsPerl(Q, s) <=> OwnsPerl(P, s)
      /\ StackOK(Q)
    BY PhaseKeeps DEF Whole
<1>2. MipOK(Q)
    BY <1>1 DEF MemOK, MipOK, AfterPhase, Whole
<1>3. LiveOK(c, Q)
    BY <1>1 DEF MemOK, LiveOK, AfterPhase
<1>4. EndsOK(Q) /\ PidOK(c, Q)
    BY DEF MemOK, EndsOK, PidOK, AfterPhase
<1> QED  BY <1>1, <1>2, <1>3, <1>4 DEF MemOK, AfterPhase

\* modperl_hook_init has run, and the server is started.
LEMMA PhaseStarted ==
    ASSUME NEW P, NEW Q, P \in Starting("merged"), AfterPhase(P, Q, "started")
    PROVE  MemOK("parent", Q)
<1> USE DEF Starting
<1>1. /\ \A t : Stacked(Q, t) <=> Stacked(P, t)
      /\ \A s \in ServerSet : OwnsPerl(Q, s) <=> OwnsPerl(P, s)
      /\ StackOK(Q)
    BY PhaseKeeps DEF Whole
<1>2. MipOK(Q)
    BY <1>1 DEF MemOK, MipOK, AfterPhase, Whole
<1>3. LiveOK("parent", Q)
    BY <1>1 DEF MemOK, LiveOK, AfterPhase
<1>4. EndsOK(Q) /\ PidOK("parent", Q)
    BY DEF MemOK, EndsOK, PidOK, AfterPhase
<1>5. UserOK(Q)
    BY DEF MemOK, UserOK, AfterPhase
<1> QED  BY <1>1, <1>2, <1>3, <1>4, <1>5 DEF MemOK, AfterPhase

\* Merge: a virtual host without a pool shares the main server's.
LEMMA MergeOK ==
    ASSUME NEW P, MemOK("parent", P), P.phase = "config", NEW Q,
           Q = [P EXCEPT !.phase = "merged",
                         !.mip = [s \in ServerSet |->
                                    IF P.mip[s] = NULL THEN P.mip["main"] ELSE P.mip[s]]]
    PROVE  MemOK("parent", Q)
<1> DEFINE mp == [s \in ServerSet |->
                    IF P.mip[s] = NULL THEN P.mip["main"] ELSE P.mip[s]]
<1>1. MemType(P) /\ StackOK(P) /\ MipOK(P) /\ LiveOK("parent", P) /\ EndsOK(P) /\ UserOK(P)
    BY DEF MemOK
<1>2. mp \in [ServerSet -> ServerSet \cup {NULL}] /\ "merged" \in Phases
    BY <1>1, Fields, PerlFacts DEF Phases
<1>3. \A s \in ServerSet : mp[s] = IF P.mip[s] = NULL THEN P.mip["main"] ELSE P.mip[s]
    OBVIOUS
<1>4. Q = [P EXCEPT !.phase = "merged", !.mip = mp]
    OBVIOUS
<1> HIDE DEF mp
<1>5. /\ MemType(Q) /\ Q.phase = "merged" /\ Q.status = P.status
      /\ Q.hooks = P.hooks /\ Q.conf = P.conf
      /\ Q.mip = mp /\ Q.pools = P.pools /\ Q.cleanups = P.cleanups
      /\ Q.user = P.user /\ Q.idle = P.idle /\ Q.busy = P.busy
      /\ Q.live = P.live /\ Q.pid = P.pid /\ Q.ended = P.ended
      /\ Q.walk = P.walk
    BY ONLY <1>1, <1>2, <1>4 DEF MemType, MemSet
<1>6. \A t : Stacked(Q, t) <=> Stacked(P, t)
    BY <1>5 DEF Stacked
<1>7. MipOK(Q)
    <2>1. \A s \in ServerSet : /\ P.mip[s] \in {NULL, "main", s}
                               /\ P.mip[s] = s <=> Stacked(P, s)
        BY <1>1 DEF MipOK, Whole
    <2>2. "main" \in ServerSet /\ NULL \notin ServerSet
        BY PerlFacts
    <2>3. ASSUME NEW s \in ServerSet
          PROVE  mp[s] \in {NULL, "main", s} /\ (mp[s] = s <=> Stacked(P, s))
        BY <1>3, <2>1, <2>2
    <2> QED BY <1>5, <1>6, <2>3 DEF MipOK
<1>8. StackOK(Q) /\ EndsOK(Q) /\ UserOK(Q)
    BY <1>1, <1>5 DEF StackOK, EndsOK, UserOK, Whole
<1>9. LiveOK("parent", Q)
    <2>1. \A s \in ServerSet : OwnsPerl(Q, s) <=> OwnsPerl(P, s)
        BY <1>5 DEF OwnsPerl
    <2> QED BY <1>1, <1>5, <1>6, <2>1 DEF LiveOK
<1> QED
    BY <1>5, <1>7, <1>8, <1>9 DEF MemOK, PidOK

\* A cleanup is registered, or has run, in the parent: only user and pools
\* are others.
AfterUser(P, Q, us, po) ==
    /\ MemType(Q) /\ Q.phase = P.phase /\ Q.status = P.status
    /\ Q.hooks = P.hooks /\ Q.conf = P.conf
    /\ Q.mip = P.mip /\ Q.pools = po /\ Q.cleanups = P.cleanups
    /\ Q.user = us /\ Q.idle = P.idle /\ Q.busy = P.busy
    /\ Q.live = P.live /\ Q.pid = P.pid /\ Q.ended = P.ended
    /\ Q.walk = P.walk

\* What RegisterCleanup and UserCleanup change is right.
LEMMA UserChange ==
    ASSUME NEW p, NEW P, NEW Q, MemOK(p, P), NEW us, NEW po,
           AfterUser(P, Q, us, po), p = "parent" => UserOK(Q)
    PROVE  MemOK(p, Q)
<1>1. \A t : Stacked(Q, t) <=> Stacked(P, t)
    BY DEF Stacked, AfterUser
<1>2. MipOK(Q)
    BY <1>1 DEF MemOK, MipOK, AfterUser
<1>3. LiveOK(p, Q)
    BY <1>1 DEF MemOK, LiveOK, AfterUser, OwnsPerl
<1>4. StackOK(Q) /\ EndsOK(Q) /\ PidOK(p, Q)
    BY DEF MemOK, StackOK, EndsOK, PidOK, AfterUser
<1> QED  BY <1>1, <1>2, <1>3, <1>4 DEF MemOK, AfterUser

\* server_shutdown_cleanup_register.
LEMMA RegisterOK ==
    ASSUME NEW P, MemOK("parent", P), P.phase \in {"config", "started"},
           NEW x \in P.live, NEW Q, Q = [P EXCEPT !.user = P.user \cup {x}]
    PROVE  MemOK("parent", Q)
<1>1. P.live \subseteq Perls /\ P.user \subseteq Perls /\ MemType(P)
    BY Fields DEF MemOK
<1>2. AfterUser(P, Q, P.user \cup {x}, P.pools)
    BY <1>1 DEF AfterUser, MemType, MemSet
<1>3. P.status = 2
    BY <1>1, Fields, MainStacked DEF MemOK, LiveOK
<1>4. UserOK(Q)
    BY <1>2, <1>3 DEF MemOK, UserOK, AfterUser
<1> QED  BY <1>2, <1>4, UserChange

\* mpxs_cleanup_run for one cleanup.
LEMMA UserCleanupOK ==
    ASSUME NEW P, MemOK("parent", P), NEW x, NEW Q,
           Q = [P EXCEPT !.user = P.user \ {x}]
    PROVE  MemOK("parent", Q)
<1>1. P.user \subseteq Perls /\ MemType(P)
    BY Fields DEF MemOK
<1>2. AfterUser(P, Q, P.user \ {x}, P.pools)
    BY <1>1 DEF AfterUser, MemType, MemSet
<1>4. UserOK(Q)
    BY <1>2 DEF MemOK, UserOK, AfterUser
<1> QED  BY <1>2, <1>4, UserChange

\* The newest of the two pools is destroyed.
LEMMA PoolGoneOK ==
    ASSUME NEW P, MemOK("parent", P), P.phase = "clearing", P.user = {},
           P.pools # <<>>, NEW Q, Q = [P EXCEPT !.pools = Front(P.pools)]
    PROVE  MemOK("parent", Q)
<1>1. P.pools \in PoolStacks /\ MemType(P)
    BY Fields DEF MemOK
<1>2. Front(P.pools) \in PoolStacks
    <2>1. CASE P.pools = <<"server">>
        <3>1. SubSeq(<<"server">>, 1, 0) = <<>>
            OBVIOUS
        <3> QED BY <2>1, <3>1 DEF Front, PoolStacks
    <2>2. CASE P.pools = <<"server", "user">>
        <3> DEFINE t == Front(P.pools)
        <3>1. /\ t \in Seq({"server", "user"}) /\ Len(t) = 1 /\ t[1] = "server"
            BY <2>2, SubSeqProperties DEF Front
        <3>2. t = <<"server">>
            <4> HIDE DEF t
            <4> QED BY <3>1
        <3> QED BY <3>2 DEF PoolStacks
    <2> QED BY <1>1, <2>1, <2>2 DEF PoolStacks
<1>3. AfterUser(P, Q, P.user, Front(P.pools))
    BY <1>1, <1>2 DEF AfterUser, MemType, MemSet
<1>4. UserOK(Q)
    BY <1>3 DEF MemOK, UserOK, AfterUser
<1> QED  BY <1>3, <1>4, UserChange

\* Nothing has been started.
Fresh(Q, ph) ==
    /\ Q \in MemSet /\ Q.phase = ph /\ Q.status = 0 /\ Q.hooks = FALSE
    /\ Q.cleanups = <<>> /\ Q.mip = [s \in ServerSet |-> NULL]
    /\ Q.user = {} /\ Q.live = {} /\ Q.busy = {}
    /\ Q.idle = [s \in ServerSet |-> {}] /\ Q.pid = [x \in Perls |-> NULL]

\* A process that has not been started yet, and the parent before it reads
\* the configuration.
LEMMA BlankOK ==
    ASSUME NEW p \in Procs
    PROVE  /\ MemOK(p, Blank)
           /\ \A f \in Confs :
                MemOK("parent", [Blank EXCEPT !.phase = "config", !.conf = f])
<1> DEFINE none == [v \in VhostSet |-> "shared"]
<1>1. ASSUME NEW q, NEW Q, NEW ph \in {"none", "config"},
             Fresh(Q, ph)
      PROVE  MemOK(q, Q)
    <2>2. \A t : ~Stacked(Q, t)
        BY <1>1 DEF Stacked, Fresh
    <2>3. StackOK(Q) /\ MipOK(Q)
        BY <1>1, <2>2, PerlFacts DEF StackOK, MipOK, Whole, Fresh
    <2>4. LiveOK(q, Q) /\ EndsOK(Q) /\ PidOK(q, Q) /\ UserOK(Q)
        BY <1>1, <2>2 DEF LiveOK, EndsOK, PidOK, UserOK, Fresh
    <2> QED
        BY <1>1, <2>3, <2>4 DEF MemOK, MemType, Fresh
<1>2. /\ Blank.phase = "none" /\ Blank.status = 0 /\ Blank.hooks = FALSE
      /\ Blank.cleanups = <<>> /\ Blank.mip = [s \in ServerSet |-> NULL]
      /\ Blank.user = {} /\ Blank.live = {} /\ Blank.busy = {}
      /\ Blank.idle = [s \in ServerSet |-> {}]
      /\ Blank.pid = [x \in Perls |-> NULL]
    BY DEF Blank
<1>3. Blank \in MemSet
    <2>1. /\ none \in [VhostSet -> AllKinds] /\ <<>> \in Seq(ServerSet \cup {"term"})
          /\ [s \in ServerSet |-> NULL] \in [ServerSet -> ServerSet \cup {NULL}]
          /\ [s \in ServerSet |-> {}] \in [ServerSet -> SUBSET Perls]
          /\ [x \in Perls |-> NULL] \in [Perls -> Procs \cup {NULL}]
          /\ [x \in Perls |-> 0] \in [Perls -> {0, 1}]
          /\ "none" \in Phases /\ <<>> \in PoolStacks
        BY DEF AllKinds, Phases, PoolStacks
    <2> QED
        BY <2>1, Zenon DEF Blank, MemSet
<1>4. ASSUME NEW f \in Confs PROVE f \in [VhostSet -> AllKinds]
    BY LifecycleAssumption DEF Confs, AllKinds
<1>5. "config" \in Phases
    BY DEF Phases
<1>6. ASSUME NEW f \in Confs
      PROVE  MemOK("parent", [Blank EXCEPT !.phase = "config", !.conf = f])
    <2> DEFINE Q == [Blank EXCEPT !.phase = "config", !.conf = f]
    <2>1. f \in [VhostSet -> AllKinds]
        BY <1>4
    <2>2. /\ Q \in MemSet /\ Q.phase = "config" /\ Q.status = Blank.status
          /\ Q.hooks = Blank.hooks /\ Q.cleanups = Blank.cleanups
          /\ Q.mip = Blank.mip /\ Q.user = Blank.user /\ Q.live = Blank.live
          /\ Q.busy = Blank.busy /\ Q.idle = Blank.idle /\ Q.pid = Blank.pid
        BY ONLY <1>3, <1>5, <2>1 DEF MemSet
    <2> HIDE DEF Q
    <2>3. Fresh(Q, "config")
        BY ONLY <1>2, <2>2, Zenon DEF Fresh
    <2>4. MemOK("parent", Q)
        BY <1>1, <2>3
    <2> QED BY <2>4 DEF Q
<1>7. MemOK(p, Blank)
    <2>1. Fresh(Blank, "none")
        BY <1>2, <1>3, Zenon DEF Fresh
    <2> QED BY <1>1, <2>1
<1> QED
    BY <1>6, <1>7

-----------------------------------------------------------------------------
(* Clones.                                                                 *)

\* The new perls X, the list that holds them and the requests that run.
AfterClones(P, Q, X, ph, id, bu) ==
    /\ MemType(Q) /\ Q.phase = ph /\ Q.status = P.status
    /\ Q.hooks = P.hooks /\ Q.conf = P.conf
    /\ Q.mip = P.mip /\ Q.pools = P.pools /\ Q.cleanups = P.cleanups
    /\ Q.user = P.user /\ Q.idle = id /\ Q.busy = bu
    /\ Q.live = P.live \cup X /\ Q.walk = P.walk
    /\ \A x \in Perls : Q.pid[x] = IF x \in X THEN P.pid[ParentPerl(P, x[1])]
                                   ELSE P.pid[x]
    /\ \A x \in Perls : Q.ended[x] = IF x \in X THEN 0 ELSE P.ended[x]

NewIdle(P, X) == [s \in ServerSet |-> P.idle[s] \cup {x \in X : x[1] = s}]

\* What interp_pool_grow changes.
LEMMA ClonesFields ==
    ASSUME NEW P, MemType(P), NEW X \in SUBSET Perls
    PROVE  AfterClones(P, Clones(P, X), X, P.phase, NewIdle(P, X), P.busy)
<1> DEFINE Q == Clones(P, X)
           pd == [x \in Perls |-> IF x \in X THEN P.pid[ParentPerl(P, x[1])]
                                  ELSE P.pid[x]]
           en == [x \in Perls |-> IF x \in X THEN 0 ELSE P.ended[x]]
           id == NewIdle(P, X)
<1>1. \A s \in ServerSet : ParentPerl(P, s) \in Perls
    BY PerlFacts DEF ParentPerl
<1>2. /\ pd \in [Perls -> Procs \cup {NULL}] /\ en \in [Perls -> {0, 1}]
      /\ id \in [ServerSet -> SUBSET Perls] /\ P.live \cup X \in SUBSET Perls
    BY <1>1, Fields, PerlFacts DEF NewIdle
<1>3. Q = [P EXCEPT !.live = P.live \cup X, !.idle = id, !.pid = pd, !.ended = en]
    BY DEF Clones, NewIdle
<1>4. /\ \A x \in Perls : pd[x] = IF x \in X THEN P.pid[ParentPerl(P, x[1])]
                                  ELSE P.pid[x]
      /\ \A x \in Perls : en[x] = IF x \in X THEN 0 ELSE P.ended[x]
    OBVIOUS
<1> HIDE DEF Q, pd, en, id
<1>5. /\ MemType(Q) /\ Q.phase = P.phase /\ Q.status = P.status
      /\ Q.hooks = P.hooks /\ Q.conf = P.conf
      /\ Q.mip = P.mip /\ Q.pools = P.pools /\ Q.cleanups = P.cleanups
      /\ Q.user = P.user /\ Q.idle = id /\ Q.busy = P.busy
      /\ Q.live = P.live \cup X /\ Q.walk = P.walk
      /\ Q.pid = pd /\ Q.ended = en
    BY ONLY <1>2, <1>3, MemType(P) DEF MemType, MemSet
<1>6. AfterClones(P, Q, X, P.phase, id, P.busy)
    BY ONLY <1>4, <1>5, Zenon DEF AfterClones
<1> QED BY <1>6 DEF Q, id

\* A clone is made from a perl that is there.
LEMMA ParentThere ==
    ASSUME NEW p, NEW P, MemOK(p, P), NEW s \in ServerSet, Stacked(P, s)
    PROVE  ParentPerl(P, s) \in P.live /\ P.pid[ParentPerl(P, s)] # NULL
<1>1. MemType(P) /\ StackOK(P) /\ LiveOK(p, P) /\ EndsOK(P)
    BY DEF MemOK
<1>2. Stacked(P, "main") /\ "main" \in ServerSet
    BY <1>1, Fields, MainStacked, PerlFacts
<1>3. OwnsPerl(P, "main")
    BY DEF OwnsPerl
<1>4. ParentPerl(P, s) \in P.live
    BY <1>1, <1>2, <1>3 DEF LiveOK, ParentPerl
<1> QED BY <1>1, <1>4 DEF EndsOK

\* New clones are alive, have not run their END blocks, and are idle or busy.
LEMMA ClonesOK ==
    ASSUME NEW p, NEW P, MemOK(p, P), threaded, NEW X \in SUBSET Perls,
           NEW ph, NEW id, NEW bu, NEW Q, AfterClones(P, Q, X, ph, id, bu),
           \/ P.phase = "started" /\ ph = "serving" /\ p = "parent"
           \/ P.phase = "serving" /\ ph = "serving",
           \A s \in ServerSet : P.mip[s] # NULL,
           \A x \in X : x[2] > 0 /\ Stacked(P, x[1]),
           \A s \in ServerSet : \A x \in id[s] :
              x \in P.live \cup X /\ x[1] = s /\ x[2] > 0,
           \A x \in P.live \cup X : x[2] > 0 => x \in id[x[1]] \/ x \in bu,
           bu \subseteq P.live \cup X, \A x \in bu : x[2] > 0,
           p = "parent" => bu = {}
    PROVE  MemOK(p, Q)
<1>1. /\ MemType(P) /\ StackOK(P) /\ MipOK(P) /\ LiveOK(p, P) /\ EndsOK(P)
      /\ PidOK(p, P) /\ (p = "parent" => UserOK(P))
    BY DEF MemOK
<1>2. \A t : Stacked(Q, t) <=> Stacked(P, t)
    BY DEF Stacked, AfterClones
<1>3. \A s \in ServerSet : OwnsPerl(Q, s) <=> OwnsPerl(P, s)
    BY DEF AfterClones, OwnsPerl
<1>4. StackOK(Q)
    BY <1>1 DEF StackOK, AfterClones, Whole
<1>5. MipOK(Q)
    BY <1>1, <1>2 DEF MipOK, AfterClones, Whole
<1>6. X \subseteq Perls /\ P.live \subseteq Perls /\ \A x \in X : x[2] # 0
    BY <1>1, Fields, PerlFacts
<1>7. LiveOK(p, Q)
    <2>1. \A s \in ServerSet : <<s, 0>> \notin X
        BY <1>6
    <2>2. /\ Q.live = P.live \cup X /\ Q.idle = id /\ Q.busy = bu /\ Q.phase = ph
        BY DEF AfterClones
    <2>3. \A x \in Q.live : Stacked(Q, x[1])
        BY <1>1, <1>2, <2>2 DEF LiveOK
    <2>4. \A s \in ServerSet : <<s, 0>> \in Q.live <=> Stacked(Q, s) /\ OwnsPerl(Q, s)
        BY <1>1, <1>2, <1>3, <2>1, <2>2 DEF LiveOK
    <2>5. ph = "serving"
        OBVIOUS
    <2> QED
        BY <2>2, <2>3, <2>4, <2>5 DEF LiveOK
<1>8. \A x \in X : P.pid[ParentPerl(P, x[1])] # NULL /\ ParentPerl(P, x[1]) \in P.live
    BY <1>6, PerlFacts, ParentThere
<1>9. EndsOK(Q)
    BY <1>1, <1>6, <1>8 DEF EndsOK, AfterClones
<1>10. PidOK(p, Q)
    BY <1>1, <1>6, <1>8 DEF PidOK, AfterClones
<1>11. p = "parent" => UserOK(Q)
    BY <1>1 DEF UserOK, AfterClones
<1> QED
    BY <1>4, <1>5, <1>7, <1>9, <1>10, <1>11 DEF MemOK, AfterClones

\* modperl_hook_post_config_last, when every server has an interpreter pool.
LEMMA PostConfigOK ==
    ASSUME NEW P, MemOK("parent", P), P.phase = "started", threaded \in BOOLEAN,
           \A s \in ServerSet : P.mip[s] # NULL, NEW Q,
           Q = [InitClones(P) EXCEPT !.phase = "serving", !.post = TRUE]
    PROVE  MemOK("parent", Q)
<1>1. MemType(P) /\ MipOK(P) /\ LiveOK("parent", P)
    BY DEF MemOK
<1>2. CASE threaded
    <2> DEFINE X == {x \in Perls : /\ x[2] \in 1 .. Start
                                   /\ x[1] \in {P.mip[s] : s \in ServerSet}
                                   /\ P.idle[x[1]] = {}}
               R == Clones(P, X)
               id == NewIdle(P, X)
    <2>1. InitClones(P) = R
        BY <1>2 DEF InitClones
    <2>2. X \in SUBSET Perls
        OBVIOUS
    <2>3. ASSUME NEW x \in X PROVE x[2] > 0 /\ Stacked(P, x[1])
        <3>1. x \in Perls /\ x[2] \in 1 .. Start
            OBVIOUS
        <3>2. PICK s \in ServerSet : x[1] = P.mip[s]
            OBVIOUS
        <3>3. x[1] \in ServerSet /\ P.mip[x[1]] = x[1]
            BY <1>1, <3>2, PerlFacts DEF MipOK
        <3> QED BY <1>1, <3>1, <3>3, LifecycleAssumption DEF MipOK, Whole
    <2> HIDE DEF X
    <2>4. AfterClones(P, R, X, P.phase, id, P.busy)
        BY <1>1, <2>2, ClonesFields
    <2> HIDE DEF R
    <2>5. AfterClones(P, Q, X, "serving", id, P.busy)
        <3>1. /\ MemType(Q) /\ Q.phase = "serving" /\ Q.status = R.status
              /\ Q.hooks = R.hooks /\ Q.conf = R.conf
              /\ Q.mip = R.mip /\ Q.pools = R.pools /\ Q.cleanups = R.cleanups
              /\ Q.user = R.user /\ Q.idle = R.idle /\ Q.busy = R.busy
              /\ Q.live = R.live /\ Q.walk = R.walk /\ Q.pid = R.pid
              /\ Q.ended = R.ended
            <4>1. MemType(R)
                BY <2>4 DEF AfterClones
            <4>2. Q = [R EXCEPT !.phase = "serving", !.post = TRUE]
                BY <2>1
            <4> QED BY ONLY <4>1, <4>2 DEF MemType, MemSet, Phases
        <3> HIDE DEF id
        <3> QED
            BY ONLY <2>4, <3>1, Zenon DEF AfterClones
    <2>6. \A s \in ServerSet : id[s] = P.idle[s] \cup {x \in X : x[1] = s}
        BY DEF NewIdle
    <2>7. X \subseteq Perls /\ P.live \subseteq Perls
        BY <1>1, <2>2, Fields
    <2> HIDE DEF id
    <2>8. P.busy = {}
        BY <1>1 DEF LiveOK
    <2>9. \A s \in ServerSet : \A x \in id[s] :
              x \in P.live \cup X /\ x[1] = s /\ x[2] > 0
        BY <1>1, <2>3, <2>6 DEF LiveOK
    <2>10. \A x \in P.live \cup X : x[2] > 0 => x \in id[x[1]] \/ x \in P.busy
        BY <1>1, <2>6, <2>7, PerlFacts DEF LiveOK
    <2> QED
        BY <1>2, <2>2, <2>3, <2>5, <2>8, <2>9, <2>10, ClonesOK
<1>3. CASE ~threaded
    <2>1. Q = [P EXCEPT !.phase = "serving", !.post = TRUE]
        BY <1>3 DEF InitClones
    <2>2. AfterPhase(P, Q, "serving")
        BY ONLY <1>1, <2>1 DEF MemType, MemSet, AfterPhase, Phases
    <2>3. /\ \A t : Stacked(Q, t) <=> Stacked(P, t)
          /\ \A s \in ServerSet : OwnsPerl(Q, s) <=> OwnsPerl(P, s)
          /\ StackOK(Q)
        BY <2>2, PhaseKeeps DEF Whole
    <2>4. MipOK(Q)
        BY <2>2, <2>3 DEF MemOK, MipOK, AfterPhase, Whole
    <2>5. LiveOK("parent", Q)
        BY <2>2, <2>3 DEF MemOK, LiveOK, AfterPhase
    <2>6. EndsOK(Q) /\ PidOK("parent", Q) /\ UserOK(Q)
        BY <2>2 DEF MemOK, EndsOK, PidOK, UserOK, AfterPhase
    <2> QED  BY <2>2, <2>3, <2>4, <2>5, <2>6 DEF MemOK, AfterPhase
<1> QED  BY <1>2, <1>3

\* All clones are busy: a new one is made and selected.
LEMMA SelectNewOK ==
    ASSUME NEW c, c # "parent", NEW P, MemOK(c, P), threaded,
           P.phase = "serving", NEW s \in ServerSet, P.mip[s] = s,
           P.idle[s] = {}, NEW k \in 1 .. MaxClones, NEW Q,
           Q = [Clones(P, {<<s, k>>}) EXCEPT !.idle[s] = {},
                                             !.busy = @ \cup {<<s, k>>}]
    PROVE  MemOK(c, Q)
<1> DEFINE y == <<s, k>>
           X == {y}
           R == Clones(P, X)
           bu == P.busy \cup {y}
<1>1. MemType(P) /\ MipOK(P) /\ LiveOK(c, P)
    BY DEF MemOK
<1>2. y \in Perls /\ y[1] = s /\ y[2] = k /\ k > 0 /\ Stacked(P, s) /\ P.mip[s] # NULL
    BY <1>1, PerlFacts, LifecycleAssumption DEF MipOK, Whole
<1>3. Q = [R EXCEPT !.idle[s] = {}, !.busy = @ \cup {y}]
    OBVIOUS
<1> HIDE DEF y
<1>4. AfterClones(P, R, X, P.phase, NewIdle(P, X), P.busy)
    BY <1>1, <1>2, ClonesFields
<1> HIDE DEF R, X
<1>5. [R.idle EXCEPT ![s] = {}] = P.idle
    <2>1. R.idle = [t \in ServerSet |-> P.idle[t] \cup {x \in {y} : x[1] = t}]
        BY <1>4, Zenon DEF AfterClones, NewIdle, X
    <2>2. \A t \in ServerSet : t # s => {x \in {y} : x[1] = t} = {}
        BY <1>2
    <2>3. \A t \in ServerSet : t # s => R.idle[t] = P.idle[t]
        BY <2>1, <2>2
    <2>4. P.idle \in [ServerSet -> SUBSET Perls] /\ R.idle = [t \in ServerSet |-> R.idle[t]]
        BY <1>1, Fields, <2>1
    <2> QED BY ONLY <2>3, <2>4, P.idle[s] = {}
<1>6. AfterClones(P, Q, X, "serving", P.idle, bu)
    <2>1. MemType(R) /\ R.busy = P.busy /\ R.phase = "serving"
        BY <1>4, Zenon DEF AfterClones
    <2>2. Q = [R EXCEPT !.idle = P.idle, !.busy = bu]
        BY <1>3, <1>5, <2>1
    <2>3. P.idle \in [ServerSet -> SUBSET Perls] /\ bu \in SUBSET Perls
        BY <1>1, <1>2, Fields
    <2> HIDE DEF bu
    <2>4. /\ MemType(Q) /\ Q.phase = R.phase /\ Q.status = R.status
          /\ Q.hooks = R.hooks /\ Q.conf = R.conf
          /\ Q.mip = R.mip /\ Q.pools = R.pools /\ Q.cleanups = R.cleanups
          /\ Q.user = R.user /\ Q.idle = P.idle /\ Q.busy = bu
          /\ Q.live = R.live /\ Q.walk = R.walk /\ Q.pid = R.pid
          /\ Q.ended = R.ended
        BY ONLY <2>1, <2>2, <2>3 DEF MemType, MemSet
    <2> QED
        BY ONLY <1>4, <2>1, <2>4, Zenon DEF AfterClones
<1>7. /\ X \in SUBSET Perls /\ \A x \in X : x[2] > 0 /\ Stacked(P, x[1])
      /\ X \subseteq bu /\ \A x \in bu : x[2] > 0
    BY <1>1, <1>2 DEF X, LiveOK
<1>8. P.busy \subseteq bu /\ bu \subseteq P.live \cup X
    BY <1>1 DEF X, LiveOK
<1> HIDE DEF bu
<1>9. /\ \A t \in ServerSet : \A x \in P.idle[t] :
              x \in P.live \cup X /\ x[1] = t /\ x[2] > 0
      /\ \A x \in P.live \cup X : x[2] > 0 => x \in P.idle[x[1]] \/ x \in bu
    BY <1>1, <1>7, <1>8 DEF LiveOK
<1>10. \A t \in ServerSet : P.mip[t] # NULL
    BY <1>1 DEF MipOK
<1> QED
    BY ONLY <1>6, <1>7, <1>8, <1>9, <1>10, c # "parent", threaded, MemOK(c, P),
            P.phase = "serving", ClonesOK

-----------------------------------------------------------------------------
(* The operations of a child.                                              *)

\* As long as no request runs modperl_interp_mip_walk_servers visits every
\* perl.
LEMMA WalkIsLive ==
    ASSUME NEW p, NEW P, MemOK(p, P), P.phase \in {"serving", "forked"}, P.busy = {}
    PROVE  Walk(P) = P.live
<1> DEFINE W == {s \in ServerSet : s = "main" \/ P.mip[s] # "main"}
<1>1. MemType(P) /\ StackOK(P) /\ MipOK(P) /\ LiveOK(p, P)
    BY DEF MemOK
<1>2. \A s \in ServerSet : s \in W <=> Stacked(P, s)
    BY <1>1 DEF MipOK, Whole
<1>3. Walk(P) = {<<s, 0>> : s \in {t \in W : OwnsPerl(P, t)}} \cup UNION {P.idle[s] : s \in W}
    BY DEF Walk
<1>4. P.live \subseteq Perls /\ W \subseteq ServerSet
    BY <1>1, Fields
<1> HIDE DEF W
<1>5. ASSUME NEW x \in P.live PROVE x \in Walk(P)
    <2>1. x \in Perls /\ x[1] \in ServerSet /\ x[2] \in Nat /\ x = <<x[1], x[2]>>
        BY <1>4, PerlFacts
    <2>2. x[1] \in W
        BY <1>1, <1>2, <2>1 DEF LiveOK
    <2>3. CASE x[2] = 0
        BY <1>1, <1>3, <2>1, <2>2, <2>3 DEF LiveOK
    <2>4. CASE x[2] > 0
        <3>1. x \in P.idle[x[1]]
            BY <1>1, <2>4 DEF LiveOK
        <3> QED BY <1>3, <2>2, <3>1
    <2> QED BY <2>1, <2>3, <2>4
<1>6. ASSUME NEW x \in Walk(P) PROVE x \in P.live
    <2>1. CASE \E s \in W : OwnsPerl(P, s) /\ x = <<s, 0>>
        BY <1>1, <1>2, <1>4, <2>1 DEF LiveOK
    <2>2. CASE \E s \in W : x \in P.idle[s]
        BY <1>1, <1>4, <2>2 DEF LiveOK
    <2> QED BY <1>3, <1>6, <2>1, <2>2
<1> QED BY <1>5, <1>6

\* modperl_hook_child_init.
LEMMA ChildInitOK ==
    ASSUME NEW c \in Children, NEW P, MemOK(c, P), P.phase = "forked", NEW Q,
           Q = [InitIds(P, c) EXCEPT !.phase = "serving"]
    PROVE  MemOK(c, Q)
<1> DEFINE pd == [x \in Perls |-> IF x \in P.live THEN c ELSE P.pid[x]]
<1>1. MemType(P) /\ StackOK(P) /\ MipOK(P) /\ LiveOK(c, P) /\ EndsOK(P)
    BY DEF MemOK
<1>2. Walk(P) = P.live
    BY <1>1, WalkIsLive DEF LiveOK
<1>3. c # "parent" /\ c # NULL /\ c \in Procs
    BY LifecycleAssumption DEF Procs
<1>4. Q = [P EXCEPT !.pid = pd, !.phase = "serving"]
    BY <1>2 DEF InitIds
<1>5. pd \in [Perls -> Procs \cup {NULL}] /\ "serving" \in Phases
    BY <1>1, <1>3, Fields DEF Phases
<1>6. \A x \in Perls : pd[x] = IF x \in P.live THEN c ELSE P.pid[x]
    OBVIOUS
<1> HIDE DEF pd
<1>7. /\ MemType(Q) /\ Q.phase = "serving" /\ Q.status = P.status
      /\ Q.hooks = P.hooks /\ Q.conf = P.conf
      /\ Q.mip = P.mip /\ Q.pools = P.pools /\ Q.cleanups = P.cleanups
      /\ Q.user = P.user /\ Q.idle = P.idle /\ Q.busy = P.busy
      /\ Q.live = P.live /\ Q.pid = pd /\ Q.ended = P.ended
      /\ Q.walk = P.walk
    BY ONLY <1>1, <1>4, <1>5 DEF MemType, MemSet
<1>8. \A t : Stacked(Q, t) <=> Stacked(P, t)
    BY <1>7 DEF Stacked
<1>9. StackOK(Q) /\ MipOK(Q)
    BY <1>1, <1>7, <1>8 DEF StackOK, MipOK, Whole
<1>10. \A s \in ServerSet : OwnsPerl(Q, s) <=> OwnsPerl(P, s)
    BY <1>7 DEF OwnsPerl
<1>11. LiveOK(c, Q)
    BY <1>1, <1>7, <1>8, <1>10 DEF LiveOK
<1>12. P.live \subseteq Perls
    BY <1>1, Fields
<1>13. EndsOK(Q) /\ PidOK(c, Q)
    BY <1>1, <1>3, <1>6, <1>7, <1>12 DEF EndsOK, PidOK
<1> QED
    BY <1>3, <1>7, <1>9, <1>11, <1>13 DEF MemOK

\* Requests begin and end: interpreters move between the idle lists and the
\* requests that run.
AfterMove(P, Q, id, bu) ==
    /\ MemType(Q) /\ Q.phase = P.phase /\ Q.status = P.status
    /\ Q.hooks = P.hooks /\ Q.conf = P.conf
    /\ Q.mip = P.mip /\ Q.pools = P.pools /\ Q.cleanups = P.cleanups
    /\ Q.user = P.user /\ Q.idle = id /\ Q.busy = bu
    /\ Q.live = P.live /\ Q.pid = P.pid /\ Q.ended = P.ended
    /\ Q.walk = P.walk

\* A move of interpreters is right when they stay idle or busy.
LEMMA MoveOK ==
    ASSUME NEW c, c # "parent", NEW P, MemOK(c, P), P.phase = "serving",
           NEW Q, NEW id, NEW bu, AfterMove(P, Q, id, bu),
           \A s \in ServerSet : \A x \in id[s] : x \in P.live /\ x[1] = s /\ x[2] > 0,
           \A x \in P.live : x[2] > 0 => x \in id[x[1]] \/ x \in bu,
           bu \subseteq P.live, \A x \in bu : threaded => x[2] > 0
    PROVE  MemOK(c, Q)
<1>1. MemType(P) /\ StackOK(P) /\ MipOK(P) /\ LiveOK(c, P) /\ EndsOK(P) /\ PidOK(c, P)
    BY DEF MemOK
<1>2. \A t : Stacked(Q, t) <=> Stacked(P, t)
    BY DEF Stacked, AfterMove
<1>3. \A s \in ServerSet : OwnsPerl(Q, s) <=> OwnsPerl(P, s)
    BY DEF OwnsPerl, AfterMove
<1>4. StackOK(Q) /\ MipOK(Q)
    BY <1>1, <1>2 DEF StackOK, MipOK, AfterMove
<1>5. EndsOK(Q) /\ PidOK(c, Q)
    BY <1>1 DEF EndsOK, PidOK, AfterMove
<1>6. LiveOK(c, Q)
    BY <1>1, <1>2, <1>3 DEF LiveOK, AfterMove
<1> QED
    BY <1>4, <1>5, <1>6 DEF MemOK, AfterMove

\* An idle interpreter is selected.
LEMMA SelectOK ==
    ASSUME NEW c, c # "parent", NEW P, MemOK(c, P), P.phase = "serving",
           NEW s \in ServerSet, NEW x \in P.idle[s], NEW Q,
           Q = [P EXCEPT !.idle[s] = @ \ {x}, !.busy = @ \cup {x}]
    PROVE  MemOK(c, Q)
<1> DEFINE id == [P.idle EXCEPT ![s] = P.idle[s] \ {x}]
           bu == P.busy \cup {x}
<1>1. MemType(P) /\ LiveOK(c, P)
    BY DEF MemOK
<1>2. x \in P.live /\ x[1] = s /\ x[2] > 0 /\ P.live \subseteq Perls
    BY <1>1, Fields DEF LiveOK
<1>3. id \in [ServerSet -> SUBSET Perls] /\ bu \in SUBSET Perls
    BY <1>1, <1>2, Fields
<1>4. \A t \in ServerSet : id[t] = IF t = s THEN P.idle[s] \ {x} ELSE P.idle[t]
    BY <1>1, Fields
<1>5. Q = [P EXCEPT !.idle = id, !.busy = bu]
    OBVIOUS
<1> HIDE DEF id
<1>6. AfterMove(P, Q, id, bu)
    <2> HIDE DEF bu
    <2> QED BY ONLY <1>1, <1>3, <1>5 DEF MemType, MemSet, AfterMove
<1>7. \A t \in ServerSet : \A y \in id[t] : y \in P.live /\ y[1] = t /\ y[2] > 0
    BY <1>1, <1>4 DEF LiveOK
<1>8. \A y \in P.live : y[2] > 0 => y \in id[y[1]] \/ y \in bu
    BY <1>1, <1>2, <1>4, PerlFacts DEF LiveOK
<1>9. bu \subseteq P.live /\ \A y \in bu : threaded => y[2] > 0
    BY <1>1, <1>2 DEF LiveOK
<1> HIDE DEF bu
<1> QED
    BY <1>6, <1>7, <1>8, <1>9, MoveOK

\* Without threads a request runs on the parent perl.
LEMMA SelectParentOK ==
    ASSUME NEW c, c # "parent", NEW P, MemOK(c, P), P.phase = "serving", ~threaded,
           NEW s \in ServerSet, P.mip[s] = s, P.busy = {}, NEW Q,
           Q = [P EXCEPT !.busy = {ParentPerl(P, s)}]
    PROVE  MemOK(c, Q)
<1> DEFINE bu == {ParentPerl(P, s)}
<1>1. MemType(P) /\ LiveOK(c, P) /\ MipOK(P)
    BY DEF MemOK
<1>2. ParentPerl(P, s) \in P.live
    BY <1>1, ParentThere DEF MipOK, Whole
<1>3. bu \in SUBSET Perls
    BY <1>1, <1>2, Fields
<1>4. bu \subseteq P.live
    BY <1>2
<1> HIDE DEF bu
<1>5. AfterMove(P, Q, P.idle, bu)
    BY <1>1, <1>3 DEF MemType, MemSet, AfterMove, bu
<1> QED
    BY <1>1, <1>4, <1>5, MoveOK DEF LiveOK

\* The interpreter of a request goes back to its pool.
LEMMA PutbackOK ==
    ASSUME NEW c, c # "parent", NEW P, MemOK(c, P), P.phase = "serving",
           threaded \in BOOLEAN, NEW x \in P.busy, NEW Q,
           Q = [P EXCEPT !.busy = @ \ {x},
                         !.idle[x[1]] = IF threaded THEN @ \cup {x} ELSE @]
    PROVE  MemOK(c, Q)
<1> DEFINE s == x[1]
           new == IF threaded THEN P.idle[s] \cup {x} ELSE P.idle[s]
           id == [P.idle EXCEPT ![s] = new]
           bu == P.busy \ {x}
<1>1. MemType(P) /\ LiveOK(c, P)
    BY DEF MemOK
<1>2. x \in P.live /\ P.live \subseteq Perls /\ (threaded => x[2] > 0)
    BY <1>1, Fields DEF LiveOK
<1>3. s \in ServerSet
    BY <1>2, PerlFacts
<1>4. id \in [ServerSet -> SUBSET Perls] /\ bu \in SUBSET Perls
    BY <1>1, <1>2, <1>3, Fields
<1>5. \A t \in ServerSet : id[t] = IF t = s THEN new ELSE P.idle[t]
    BY <1>1, Fields
<1>6. Q = [P EXCEPT !.busy = bu, !.idle = id]
    OBVIOUS
<1> HIDE DEF id
<1>7. AfterMove(P, Q, id, bu)
    <2> HIDE DEF bu
    <2> QED BY ONLY <1>1, <1>4, <1>6 DEF MemType, MemSet, AfterMove
<1>8. \A t \in ServerSet : \A y \in id[t] : y \in P.live /\ y[1] = t /\ y[2] > 0
    BY <1>1, <1>2, <1>5 DEF LiveOK
<1>9. \A y \in P.live : y[2] > 0 => y \in id[y[1]] \/ y \in bu
    BY <1>1, <1>2, <1>3, <1>5, PerlFacts DEF LiveOK
<1>10. bu \subseteq P.live /\ \A y \in bu : threaded => y[2] > 0
    BY <1>1, <1>2 DEF LiveOK
<1> HIDE DEF bu
<1> QED
    BY <1>7, <1>8, <1>9, <1>10, MoveOK

-----------------------------------------------------------------------------
(* Perls are destroyed, and their END blocks run.                          *)

\* The perl x is destroyed; bu run requests and cl are the cleanups left.
AfterDestroy(P, Q, x, bu, cl) ==
    /\ MemType(Q) /\ Q.phase = P.phase /\ Q.status = P.status
    /\ Q.hooks = P.hooks /\ Q.conf = P.conf
    /\ Q.mip = P.mip /\ Q.pools = P.pools /\ Q.cleanups = cl
    /\ Q.user = P.user /\ Q.busy = bu /\ Q.live = P.live \ {x}
    /\ Q.pid = P.pid /\ Q.walk = P.walk
    /\ \A s \in ServerSet : Q.idle[s] = P.idle[s] \ {x}
    /\ \A y \in Perls : Q.ended[y] = IF y = x THEN 1 ELSE P.ended[y]

\* What modperl_interp_destroy changes.
LEMMA DestroyFields ==
    ASSUME NEW p, NEW P, MemOK(p, P), NEW x \in P.live,
           P.phase \notin {"ending", "exited", "died"}
    PROVE  AfterDestroy(P, Destroy(P, x), x, P.busy, P.cleanups)
<1> DEFINE en == [P.ended EXCEPT ![x] = P.ended[x] + 1]
           li == P.live \ {x}
           s == x[1]
           D == Destruct(P, x)
           id == [D.idle EXCEPT ![s] = D.idle[s] \ {x}]
           Q == Destroy(P, x)
<1>1. MemType(P) /\ LiveOK(p, P) /\ EndsOK(P)
    BY DEF MemOK
<1>2. x \in Perls /\ s \in ServerSet /\ P.ended[x] = 0
    BY <1>1, Fields, PerlFacts DEF EndsOK
<1>3. en \in [Perls -> {0, 1}] /\ li \in SUBSET Perls
    BY <1>1, <1>2, Fields
<1>4. \A y \in Perls : en[y] = IF y = x THEN 1 ELSE P.ended[y]
    BY <1>1, <1>2, Fields
<1>5. D = [P EXCEPT !.ended = en, !.live = li]
    BY DEF Destruct
<1> HIDE DEF en, li, D, s
<1>6. /\ MemType(D) /\ D.phase = P.phase /\ D.status = P.status
      /\ D.hooks = P.hooks /\ D.conf = P.conf
      /\ D.mip = P.mip /\ D.pools = P.pools /\ D.cleanups = P.cleanups
      /\ D.user = P.user /\ D.busy = P.busy /\ D.live = li
      /\ D.pid = P.pid /\ D.walk = P.walk /\ D.idle = P.idle /\ D.ended = en
    BY ONLY <1>1, <1>3, <1>5 DEF MemType, MemSet
<1>7. Q = [D EXCEPT !.idle = id]
    BY DEF Destroy, D, s
<1>8. id \in [ServerSet -> SUBSET Perls]
    BY <1>2, <1>6, Fields
<1>9. \A t \in ServerSet : id[t] = P.idle[t] \ {x}
    <2>1. \A t \in ServerSet : t # s => x \notin P.idle[t]
        BY <1>1 DEF LiveOK, s
    <2>2. P.idle \in [ServerSet -> SUBSET Perls]
        BY <1>1, Fields
    <2> QED BY ONLY <1>2, <1>6, <2>1, <2>2
<1> HIDE DEF id, Q
<1>10. /\ MemType(Q) /\ Q.phase = D.phase /\ Q.status = D.status
      /\ Q.hooks = D.hooks /\ Q.conf = D.conf
      /\ Q.mip = D.mip /\ Q.pools = D.pools /\ Q.cleanups = D.cleanups
      /\ Q.user = D.user /\ Q.busy = D.busy /\ Q.live = D.live
      /\ Q.pid = D.pid /\ Q.walk = D.walk /\ Q.idle = id /\ Q.ended = D.ended
    BY ONLY <1>6, <1>7, <1>8 DEF MemType, MemSet
<1>11. AfterDestroy(P, Q, x, P.busy, P.cleanups)
    BY ONLY <1>4, <1>6, <1>9, <1>10, Zenon DEF AfterDestroy, li
<1> QED  BY <1>11 DEF Q

\* A clone is destroyed: one that is idle, or that has run a request.
LEMMA DestroyCloneOK ==
    ASSUME NEW p, NEW P, MemOK(p, P), NEW x \in P.live, x[2] > 0,
           P.phase \notin {"ending", "exited", "died"},
           p = "parent" => x \notin P.user,
           NEW Q, AfterDestroy(P, Q, x, P.busy \ {x}, P.cleanups)
    PROVE  MemOK(p, Q)
<1>1. /\ MemType(P) /\ StackOK(P) /\ MipOK(P) /\ LiveOK(p, P) /\ EndsOK(P)
      /\ PidOK(p, P) /\ (p = "parent" => UserOK(P))
    BY DEF MemOK
<1>2. \A t : Stacked(Q, t) <=> Stacked(P, t)
    BY DEF Stacked, AfterDestroy
<1>3. \A s \in ServerSet : OwnsPerl(Q, s) <=> OwnsPerl(P, s)
    BY DEF OwnsPerl, AfterDestroy
<1>4. StackOK(Q)
    BY <1>1 DEF StackOK, AfterDestroy
<1>5. MipOK(Q)
    BY <1>1, <1>2 DEF MipOK, AfterDestroy
<1>6. x \in Perls /\ x[2] # 0 /\ P.live \subseteq Perls
    BY <1>1, Fields, PerlFacts
<1>7. LiveOK(p, Q)
    <2>1. \A s \in ServerSet : <<s, 0>> # x
        BY <1>6
    <2>2. /\ Q.live = P.live \ {x} /\ Q.busy = P.busy \ {x} /\ Q.phase = P.phase
          /\ \A s \in ServerSet : Q.idle[s] = P.idle[s] \ {x}
        BY DEF AfterDestroy
    <2>3. \A y \in Q.live : Stacked(Q, y[1])
        BY <1>1, <1>2, <2>2 DEF LiveOK
    <2>4. \A s \in ServerSet : <<s, 0>> \in Q.live <=> Stacked(Q, s) /\ OwnsPerl(Q, s)
        BY <1>1, <1>2, <1>3, <2>1, <2>2 DEF LiveOK
    <2>5. \A s \in ServerSet : \A y \in Q.idle[s] : y \in Q.live /\ y[1] = s /\ y[2] > 0
        BY <1>1, <2>2 DEF LiveOK
    <2>6. \A y \in Q.live : y[2] > 0 => threaded /\ (y \in Q.idle[y[1]] \/ y \in Q.busy)
        BY <1>1, <1>6, <2>2, PerlFacts DEF LiveOK
    <2>7. /\ Q.busy \subseteq Q.live /\ \A y \in Q.busy : threaded => y[2] > 0
          /\ Q.phase # "serving" \/ p = "parent" => Q.busy = {}
        BY <1>1, <2>2 DEF LiveOK
    <2> QED
        BY <2>3, <2>4, <2>5, <2>6, <2>7 DEF LiveOK
<1>8. EndsOK(Q)
    BY <1>1, <1>6 DEF EndsOK, AfterDestroy
<1>9. PidOK(p, Q)
    BY <1>1 DEF PidOK, AfterDestroy
<1>10. p = "parent" => UserOK(Q)
    BY <1>1 DEF UserOK, AfterDestroy
<1> QED
    BY <1>4, <1>5, <1>7, <1>8, <1>9, <1>10 DEF MemOK, AfterDestroy

\* interp_pool_shrink after a request.
LEMMA DiscardOK ==
    ASSUME NEW c, c # "parent", NEW P, MemOK(c, P), P.phase = "serving", threaded,
           NEW x \in P.busy, NEW Q,
           Q = [Destroy(P, x) EXCEPT !.busy = @ \ {x}]
    PROVE  MemOK(c, Q)
<1> DEFINE D == Destroy(P, x)
           bu == P.busy \ {x}
<1>1. x \in P.live /\ x[2] > 0 /\ MemType(P)
    BY DEF MemOK, LiveOK
<1>2. AfterDestroy(P, D, x, P.busy, P.cleanups)
    BY <1>1, DestroyFields
<1> HIDE DEF D
<1>3. MemType(D) /\ D.busy = P.busy
    BY <1>2, Zenon DEF AfterDestroy
<1>4. Q = [D EXCEPT !.busy = bu] /\ bu \in SUBSET Perls
    BY <1>1, <1>3, Fields DEF D
<1> HIDE DEF bu
<1>5. /\ MemType(Q) /\ Q.phase = D.phase /\ Q.status = D.status
      /\ Q.hooks = D.hooks /\ Q.conf = D.conf
      /\ Q.mip = D.mip /\ Q.pools = D.pools /\ Q.cleanups = D.cleanups
      /\ Q.user = D.user /\ Q.busy = bu /\ Q.live = D.live
      /\ Q.pid = D.pid /\ Q.walk = D.walk /\ Q.idle = D.idle /\ Q.ended = D.ended
    BY ONLY <1>3, <1>4 DEF MemType, MemSet
<1>6. AfterDestroy(P, Q, x, bu, P.cleanups)
    BY ONLY <1>2, <1>5, Zenon DEF AfterDestroy
<1> QED
    BY <1>1, <1>6, DestroyCloneOK DEF bu

\* modperl_child_exit without PERL_DESTRUCT_LEVEL: the END blocks of every
\* perl are to be run.
LEMMA EndingOK ==
    ASSUME NEW c, c # "parent", NEW P, MemOK(c, P), P.phase = "serving",
           P.busy = {}, NEW Q,
           Q = [P EXCEPT !.phase = "ending", !.walk = Walk(P)]
    PROVE  MemOK(c, Q)
<1>1. MemType(P) /\ StackOK(P) /\ MipOK(P) /\ LiveOK(c, P) /\ EndsOK(P) /\ PidOK(c, P)
    BY DEF MemOK
<1>2. Walk(P) = P.live /\ P.live \in SUBSET Perls /\ "ending" \in Phases
    BY <1>1, WalkIsLive, Fields DEF Phases
<1>3. Q = [P EXCEPT !.phase = "ending", !.walk = P.live]
    BY <1>2
<1>4. /\ MemType(Q) /\ Q.phase = "ending" /\ Q.status = P.status
      /\ Q.hooks = P.hooks /\ Q.conf = P.conf
      /\ Q.mip = P.mip /\ Q.pools = P.pools /\ Q.cleanups = P.cleanups
      /\ Q.user = P.user /\ Q.busy = P.busy /\ Q.live = P.live
      /\ Q.pid = P.pid /\ Q.walk = P.live /\ Q.idle = P.idle /\ Q.ended = P.ended
    BY ONLY <1>1, <1>2, <1>3 DEF MemType, MemSet
<1>5. \A t : Stacked(Q, t) <=> Stacked(P, t)
    BY <1>4 DEF Stacked
<1>6. \A s \in ServerSet : OwnsPerl(Q, s) <=> OwnsPerl(P, s)
    BY <1>4 DEF OwnsPerl
<1>7. StackOK(Q) /\ MipOK(Q)
    BY <1>1, <1>4, <1>5 DEF StackOK, MipOK, Whole
<1>8. LiveOK(c, Q)
    BY <1>1, <1>4, <1>5, <1>6 DEF LiveOK
<1>9. EndsOK(Q) /\ PidOK(c, Q)
    BY <1>1, <1>4 DEF EndsOK, PidOK
<1> QED
    BY <1>4, <1>7, <1>8, <1>9 DEF MemOK

\* modperl_perl_call_endav for one perl.
LEMMA CallEndavOK ==
    ASSUME NEW c, c # "parent", NEW P, MemOK(c, P), P.phase = "ending",
           NEW x \in P.walk, NEW Q,
           Q = [P EXCEPT !.ended[x] = @ + 1, !.walk = @ \ {x}]
    PROVE  MemOK(c, Q)
<1> DEFINE en == [P.ended EXCEPT ![x] = P.ended[x] + 1]
           wk == P.walk \ {x}
<1>1. MemType(P) /\ StackOK(P) /\ MipOK(P) /\ LiveOK(c, P) /\ EndsOK(P) /\ PidOK(c, P)
    BY DEF MemOK
<1>2. x \in P.live /\ x \in Perls /\ P.ended[x] = 0
    BY <1>1, Fields DEF EndsOK
<1>3. en \in [Perls -> {0, 1}] /\ wk \in SUBSET Perls
    BY <1>1, <1>2, Fields
<1>4. \A y \in Perls : en[y] = IF y = x THEN 1 ELSE P.ended[y]
    BY <1>1, <1>2, Fields
<1>5. Q = [P EXCEPT !.ended = en, !.walk = wk]
    OBVIOUS
<1> HIDE DEF en, wk
<1>6. /\ MemType(Q) /\ Q.phase = "ending" /\ Q.status = P.status
      /\ Q.hooks = P.hooks /\ Q.conf = P.conf
      /\ Q.mip = P.mip /\ Q.pools = P.pools /\ Q.cleanups = P.cleanups
      /\ Q.user = P.user /\ Q.busy = P.busy /\ Q.live = P.live
      /\ Q.pid = P.pid /\ Q.walk = wk /\ Q.idle = P.idle /\ Q.ended = en
    BY ONLY <1>1, <1>3, <1>5, P.phase = "ending" DEF MemType, MemSet
<1>7. \A t : Stacked(Q, t) <=> Stacked(P, t)
    BY <1>6 DEF Stacked
<1>8. \A s \in ServerSet : OwnsPerl(Q, s) <=> OwnsPerl(P, s)
    BY <1>6 DEF OwnsPerl
<1>9. StackOK(Q) /\ MipOK(Q)
    BY <1>1, <1>6, <1>7 DEF StackOK, MipOK, Whole
<1>10. LiveOK(c, Q)
    BY <1>1, <1>6, <1>7, <1>8 DEF LiveOK
<1>11. P.live \subseteq Perls
    BY <1>1, Fields
<1>12. EndsOK(Q) /\ PidOK(c, Q)
    <2>1. \A y \in P.live : P.pid[y] # NULL /\ (P.ended[y] = 0 <=> y \in P.walk)
        BY <1>1 DEF EndsOK
    <2>2. \A y \in Perls \ P.live : P.pid[y] # NULL => en[y] = 1
        BY <1>1, <1>2, <1>4 DEF EndsOK
    <2>3. \A y \in P.live : en[y] = 0 <=> y \in wk
        BY <1>2, <1>4, <1>11, <2>1 DEF wk
    <2>4. wk \subseteq P.live
        BY <1>1 DEF EndsOK, wk
    <2> QED
        BY <1>6, <2>1, <2>2, <2>3, <2>4 DEF EndsOK, PidOK
<1> QED
    BY <1>6, <1>9, <1>10, <1>12 DEF MemOK

\* The last perl of an interpreter pool is gone, and its cleanup with it; x is
\* the parent perl of s when s has one of its own.
LEMMA PopOK ==
    ASSUME NEW p, NEW P, MemOK(p, P), P.phase = "clearing", P.busy = {},
           p = "parent" => P.user = {},
           Len(P.cleanups) > 1, NEW s \in ServerSet, Last(P.cleanups) = s,
           P.idle[s] = {}, NEW Q,
           \/ /\ OwnsPerl(P, s)
              /\ AfterDestroy(P, Q, <<s, 0>>, P.busy, Front(P.cleanups))
           \/ /\ ~OwnsPerl(P, s) /\ \A y \in Perls : Q.ended[y] = P.ended[y]
              /\ MemType(Q) /\ Q.phase = P.phase /\ Q.status = P.status
              /\ Q.hooks = P.hooks /\ Q.conf = P.conf
              /\ Q.mip = P.mip /\ Q.pools = P.pools
              /\ Q.cleanups = Front(P.cleanups)
              /\ Q.user = P.user /\ Q.busy = P.busy /\ Q.live = P.live
              /\ Q.pid = P.pid /\ Q.walk = P.walk /\ Q.idle = P.idle
    PROVE  MemOK(p, Q)
<1> DEFINE m == <<s, 0>>
<1>1. /\ MemType(P) /\ StackOK(P) /\ MipOK(P) /\ LiveOK(p, P) /\ EndsOK(P)
    BY DEF MemOK
<1>2. m \in Perls /\ m[1] = s /\ m[2] = 0
    BY PerlFacts
<1>3. m \in P.live <=> OwnsPerl(P, s)
    <2>1. Stacked(P, s)
        BY <1>1, Fields DEF Last, Stacked
    <2> QED BY <1>1, <2>1 DEF LiveOK
<1>4. /\ MemType(Q) /\ Q.phase = P.phase /\ Q.status = P.status
      /\ Q.hooks = P.hooks /\ Q.conf = P.conf /\ Q.mip = P.mip
      /\ Q.cleanups = Front(P.cleanups) /\ Q.user = P.user /\ Q.busy = P.busy
      /\ Q.pid = P.pid
    BY DEF AfterDestroy
<1>5. Q.live = P.live \ {m}
    BY <1>3 DEF AfterDestroy
<1>6. \A y \in Perls : Q.ended[y] = IF y = m /\ m \in P.live THEN 1 ELSE P.ended[y]
    BY <1>2, <1>3 DEF AfterDestroy
<1>7. \A t \in ServerSet : Q.idle[t] = P.idle[t]
    <2>1. \A t \in ServerSet : m \notin P.idle[t]
        BY <1>1, <1>2 DEF LiveOK
    <2>2. ASSUME NEW t \in ServerSet
          PROVE  Q.idle[t] = P.idle[t] \/ Q.idle[t] = P.idle[t] \ {m}
        BY DEF AfterDestroy
    <2> HIDE DEF m
    <2>3. ASSUME NEW S, m \notin S PROVE S \ {m} = S
        BY <2>3
    <2> QED BY ONLY <2>1, <2>2, <2>3, Zenon
<1> HIDE DEF m
<1>8. /\ Len(Q.cleanups) = Len(P.cleanups) - 1 /\ Len(P.cleanups) \in Nat
      /\ \A i \in 1 .. Len(P.cleanups) - 1 : Q.cleanups[i] = P.cleanups[i]
      /\ \A t : Stacked(Q, t) <=> Stacked(P, t) /\ t # s
    <2>1. P.cleanups \in Seq(ServerSet \cup {"term"})
        BY <1>1, Fields
    <2> QED BY <1>1, <1>4, <2>1, StackFront
<1>9. StackOK(Q)
    <2>1. /\ P.status = 2 /\ P.hooks /\ P.cleanups[1] = "term" /\ P.cleanups[2] = "main"
          /\ \A i \in 2 .. Len(P.cleanups) : P.cleanups[i] \in ServerSet
          /\ \A i, j \in 2 .. Len(P.cleanups) : P.cleanups[i] = P.cleanups[j] => i = j
        BY <1>1, Fields DEF StackOK
    <2>2. Q.status = 2 /\ Q.hooks /\ Q.phase \notin Whole
        BY <1>4, <2>1 DEF Whole
    <2> DEFINE n == Len(Q.cleanups)
               f == Q.cleanups
               g == P.cleanups
    <2>3. n \in Nat /\ n > 0 /\ Len(g) = n + 1 /\ \A i \in 1 .. n : f[i] = g[i]
        BY <1>8
    <2>4. f[1] = "term" /\ (n > 1 => f[2] = "main")
        BY ONLY <2>1, <2>3
    <2>5. /\ \A i \in 2 .. n : f[i] \in ServerSet
          /\ \A i, j \in 2 .. n : f[i] = f[j] => i = j
        BY ONLY <2>1, <2>3
    <2> QED BY ONLY <2>2, <2>3, <2>4, <2>5 DEF StackOK
<1>10. MipOK(Q)
    BY <1>1, <1>4, <1>8 DEF MipOK, Whole
<1>11. P.live \subseteq Perls /\ \A y \in P.live : y[1] = s => y = m
    <2>1. P.live \subseteq Perls
        BY <1>1, Fields
    <2>2. ASSUME NEW y \in P.live, y[1] = s PROVE y = m
        <3>1. y[2] \in Nat /\ y = <<y[1], y[2]>>
            BY <2>1, PerlFacts
        <3>2. ~(y[2] > 0)
            BY <1>1, <2>2 DEF LiveOK
        <3> QED BY <2>2, <3>1, <3>2 DEF m
    <2> QED BY <2>1, <2>2
<1>12. \A t \in ServerSet : OwnsPerl(Q, t) <=> OwnsPerl(P, t)
    BY <1>4 DEF OwnsPerl
<1>13. LiveOK(p, Q)
    <2>1. \A y \in Q.live : Stacked(Q, y[1])
        BY <1>1, <1>5, <1>8, <1>11 DEF LiveOK
    <2>2. \A t \in ServerSet : <<t, 0>> \in Q.live <=> Stacked(Q, t) /\ OwnsPerl(Q, t)
        BY <1>1, <1>2, <1>5, <1>8, <1>12 DEF LiveOK, m
    <2>3. \A t \in ServerSet : \A y \in Q.idle[t] : y \in Q.live /\ y[1] = t /\ y[2] > 0
        BY <1>1, <1>2, <1>5, <1>7 DEF LiveOK
    <2>4. \A y \in Q.live : y[2] > 0 => threaded /\ (y \in Q.idle[y[1]] \/ y \in Q.busy)
        BY <1>1, <1>4, <1>5, <1>7, <1>11, PerlFacts DEF LiveOK
    <2> QED
        BY <1>4, <2>1, <2>2, <2>3, <2>4 DEF LiveOK
<1>14. EndsOK(Q)
    BY <1>1, <1>2, <1>4, <1>5, <1>6, <1>11 DEF EndsOK
<1>15. PidOK(p, Q) /\ (p = "parent" => UserOK(Q))
    BY <1>4 DEF MemOK, PidOK, UserOK
<1> QED
    BY <1>4, <1>9, <1>10, <1>13, <1>14, <1>15 DEF MemOK

\* modperl_interp_pool_destroy.
LEMMA PoolDestroyOK ==
    ASSUME NEW p, NEW P, MemOK(p, P), P.phase = "clearing",
           p = "parent" => P.user = {},
           P.cleanups # <<>>, Last(P.cleanups) # "term", NEW Q,
           Q = PoolDestroy(P, Last(P.cleanups))
    PROVE  MemOK(p, Q)
<1> DEFINE s == Last(P.cleanups)
           cl == Front(P.cleanups)
<1>1. /\ MemType(P) /\ StackOK(P) /\ LiveOK(p, P) /\ P.busy = {}
      /\ P.cleanups \in Seq(ServerSet \cup {"term"})
    BY Fields DEF MemOK, LiveOK
<1>2. Len(P.cleanups) > 1 /\ s \in ServerSet
    <2>1. P.status = 2
        BY <1>1, Fields DEF StackOK
    <2>2. Len(P.cleanups) \in Nat /\ Len(P.cleanups) > 0 /\ P.cleanups[1] = "term"
        BY <1>1, <2>1 DEF StackOK
    <2>3. Len(P.cleanups) > 1
        BY <2>2 DEF Last
    <2> QED BY <1>1, <2>2, <2>3 DEF StackOK, Last
<1>3. cl \in Seq(ServerSet \cup {"term"})
    BY <1>1, <1>2, SubSeqProperties DEF Front
<1> HIDE DEF s, cl
<1>4. CASE P.idle[s] # {}
    <2> DEFINE x == CHOOSE y \in P.idle[s] : TRUE
    <2>1. x \in P.idle[s]
        BY <1>4
    <2>2. Q = Destroy(P, x)
        BY <1>4 DEF PoolDestroy, s
    <2> HIDE DEF x
    <2>3. x \in P.live /\ x[2] > 0
        BY <1>1, <1>2, <2>1 DEF LiveOK
    <2>4. P.busy \ {x} = P.busy
        BY <1>1
    <2>5. AfterDestroy(P, Q, x, P.busy \ {x}, P.cleanups)
        BY <2>2, <2>3, <2>4, DestroyFields
    <2> QED
        BY <2>3, <2>5, DestroyCloneOK
<1>5. CASE P.idle[s] = {} /\ OwnsPerl(P, s)
    <2> DEFINE x == <<s, 0>>
               D == Destroy(P, x)
    <2>1. Q = [D EXCEPT !.cleanups = Front(@)]
        BY <1>5 DEF PoolDestroy, s
    <2>2. x \in P.live
        <3>1. Stacked(P, s)
            BY <1>1, <1>2 DEF Last, Stacked, s
        <3> QED BY <1>1, <1>2, <1>5, <3>1 DEF LiveOK
    <2>3. AfterDestroy(P, D, x, P.busy, P.cleanups)
        BY <2>2, DestroyFields
    <2> HIDE DEF D, x
    <2>4. MemType(D) /\ D.cleanups = P.cleanups
        BY <2>3, Zenon DEF AfterDestroy
    <2>5. Q = [D EXCEPT !.cleanups = cl]
        BY <2>1, <2>4 DEF cl
    <2>6. /\ MemType(Q) /\ Q.phase = D.phase /\ Q.status = D.status
          /\ Q.hooks = D.hooks /\ Q.conf = D.conf
          /\ Q.mip = D.mip /\ Q.pools = D.pools /\ Q.cleanups = cl
          /\ Q.user = D.user /\ Q.busy = D.busy /\ Q.live = D.live
          /\ Q.pid = D.pid /\ Q.walk = D.walk /\ Q.idle = D.idle /\ Q.ended = D.ended
        BY ONLY <1>3, <2>4, <2>5 DEF MemType, MemSet
    <2>7. AfterDestroy(P, Q, x, P.busy, cl)
        BY ONLY <2>3, <2>6, Zenon DEF AfterDestroy
    <2> QED
        BY <1>1, <1>2, <1>5, <2>7, PopOK DEF x, s, cl
<1>6. CASE P.idle[s] = {} /\ ~OwnsPerl(P, s)
    <2>1. Q = [P EXCEPT !.cleanups = cl]
        BY <1>6 DEF PoolDestroy, s, cl
    <2>2. /\ MemType(Q) /\ Q.phase = P.phase /\ Q.status = P.status
          /\ Q.hooks = P.hooks /\ Q.conf = P.conf
          /\ Q.mip = P.mip /\ Q.pools = P.pools /\ Q.cleanups = cl
          /\ Q.user = P.user /\ Q.busy = P.busy /\ Q.live = P.live
          /\ Q.pid = P.pid /\ Q.walk = P.walk /\ Q.idle = P.idle /\ Q.ended = P.ended
        BY ONLY <1>1, <1>3, <2>1 DEF MemType, MemSet
    <2> QED
        BY <1>1, <1>2, <1>6, <2>2, PopOK DEF s, cl
<1> QED
    BY <1>4, <1>5, <1>6

\* modperl_sys_term.
LEMMA SysTermOK ==
    ASSUME NEW p, NEW P, MemOK(p, P), P.phase = "clearing",
           p = "parent" => P.user = {},
           P.cleanups # <<>>, Last(P.cleanups) = "term", NEW Q,
           Q = [P EXCEPT !.status = 0, !.post = FALSE, !.hooks = FALSE,
                         !.cleanups = <<>>]
    PROVE  MemOK(p, Q)
<1>1. /\ MemType(P) /\ StackOK(P) /\ MipOK(P) /\ LiveOK(p, P) /\ EndsOK(P)
      /\ P.cleanups \in Seq(ServerSet \cup {"term"})
    BY Fields DEF MemOK
<1>2. ~(Len(P.cleanups) > 1)
    BY <1>1, PerlFacts DEF Last, StackOK
<1>3. \A t : ~Stacked(P, t)
    BY <1>1, <1>2 DEF Stacked
<1>4. P.live = {}
    BY <1>1, <1>3 DEF LiveOK
<1>5. /\ MemType(Q) /\ Q.phase = P.phase /\ Q.status = 0
      /\ Q.hooks = FALSE /\ Q.conf = P.conf
      /\ Q.mip = P.mip /\ Q.pools = P.pools /\ Q.cleanups = <<>>
      /\ Q.user = P.user /\ Q.busy = P.busy /\ Q.live = P.live
      /\ Q.pid = P.pid /\ Q.walk = P.walk /\ Q.idle = P.idle /\ Q.ended = P.ended
    <2>1. <<>> \in Seq(ServerSet \cup {"term"})
        OBVIOUS
    <2> QED BY ONLY <1>1, <2>1, Q = [P EXCEPT !.status = 0, !.post = FALSE,
                       !.hooks = FALSE, !.cleanups = <<>>] DEF MemType, MemSet
<1>6. \A t : ~Stacked(Q, t)
    BY <1>5 DEF Stacked
<1>7. StackOK(Q) /\ MipOK(Q)
    BY <1>1, <1>5, <1>6 DEF StackOK, MipOK, Whole
<1>8. LiveOK(p, Q)
    BY <1>1, <1>3, <1>4, <1>5, <1>6 DEF LiveOK
<1>9. EndsOK(Q) /\ PidOK(p, Q) /\ (p = "parent" => UserOK(Q))
    BY <1>1, <1>4, <1>5 DEF EndsOK, PidOK, UserOK
<1> QED
    BY <1>5, <1>7, <1>8, <1>9 DEF MemOK

-----------------------------------------------------------------------------
(* Every step keeps the invariant.                                         *)

\* A step that stores a good memory for one process.
LEMMA Stores ==
    ASSUME LInv, NEW p \in Procs, NEW Q, MemOK(p, Q), SetProc(p, Q),
           threaded' = threaded, level' = level, restarts' \in 0 .. MaxRestarts
    PROVE  LInv'
<1>1. proc = [q \in Procs |-> proc[q]] /\ \A q \in Procs : MemOK(q, proc[q])
    BY DEF LInv
<1>2. /\ proc' = [q \in Procs |-> proc'[q]]
      /\ \A q \in Procs : proc'[q] = IF q = p THEN Q ELSE proc[q]
    BY <1>1 DEF SetProc
<1>3. \A q \in Procs : MemOK(q, proc'[q])
    BY ONLY <1>1, <1>2, MemOK(p, Q), Zenon
<1>4. ASSUME NEW q \in Procs PROVE MemOK(q, proc[q])'
    <2>1. MemOK(q, proc'[q])
        BY <1>3
    <2>2. MemType(proc[q])' /\ StackOK(proc[q])' /\ MipOK(proc[q])' /\ EndsOK(proc[q])'
        BY ONLY <2>1, Zenon DEF MemOK, MemType, StackOK, MipOK, EndsOK, Stacked
    <2>3. LiveOK(q, proc[q])'
        BY ONLY <2>1, threaded' = threaded DEF MemOK, LiveOK, Stacked, OwnsPerl
    <2>4. PidOK(q, proc[q])' /\ (q = "parent" => UserOK(proc[q])')
        BY ONLY <2>1, Zenon DEF MemOK, PidOK, UserOK
    <2> QED BY ONLY <2>2, <2>3, <2>4, Zenon DEF MemOK
<1> QED
    BY <1>2, <1>4 DEF LInv

\* What the invariant says of the processes.
LEMMA Have ==
    ASSUME LInv
    PROVE  /\ MemOK("parent", Parent) /\ "parent" \in Procs
           /\ threaded \in BOOLEAN /\ restarts \in 0 .. MaxRestarts
           /\ \A c \in Children : c \in Procs /\ c # "parent" /\ MemOK(c, proc[c])
BY LifecycleAssumption DEF LInv, Parent, Procs

\* Reading the configuration and starting.
LEMMA ConfigSteps ==
    ASSUME LInv,
           \/ RunEarly \/ (\E v \in VhostSet : VhostDirective(v)) \/ Merge
           \/ OpenLogs \/ (\E x \in Perls : RegisterCleanup(x)) \/ PostConfigLast
    PROVE  LInv'
<1> DEFINE P == Parent
<1>1. MemOK("parent", P) /\ "parent" \in Procs /\ threaded \in BOOLEAN /\ restarts \in 0 .. MaxRestarts
    BY Have
<1>2. ASSUME NEW Q, MemOK("parent", Q), SetProc("parent", Q),
             UNCHANGED <<threaded, level, restarts>>
      PROVE  LInv'
    BY <1>1, <1>2, Stores
<1> HIDE DEF P
<1>3. CASE RunEarly
    <2>1. PICK i \in 1 .. Len(Vhosts) + 1 :
             SetProc("parent", HookInit(P, {Vhosts[j] : j \in i .. Len(Vhosts)}, "parent"))
        BY <1>3 DEF RunEarly, P
    <2>2. MemOK("parent", HookInit(P, {Vhosts[j] : j \in i .. Len(Vhosts)}, "parent"))
        BY <1>1, <1>3, HookInitOK DEF RunEarly, P, Starting
    <2> QED BY <1>2, <1>3, <2>1, <2>2 DEF RunEarly
<1>4. CASE \E v \in VhostSet : VhostDirective(v)
    <2>1. PICK v \in VhostSet : VhostDirective(v)
        BY <1>4
    <2>2. MemOK("parent", InitVhost(P, v, "parent"))
        BY <1>1, <2>1, InitVhostOK DEF VhostDirective, P
    <2> QED BY <1>2, <2>1, <2>2 DEF VhostDirective, P
<1>5. CASE Merge
    <2> DEFINE Q == [P EXCEPT !.phase = "merged",
                              !.mip = [s \in ServerSet |->
                                    IF P.mip[s] = NULL THEN P.mip["main"] ELSE P.mip[s]]]
    <2>1. SetProc("parent", Q) /\ P.phase = "config"
        BY <1>5 DEF Merge, P
    <2>2. MemOK("parent", Q)
        BY <1>1, <2>1, MergeOK
    <2> QED BY <1>2, <1>5, <2>1, <2>2 DEF Merge
<1>6. CASE OpenLogs
    <2> DEFINE R == HookInit(P, VhostSet, "parent")
               Q == [R EXCEPT !.phase = "started"]
    <2>1. SetProc("parent", Q) /\ P.phase = "merged"
        BY <1>6 DEF OpenLogs, P
    <2>2. R \in Starting("merged")
        BY <1>1, <2>1, HookInitOK
    <2> HIDE DEF R
    <2>3. AfterPhase(R, Q, "started")
        <3>1. MemType(R) /\ "started" \in Phases
            BY <2>2 DEF Starting, MemType, Phases
        <3> QED BY <3>1, PhaseFields
    <2>4. MemOK("parent", Q)
        BY <2>2, <2>3, PhaseStarted
    <2> QED BY <1>2, <1>6, <2>1, <2>4 DEF OpenLogs
<1>7. CASE \E x \in Perls : RegisterCleanup(x)
    <2>1. PICK x \in Perls : RegisterCleanup(x)
        BY <1>7
    <2> DEFINE Q == [P EXCEPT !.user = P.user \cup {x}]
    <2>2. SetProc("parent", Q) /\ P.phase \in {"config", "started"} /\ x \in P.live
        BY <2>1 DEF RegisterCleanup, P
    <2>3. MemOK("parent", Q)
        BY <1>1, <2>2, RegisterOK
    <2> QED BY <1>2, <2>1, <2>2, <2>3 DEF RegisterCleanup
<1>8. CASE PostConfigLast
    <2>1. CASE \E s \in ServerSet : P.mip[s] = NULL
        <3> DEFINE Q == [P EXCEPT !.phase = "crashed"]
        <3>1. SetProc("parent", Q) /\ P.phase = "started"
            BY <1>8, <2>1 DEF PostConfigLast, P
        <3>2. AfterPhase(P, Q, "crashed")
            BY <1>1, PhaseFields DEF MemOK, Phases
        <3>3. MemOK("parent", Q)
            BY <1>1, <3>1, <3>2, PhaseDown DEF MemOK, LiveOK
        <3> QED BY <1>2, <1>8, <3>1, <3>3 DEF PostConfigLast
    <2>2. CASE \A s \in ServerSet : P.mip[s] # NULL
        <3> DEFINE Q == [InitClones(P) EXCEPT !.phase = "serving", !.post = TRUE]
        <3>1. SetProc("parent", Q) /\ P.phase = "started"
            BY <1>8, <2>2 DEF PostConfigLast, P
        <3>2. MemOK("parent", Q)
            BY <1>1, <2>2, <3>1, PostConfigOK
        <3> QED BY <1>2, <1>8, <3>1, <3>2 DEF PostConfigLast
    <2> QED BY <2>1, <2>2
<1> QED
    BY <1>3, <1>4, <1>5, <1>6, <1>7, <1>8

\* The parent is signalled, restarts and stops.
LEMMA ParentSteps ==
    ASSUME LInv, Shutdown \/ ServerPoolGone \/ Restart \/ Stop
    PROVE  LInv'
<1> DEFINE P == Parent
<1>1. MemOK("parent", P) /\ "parent" \in Procs /\ threaded \in BOOLEAN /\ restarts \in 0 .. MaxRestarts
    BY Have
<1>2. MemType(P) /\ P.busy = {} /\ P.user \subseteq P.live /\ P.pools \in PoolStacks
    BY <1>1, Fields DEF MemOK, LiveOK, UserOK
<1>3. ASSUME NEW Q, MemOK("parent", Q), SetProc("parent", Q),
             UNCHANGED <<threaded, level, restarts>>
      PROVE  LInv'
    BY <1>1, <1>3, Stores
<1> HIDE DEF P
<1>4. CASE Shutdown
    <2> DEFINE Q == [P EXCEPT !.phase = "clearing"]
    <2>1. SetProc("parent", Q) /\ P.phase = "serving"
        BY <1>4 DEF Shutdown, P
    <2>2. AfterPhase(P, Q, "clearing")
        BY <1>2, PhaseFields DEF Phases
    <2>3. MemOK("parent", Q)
        BY <1>1, <1>2, <2>1, <2>2, PhaseDown
    <2> QED BY <1>3, <1>4, <2>1, <2>3 DEF Shutdown
<1>5. CASE Stop
    <2> DEFINE Q == [P EXCEPT !.phase = "stopped"]
    <2>1. SetProc("parent", Q) /\ P.phase = "clearing"
        BY <1>5 DEF Stop, P
    <2>2. AfterPhase(P, Q, "stopped")
        BY <1>2, PhaseFields DEF Phases
    <2>3. MemOK("parent", Q)
        BY <1>1, <1>2, <2>1, <2>2, PhaseDown
    <2> QED BY <1>3, <1>5, <2>1, <2>3 DEF Stop
<1>6. CASE Restart
    <2>1. PICK f \in Confs :
             SetProc("parent", [Blank EXCEPT !.phase = "config", !.conf = f])
        BY <1>6 DEF Restart
    <2>2. MemOK("parent", [Blank EXCEPT !.phase = "config", !.conf = f])
        BY <1>1, BlankOK
    <2>3. threaded' = threaded /\ level' = level /\ restarts' \in 0 .. MaxRestarts
        <3>1. MaxRestarts \in Nat
            BY LifecycleAssumption
        <3>2. restarts < MaxRestarts /\ restarts' = restarts + 1 /\ UNCHANGED <<threaded, level>>
            BY <1>6, Zenon DEF Restart
        <3> QED BY ONLY <1>1, <3>1, <3>2
    <2> QED BY <1>1, <2>1, <2>2, <2>3, Stores
<1>7. CASE ServerPoolGone
    <2> DEFINE Q == [P EXCEPT !.pools = Front(P.pools)]
    <2>1. /\ SetProc("parent", Q) /\ P.phase = "clearing" /\ P.pools # <<>>
          /\ P.cleanups = <<>>
        BY <1>7 DEF ServerPoolGone, Clears, P, Parent
    <2>2. P.live = {}
        BY <1>1, <2>1 DEF MemOK, LiveOK, Stacked
    <2>3. MemOK("parent", Q)
        BY <1>1, <1>2, <2>1, <2>2, PoolGoneOK
    <2> QED BY <1>3, <1>7, <2>1, <2>3 DEF ServerPoolGone
<1> QED
    BY <1>4, <1>5, <1>6, <1>7

\* The steps of a child, up to its exit.
LEMMA ChildSteps ==
    ASSUME LInv, NEW c \in Children,
           \/ Fork(c) \/ ChildInit(c)
           \/ \E s \in ServerSet :
                Select(c, s) \/ SelectNew(c, s) \/ SelectParent(c, s)
           \/ \E x \in Perls : Putback(c, x) \/ Discard(c, x)
           \/ ChildExit(c) \/ CallEndav(c) \/ Exited(c) \/ Reap(c)
    PROVE  LInv'
<1> DEFINE P == proc[c]
<1>1. /\ MemOK(c, P) /\ c \in Procs /\ c # "parent" /\ threaded \in BOOLEAN
      /\ restarts \in 0 .. MaxRestarts /\ MemOK("parent", Parent)
    BY Have
<1>2. MemType(P) /\ MemType(Parent) /\ (P.phase # "serving" => P.busy = {})
    BY <1>1 DEF MemOK, LiveOK
<1>3. ASSUME NEW Q, MemOK(c, Q), SetProc(c, Q),
             UNCHANGED <<threaded, level, restarts>>
      PROVE  LInv'
    BY <1>1, <1>3, Stores
<1>4. CASE Fork(c)
    <2> DEFINE Q == [Parent EXCEPT !.phase = "forked"]
    <2>1. SetProc(c, Q) /\ Parent.phase = "serving"
        BY <1>4 DEF Fork
    <2>2. AfterPhase(Parent, Q, "forked")
        BY <1>2, PhaseFields DEF Phases
    <2>3. MemOK(c, Q)
        BY <1>1, <2>1, <2>2, PhaseForked
    <2> QED BY <1>3, <1>4, <2>1, <2>3 DEF Fork
<1> HIDE DEF P
<1>5. CASE ChildInit(c)
    <2> DEFINE Q == [InitIds(P, c) EXCEPT !.phase = "serving"]
    <2>1. SetProc(c, Q) /\ P.phase = "forked"
        BY <1>5 DEF ChildInit, P
    <2>2. MemOK(c, Q)
        BY <1>1, <2>1, ChildInitOK
    <2> QED BY <1>3, <1>5, <2>1, <2>2 DEF ChildInit
<1>6. ASSUME NEW s \in ServerSet, Select(c, s) PROVE LInv'
    <2>1. PICK x \in P.idle[s] :
             SetProc(c, [P EXCEPT !.idle[s] = @ \ {x}, !.busy = @ \cup {x}])
        BY <1>6 DEF Select, P
    <2>2. MemOK(c, [P EXCEPT !.idle[s] = @ \ {x}, !.busy = @ \cup {x}])
        BY <1>1, <1>6, SelectOK DEF Select, P
    <2> QED BY <1>3, <1>6, <2>1, <2>2 DEF Select
<1>7. ASSUME NEW s \in ServerSet, SelectNew(c, s) PROVE LInv'
    <2> DEFINE Q(k) == [Clones(P, {<<s, k>>}) EXCEPT !.idle[s] = {},
                                                     !.busy = @ \cup {<<s, k>>}]
    <2>1. PICK k \in 1 .. MaxClones : SetProc(c, Q(k))
        BY <1>7 DEF SelectNew, P
    <2>2. MemOK(c, Q(k))
        <3>1. threaded /\ P.phase = "serving" /\ P.mip[s] = s /\ P.idle[s] = {}
            BY <1>7 DEF SelectNew, P
        <3> QED BY <1>1, <3>1, SelectNewOK
    <2> QED BY <1>3, <1>7, <2>1, <2>2 DEF SelectNew
<1>8. ASSUME NEW s \in ServerSet, SelectParent(c, s) PROVE LInv'
    <2> DEFINE Q == [P EXCEPT !.busy = {ParentPerl(P, s)}]
    <2>1. /\ SetProc(c, Q) /\ ~threaded /\ P.phase = "serving" /\ P.mip[s] = s
          /\ P.busy = {}
        BY <1>8 DEF SelectParent, P
    <2>2. MemOK(c, Q)
        BY <1>1, <2>1, SelectParentOK
    <2> QED BY <1>3, <1>8, <2>1, <2>2 DEF SelectParent
<1>9. ASSUME NEW x \in Perls, Putback(c, x) PROVE LInv'
    <2> DEFINE Q == [P EXCEPT !.busy = @ \ {x},
                              !.idle[x[1]] = IF threaded THEN @ \cup {x} ELSE @]
    <2>1. SetProc(c, Q) /\ P.phase = "serving" /\ x \in P.busy
        BY <1>9 DEF Putback, P
    <2>2. MemOK(c, Q)
        BY <1>1, <2>1, PutbackOK
    <2> QED BY <1>3, <1>9, <2>1, <2>2 DEF Putback
<1>10. ASSUME NEW x \in Perls, Discard(c, x) PROVE LInv'
    <2> DEFINE Q == [Destroy(P, x) EXCEPT !.busy = @ \ {x}]
    <2>1. SetProc(c, Q) /\ P.phase = "serving" /\ x \in P.busy /\ threaded
        BY <1>10 DEF Discard, P
    <2>2. MemOK(c, Q)
        BY <1>1, <2>1, DiscardOK
    <2> QED BY <1>3, <1>10, <2>1, <2>2 DEF Discard
<1>11. CASE ChildExit(c)
    <2>1. P.phase = "serving" /\ P.busy = {}
        BY <1>11 DEF ChildExit, P
    <2>2. CASE level # 0
        <3> DEFINE Q == [P EXCEPT !.phase = "clearing"]
        <3>1. SetProc(c, Q)
            BY <1>11, <2>2 DEF ChildExit, P
        <3>2. AfterPhase(P, Q, "clearing")
            BY <1>2, PhaseFields DEF Phases
        <3>3. MemOK(c, Q)
            BY <1>1, <2>1, <3>2, PhaseDown
        <3> QED BY <1>3, <1>11, <3>1, <3>3 DEF ChildExit
    <2>3. CASE level = 0
        <3> DEFINE Q == [P EXCEPT !.phase = "ending", !.walk = Walk(P)]
        <3>1. SetProc(c, Q)
            BY <1>11, <2>3 DEF ChildExit, P
        <3>2. MemOK(c, Q)
            BY <1>1, <2>1, EndingOK
        <3> QED BY <1>3, <1>11, <3>1, <3>2 DEF ChildExit
    <2> QED BY <2>2, <2>3
<1>12. CASE CallEndav(c)
    <2>1. PICK x \in P.walk :
             SetProc(c, [P EXCEPT !.ended[x] = @ + 1, !.walk = @ \ {x}])
        BY <1>12 DEF CallEndav, P
    <2>2. MemOK(c, [P EXCEPT !.ended[x] = @ + 1, !.walk = @ \ {x}])
        BY <1>1, <1>12, CallEndavOK DEF CallEndav, P
    <2> QED BY <1>3, <1>12, <2>1, <2>2 DEF CallEndav
<1>13. CASE Exited(c)
    <2> DEFINE Q == [P EXCEPT !.phase = "exited"]
    <2>1. /\ SetProc(c, Q)
          /\ \/ P.phase = "ending" /\ P.walk = {}
             \/ P.phase = "clearing" /\ P.cleanups = <<>>
        BY <1>13 DEF Exited, P
    <2>2. AfterPhase(P, Q, "exited")
        BY <1>2, PhaseFields DEF Phases
    <2>3. MemOK(c, Q)
        BY <1>1, <2>1, <2>2, PhaseExited
    <2> QED BY <1>3, <1>13, <2>1, <2>3 DEF Exited
<1>14. CASE Reap(c)
    BY <1>1, <1>3, <1>14, BlankOK DEF Reap
<1> QED
    BY <1>4, <1>5, <1>6, <1>7, <1>8, <1>9, <1>10, <1>11, <1>12, <1>13, <1>14

\* Pools are cleared, in the parent or in a child.
LEMMA ClearSteps ==
    ASSUME LInv, NEW p \in Procs,
           UserCleanup(p) \/ ServerCleanup(p) \/ EndBlockDies(p)
    PROVE  LInv'
<1> DEFINE P == proc[p]
<1>1. MemOK(p, P) /\ restarts \in 0 .. MaxRestarts
    BY Have DEF LInv
<1>2. MemType(P) /\ P.pools \in PoolStacks /\ (P.phase # "serving" => P.busy = {})
    BY <1>1, Fields DEF MemOK, LiveOK
<1>3. ASSUME NEW Q, MemOK(p, Q), SetProc(p, Q),
             UNCHANGED <<threaded, level, restarts>>
      PROVE  LInv'
    BY <1>1, <1>3, Stores
<1>4. ASSUME p = "parent", Clears(p, "server") PROVE P.user = {}
    <2>1. P.pools # <<"server", "user">>
        <3>1. Last(<<"server", "user">>) = "user"
            BY DEF Last
        <3> QED BY <1>4, <3>1 DEF Clears
    <2> QED BY <1>1, <1>4, <2>1 DEF MemOK, UserOK
<1>5. CASE UserCleanup(p)
    <2>1. p = "parent" /\ P.phase = "clearing" /\ P.pools # <<>>
        BY <1>5 DEF UserCleanup, Clears
    <2>2. CASE P.user = {}
        <3> DEFINE Q == [P EXCEPT !.pools = Front(P.pools)]
        <3>1. SetProc(p, Q)
            BY <1>5, <2>2 DEF UserCleanup
        <3> HIDE DEF P
        <3>2. MemOK(p, Q)
            BY <1>1, <2>1, <2>2, PoolGoneOK
        <3> QED BY <1>3, <1>5, <3>1, <3>2 DEF UserCleanup
    <2>3. CASE P.user # {}
        <3>1. PICK x \in P.user : SetProc(p, [P EXCEPT !.user = P.user \ {x}])
            BY <1>5, <2>3 DEF UserCleanup
        <3> HIDE DEF P
        <3>2. MemOK(p, [P EXCEPT !.user = P.user \ {x}])
            BY <1>1, <2>1, UserCleanupOK
        <3> QED BY <1>3, <1>5, <3>1, <3>2 DEF UserCleanup
    <2> QED BY <2>2, <2>3
<1>6. CASE ServerCleanup(p)
    <2>1. P.phase = "clearing" /\ P.cleanups # <<>> /\ (p = "parent" => P.user = {})
        BY <1>4, <1>6 DEF ServerCleanup, Clears
    <2>2. CASE Last(P.cleanups) # "term"
        <3>1. SetProc(p, PoolDestroy(P, Last(P.cleanups)))
            BY <1>6, <2>2 DEF ServerCleanup
        <3> HIDE DEF P
        <3>2. MemOK(p, PoolDestroy(P, Last(P.cleanups)))
            BY <1>1, <2>1, <2>2, PoolDestroyOK
        <3> QED BY <1>3, <1>6, <3>1, <3>2 DEF ServerCleanup
    <2>3. CASE Last(P.cleanups) = "term"
        <3> DEFINE Q == [P EXCEPT !.status = 0, !.post = FALSE, !.hooks = FALSE,
                                  !.cleanups = <<>>]
        <3>1. SetProc(p, Q)
            BY <1>6, <2>3 DEF ServerCleanup
        <3> HIDE DEF P
        <3>2. MemOK(p, Q)
            BY <1>1, <2>1, <2>3, SysTermOK
        <3> QED BY <1>3, <1>6, <3>1, <3>2 DEF ServerCleanup
    <2> QED BY <2>2, <2>3
<1>7. CASE EndBlockDies(p)
    <2> DEFINE Q == [P EXCEPT !.phase = "died"]
    <2>1. SetProc(p, Q) /\ P.phase \in {"ending", "clearing"}
        BY <1>7 DEF EndBlockDies, Clears
    <2> HIDE DEF P
    <2>2. AfterPhase(P, Q, "died")
        BY <1>2, PhaseFields DEF Phases
    <2>3. MemOK(p, Q)
        BY <1>1, <1>2, <2>1, <2>2, PhaseDied
    <2> QED BY <1>3, <1>7, <2>1, <2>3 DEF EndBlockDies
<1> QED
    BY <1>5, <1>6, <1>7

-----------------------------------------------------------------------------
(* The theorems.                                                           *)

\* The invariant holds when the server is started.
LEMMA InitLInv == Init => LInv
<1> SUFFICES ASSUME Init PROVE LInv
    OBVIOUS
<1>1. PICK f \in Confs :
         proc = [p \in Procs |-> IF p = "parent"
                                 THEN [Blank EXCEPT !.phase = "config", !.conf = f]
                                 ELSE Blank]
    BY DEF Init
<1>2. "parent" \in Procs
    BY DEF Procs
<1>3. ASSUME NEW p \in Procs PROVE MemOK(p, proc[p])
    <2>1. CASE p = "parent"
        BY <1>1, <1>2, <2>1, BlankOK
    <2>2. CASE p # "parent"
        BY <1>1, <2>2, BlankOK
    <2> QED BY <2>1, <2>2
<1>4. proc = [p \in Procs |-> proc[p]]
    BY <1>1
<1>5. MaxRestarts \in Nat
    BY LifecycleAssumption
<1>6. threaded \in BOOLEAN /\ level \in {0, 2} /\ restarts = 0
    BY DEF Init
<1> QED
    BY <1>3, <1>4, <1>5, <1>6 DEF LInv

\* Every step of the server and its children keeps the invariant.
LEMMA NextLInv == LInv /\ [Next]_lvars => LInv'
<1> SUFFICES ASSUME LInv, [Next]_lvars PROVE LInv'
    OBVIOUS
<1>1. CASE UNCHANGED lvars
    <2>1. /\ threaded' = threaded /\ level' = level /\ restarts' = restarts
          /\ proc' = proc
        BY <1>1 DEF lvars
    <2>2. "parent" \in Procs /\ MemOK("parent", proc["parent"]) /\ restarts \in 0 .. MaxRestarts
        BY Have DEF Parent
    <2>3. SetProc("parent", proc["parent"])
        BY <2>1, <2>2 DEF SetProc, LInv
    <2> QED BY <2>1, <2>2, <2>3, Stores
<1>2. CASE Next
    BY <1>2, ConfigSteps, ParentSteps, ChildSteps, ClearSteps DEF Next
<1> QED BY <1>1, <1>2

\* Every process' memory is well formed, for any number of virtual hosts,
\* children, interpreters and restarts.
THEOREM LifecycleTypeCorrect == Spec => []LifecycleTypeOK
<1>1. LInv => LifecycleTypeOK
    <2> SUFFICES ASSUME LInv, NEW p \in Procs
                 PROVE  /\ threaded \in BOOLEAN /\ level \in {0, 2} /\ restarts \in 0 .. MaxRestarts
                        /\ proc[p].status \in {0, 2}
                        /\ proc[p].conf \in [VhostSet -> Kinds \cup {"shared"}]
                        /\ Live(p) \subseteq Existed(p) /\ proc[p].busy \subseteq Live(p)
                        /\ \A s \in ServerSet :
                             /\ proc[p].mip[s] \in {NULL, "main", s}
                             /\ proc[p].idle[s] \subseteq {x \in Live(p) : x[1] = s /\ x[2] > 0}
                        /\ proc[p].ended \in [Perls -> 0 .. 1]
        BY Have DEF LifecycleTypeOK, LInv
    <2> DEFINE P == proc[p]
    <2>1. MemOK(p, P)
        BY DEF LInv
    <2> HIDE DEF P
    <2>2. MemType(P) /\ MipOK(P) /\ LiveOK(p, P) /\ EndsOK(P)
        BY <2>1 DEF MemOK
    <2>3. /\ P.status \in {0, 2} /\ P.conf \in [VhostSet -> Kinds \cup {"shared"}]
          /\ P.live \subseteq Perls /\ P.ended \in [Perls -> {0, 1}]
        BY <2>2, Fields DEF AllKinds
    <2>4. 0 .. 1 = {0, 1}
        OBVIOUS
    <2>5. Live(p) = P.live /\ Existed(p) = {x \in Perls : P.pid[x] # NULL}
        BY DEF Live, Existed, P
    <2>6. P.live \subseteq {x \in Perls : P.pid[x] # NULL} /\ P.busy \subseteq P.live
        BY <2>2, <2>3 DEF EndsOK, LiveOK
    <2>7. \A s \in ServerSet :
             /\ P.mip[s] \in {NULL, "main", s}
             /\ P.idle[s] \subseteq {x \in P.live : x[1] = s /\ x[2] > 0}
        BY <2>2 DEF MipOK, LiveOK
    <2>8. threaded \in BOOLEAN /\ level \in {0, 2} /\ restarts \in 0 .. MaxRestarts
        BY DEF LInv
    <2> QED
        BY <2>3, <2>4, <2>5, <2>6, <2>7, <2>8 DEF P
<1> QED  BY <1>1, InitLInv, NextLInv, PTL DEF Spec

\* Requests see the $$ of the child that serves them, on every interpreter,
\* because modperl_hook_child_init visits all that were made before the fork
\* and the later ones are cloned from one it has visited.
THEOREM OwnPidHolds == Spec => []OwnPid
<1>1. LInv => OwnPid
    <2> SUFFICES ASSUME LInv, NEW c \in Children, NEW x \in proc[c].busy
                 PROVE  proc[c].pid[x] = c
        BY DEF OwnPid
    <2>1. MemOK(c, proc[c]) /\ c # "parent"
        BY Have
    <2>2. x \in proc[c].live /\ proc[c].phase = "serving"
        BY <2>1 DEF MemOK, LiveOK
    <2> QED BY <2>1, <2>2 DEF MemOK, PidOK
<1> QED  BY <1>1, InitLInv, NextLInv, PTL DEF Spec

\* END blocks run once per perl and process, whether the process destroys its
\* perls (modperl_perl_destruct) or only calls their END blocks before it
\* exits (modperl_child_exit).
THEOREM EndBlocksOnceHolds == Spec => []EndBlocksOnce
<1>1. LInv => EndBlocksOnce
    <2> SUFFICES ASSUME LInv, NEW p \in Procs, NEW x \in Perls
                 PROVE  /\ proc[p].ended[x] \in 0 .. 1
                        /\ x \in Existed(p) =>
                             (x \notin Live(p) \/ proc[p].phase = "exited"
                              => proc[p].ended[x] = 1)
        BY Have DEF EndBlocksOnce, Existed
    <2>1. MemOK(p, proc[p])
        BY DEF LInv
    <2>2. proc[p].ended \in [Perls -> {0, 1}] /\ EndsOK(proc[p])
        BY <2>1, Fields DEF MemOK
    <2>3. proc[p].ended[x] \in 0 .. 1
        BY <2>2
    <2>4. ASSUME x \in Existed(p), x \notin Live(p) \/ proc[p].phase = "exited"
          PROVE  proc[p].ended[x] = 1
        BY <2>2, <2>4 DEF EndsOK, Existed, Live
    <2> QED BY <2>3, <2>4
<1> QED  BY <1>1, InitLInv, NextLInv, PTL DEF Spec

\* Whatever the virtual hosts are, a clone is destroyed before the perl it was
\* cloned from, what Perl code registered runs before its perl is destroyed,
\* and modperl_sys_term comes last.
THEOREM TeardownOrderHolds == Spec => []TeardownOrder
<1>1. LInv => TeardownOrder
    <2> SUFFICES ASSUME LInv PROVE TeardownOrder
        OBVIOUS
    <2>1. ASSUME NEW p \in Procs PROVE MemOK(p, proc[p])
        BY DEF LInv
    <2>2. ASSUME NEW p \in Procs, NEW x \in Live(p)
          PROVE  /\ ParentPerl(proc[p], x[1]) \in Live(p)
                 /\ proc[p].hooks /\ proc[p].status = 2
        <3> DEFINE P == proc[p]
        <3>1. MemOK(p, P) /\ x \in P.live /\ Live(p) = P.live
            BY <2>1, <2>2 DEF Live
        <3> HIDE DEF P
        <3>2. x[1] \in ServerSet /\ Stacked(P, x[1])
            BY <3>1, Fields, PerlFacts DEF MemOK, LiveOK
        <3>3. ParentPerl(P, x[1]) \in P.live
            BY <3>1, <3>2, ParentThere
        <3>4. P.hooks /\ P.status = 2
            BY <3>1, <3>2, Fields, MainStacked DEF MemOK
        <3> QED BY <3>1, <3>3, <3>4 DEF P
    <2>3. UserCleanupFirst
        BY Have DEF MemOK, UserOK, UserCleanupFirst
    <2>4. ParentOutlivesClones
        BY <2>2 DEF ParentOutlivesClones
    <2>5. HooksOutlivePerls
        BY <2>2 DEF HooksOutlivePerls
    <2> QED BY <2>3, <2>4, <2>5 DEF TeardownOrder
<1> QED  BY <1>1, InitLInv, NextLInv, PTL DEF Spec

\* After the server pool has been cleared no perl and no hook is left, in the
\* parent that may start again and in a child that destroys its perls.
THEOREM NothingLeftHolds == Spec => []NothingLeft
<1>1. LInv => NothingLeft
    <2> SUFFICES ASSUME LInv, NEW p \in Procs, proc[p].cleanups = <<>>
                 PROVE  Live(p) = {} /\ ~proc[p].hooks /\ proc[p].status = 0
        BY DEF NothingLeft
    <2>1. MemOK(p, proc[p])
        BY DEF LInv
    <2>2. \A t : ~Stacked(proc[p], t)
        BY DEF Stacked
    <2>3. Live(p) = {}
        BY <2>1, <2>2 DEF Live, MemOK, LiveOK
    <2>4. proc[p].status \in {0, 2} /\ StackOK(proc[p])
        BY <2>1, Fields DEF MemOK
    <2>5. proc[p].status # 2
        BY <2>4 DEF StackOK
    <2> QED BY <2>3, <2>4, <2>5 DEF StackOK
<1> QED  BY <1>1, InitLInv, NextLInv, PTL DEF Spec

=============================================================================
