----------------------------- MODULE Lifecycle -----------------------------
(***************************************************************************)
(* The life of the Perl interpreters of a server, from the configuration   *)
(* phase of the parent process to the exit of its children (mod_perl.c,    *)
(* modperl_interp.c, modperl_perl.c).                                      *)
(*                                                                         *)
(* The parent process starts one parent perl for the main server and one   *)
(* for each <VirtualHost> with +Parent.  A virtual host with +Clone has an *)
(* interpreter pool of its own, filled with clones of the main server's    *)
(* perl.  All teardown is done by the cleanups of two pools: server_pool,  *)
(* which holds one cleanup per interpreter pool, and server_user_pool,     *)
(* which holds what Perl code registered.  A child is a copy of the parent *)
(* made by fork(); a restart clears the pools of the parent while children *)
(* of the previous configuration may still be serving.                     *)
(***************************************************************************)
EXTENDS Naturals, FiniteSets, Sequences, SequencesExt

CONSTANTS
    NULL,
    Vhosts,         \* the virtual hosts, in the order of the server list
    Kinds,          \* how they may be configured: "shared", "parent"
                    \* (+Parent), "clone" (+Clone), "disabled" (-Enable)
    Children,       \* the child processes
    MaxClones,      \* PerlInterpMax
    Start,          \* PerlInterpStart
    MaxRestarts     \* bound on the number of restarts

VhostSet == {Vhosts[i] : i \in DOMAIN Vhosts}
ServerSet == {"main"} \cup VhostSet
Procs == {"parent"} \cup Children
Perls == ServerSet \X (0 .. MaxClones)     \* 0 is a parent perl

ASSUME LifecycleAssumption ==
    /\ Vhosts \in Seq(VhostSet)
    /\ "main" \notin VhostSet
    /\ "term" \notin ServerSet     \* no server has the name of a cleanup
    /\ "parent" \notin Children
    /\ NULL \notin ServerSet \cup Procs
    /\ Kinds \subseteq {"shared", "parent", "clone", "disabled"}
    /\ MaxClones \in Nat /\ Start \in 1 .. MaxClones
    /\ MaxRestarts \in Nat

VARIABLES
    threaded,   \* ap_mpm_query(AP_MPMQ_IS_THREADED)
    level,      \* the children's PERL_DESTRUCT_LEVEL, 0 when unset
    restarts,   \* restarts so far
    proc        \* the memory of each process

lvars == <<threaded, level, restarts, proc>>

(* What one process holds.                                                 *)
(*   phase     where the process is                                        *)
(*   status    MP_init_status (1 is never seen between two steps)          *)
(*   post      MP_post_post_config_phase                                   *)
(*   hooks     PL_ppaddr and PL_vtbl_env are mod_perl's                    *)
(*   conf      the kind of each virtual host                               *)
(*   mip       scfg->mip of each server, named by the server that owns it  *)
(*   pools     server_pool and server_user_pool, as subpools of pconf, in  *)
(*             the order of their creation                                 *)
(*   cleanups  the cleanups of server_pool, oldest first                   *)
(*   user      the perls with a cleanup in server_user_pool                *)
(*   idle      the idle list of each interpreter pool                      *)
(*   busy      the interpreters that run a request                         *)
(*   live      the perls that exist                                        *)
(*   pid       what $$ is in each perl                                     *)
(*   ended     how often the END blocks of each perl have run              *)
(*   walk      the perls modperl_interp_mip_walk_servers has yet to visit  *)
Blank == [phase |-> "none", status |-> 0, post |-> FALSE, hooks |-> FALSE,
          conf |-> [v \in VhostSet |-> "shared"],
          mip |-> [s \in ServerSet |-> NULL],
          pools |-> <<>>, cleanups |-> <<>>, user |-> {},
          idle |-> [s \in ServerSet |-> {}], busy |-> {}, live |-> {},
          pid |-> [x \in Perls |-> NULL], ended |-> [x \in Perls |-> 0],
          walk |-> {}]

Confs == [VhostSet -> Kinds]

-----------------------------------------------------------------------------
(* Starting and destroying perls, as operations on the memory P.           *)

\* The perl that mip->parent of the pool owned by s points to: its own
\* (MpInterpBASE), or the main server's when s has +Clone.
OwnsPerl(P, s) == s \in {"main"} \cup {v \in VhostSet : P.conf[v] = "parent"}
ParentPerl(P, s) == IF OwnsPerl(P, s) THEN <<s, 0>> ELSE <<"main", 0>>

\* Mutant: the pool of a virtual host has no cleanup.
InterpInitUnregistered(P, s) ==
    [P EXCEPT !.mip[s] = s,
              !.cleanups = IF OwnsPerl(P, s) THEN Append(@, s) ELSE @]

\* modperl_interp_init.
InterpInit(P, s) ==
    [P EXCEPT !.mip[s] = s, !.cleanups = Append(@, s)]

\* modperl_startup, past the recursion that starts the main server's first.
Startup(P, s, self) ==
    InterpInit([P EXCEPT !.live = @ \cup {<<s, 0>>}, !.pid[<<s, 0>>] = self,
                         !.ended[<<s, 0>>] = 0], s)

\* modperl_init_vhost; the kind is fixed by the time it is called.
InitVhost(P, v, self) ==
    IF P.mip[v] # NULL \/ P.conf[v] = "disabled" THEN P
    ELSE CASE P.conf[v] = "parent" -> Startup(P, v, self)
           [] P.conf[v] = "clone" -> InterpInit(P, v)
           [] OTHER -> [P EXCEPT !.mip[v] = P.mip["main"]]

\* modperl_init: the main server, then those virtual hosts that are in the
\* list of servers already.
Init_(P, there, self) ==
    LET go[i \in 0 .. Len(Vhosts)] ==
            IF i = 0 THEN Startup(P, "main", self)
            ELSE IF Vhosts[i] \in there THEN InitVhost(go[i - 1], Vhosts[i], self)
            ELSE go[i - 1]
    IN  go[Len(Vhosts)]

\* The two subpools of pconf and modperl_sys_init.
SysInit(P) ==
    [P EXCEPT !.status = 2, !.hooks = TRUE, !.cleanups = <<"term">>,
              !.pools = <<"server", "user">>]

\* modperl_hook_init; modperl_run when it is called while the configuration
\* is being read.
HookInit(P, there, self) ==
    IF P.status # 0 THEN P ELSE Init_(SysInit(P), there, self)

\* interp_pool_grow, for the new clones X: perl_clone copies $$ and the END
\* blocks of the parent.
Clones(P, X) ==
    [P EXCEPT !.live = @ \cup X,
              !.idle = [s \in ServerSet |-> @[s] \cup {x \in X : x[1] = s}],
              !.pid = [x \in Perls |-> IF x \in X THEN @[ParentPerl(P, x[1])]
                                      ELSE @[x]],
              !.ended = [x \in Perls |-> IF x \in X THEN 0 ELSE @[x]]]

\* modperl_perl_destruct: the END blocks, then the perl is freed.
Destruct(P, x) == [P EXCEPT !.ended[x] = @ + 1, !.live = @ \ {x}]

\* modperl_interp_destroy, and the item leaves its list.
Destroy(P, x) == [Destruct(P, x) EXCEPT !.idle[x[1]] = @ \ {x}]

\* Mutant: the idle lists are not walked.
WalkParents(P) == {x \in P.live : x[2] = 0}

\* modperl_interp_mip_walk_servers, the perls it visits: the parent perl of
\* each pool unless it is the main server's, and the idle list; virtual hosts
\* that share the main server's pool are skipped.
Walk(P) ==
    LET walked == {s \in ServerSet : s = "main" \/ P.mip[s] # "main"}
    IN  {<<s, 0>> : s \in {t \in walked : OwnsPerl(P, t)}}
        \cup UNION {P.idle[s] : s \in walked}

\* The order in which it visits them: server by server, and the parent perl
\* of each before its idle list.
Earlier(x, y) ==
    \/ x[1] = y[1] /\ x[2] = 0 /\ y[2] > 0
    \/ x[1] = "main" /\ y[1] # "main"
    \/ \E i, j \in DOMAIN Vhosts :
         i < j /\ x[1] = Vhosts[i] /\ y[1] = Vhosts[j]

-----------------------------------------------------------------------------
(* The parent process: reading the configuration, starting, restarting.    *)

Parent == proc["parent"]
SetProc(p, P) == proc' = [proc EXCEPT ![p] = P]

Init ==
    /\ threaded \in BOOLEAN
    /\ level \in {0, 2}
    /\ restarts = 0
    /\ \E f \in Confs :
         proc = [p \in Procs |->
                   IF p = "parent"
                   THEN [Blank EXCEPT !.phase = "config", !.conf = f]
                   ELSE Blank]

\* A directive that needs Perl while the configuration is being read.  New
\* virtual hosts are put at the head of the list: the later ones of Vhosts are
\* there first.
RunEarly ==
    /\ Parent.phase = "config" /\ Parent.status = 0
    /\ \E i \in 1 .. Len(Vhosts) + 1 :
         SetProc("parent",
                 HookInit(Parent, {Vhosts[j] : j \in i .. Len(Vhosts)}, "parent"))
    /\ UNCHANGED <<threaded, level, restarts>>

\* A directive in the section of virtual host v that needs its perl.
VhostDirective(v) ==
    /\ Parent.phase = "config" /\ Parent.status = 2
    /\ SetProc("parent", InitVhost(Parent, v, "parent"))
    /\ UNCHANGED <<threaded, level, restarts>>

\* The configurations of the servers are merged: a virtual host without an
\* interpreter pool gets the main server's, when there is one.
Merge ==
    /\ Parent.phase = "config"
    /\ SetProc("parent",
           [Parent EXCEPT !.phase = "merged",
                          !.mip = [s \in ServerSet |->
                                     IF @[s] = NULL THEN @["main"] ELSE @[s]]])
    /\ UNCHANGED <<threaded, level, restarts>>

\* The open_logs hook.
OpenLogs ==
    /\ Parent.phase = "merged"
    /\ SetProc("parent", [HookInit(Parent, VhostSet, "parent")
                            EXCEPT !.phase = "started"])
    /\ UNCHANGED <<threaded, level, restarts>>

\* Apache2::ServerUtil::server_shutdown_cleanup_register from Perl code that
\* runs in a parent perl; it croaks once the server is past post_config.
RegisterCleanup(x) ==
    /\ Parent.phase \in {"config", "started"}
    /\ ~Parent.post /\ x \in Parent.live
    /\ SetProc("parent", [Parent EXCEPT !.user = @ \cup {x}])
    /\ UNCHANGED <<threaded, level, restarts>>

\* modperl_init_clones.
InitClones(P) ==
    IF threaded
    THEN Clones(P, {x \in Perls : /\ x[2] \in 1 .. Start
                                  /\ x[1] \in {P.mip[s] : s \in ServerSet}
                                  /\ P.idle[x[1]] = {}})
    ELSE P

\* modperl_hook_post_config_last.  The walk over the handlers of each server
\* reads scfg->mip->parent->perl.
PostConfigLast ==
    /\ Parent.phase = "started"
    /\ IF \E s \in ServerSet : Parent.mip[s] = NULL
       THEN SetProc("parent", [Parent EXCEPT !.phase = "crashed"])
       ELSE SetProc("parent", [InitClones(Parent) EXCEPT !.phase = "serving",
                                                         !.post = TRUE])
    /\ UNCHANGED <<threaded, level, restarts>>

\* A signal: pconf is cleared.
Shutdown ==
    /\ Parent.phase = "serving"
    /\ SetProc("parent", [Parent EXCEPT !.phase = "clearing"])
    /\ UNCHANGED <<threaded, level, restarts>>

\* The configuration is read again, and may have been changed.
Restart ==
    /\ Parent.phase = "clearing" /\ Parent.pools = <<>>
    /\ restarts < MaxRestarts
    /\ restarts' = restarts + 1
    /\ \E f \in Confs :
         SetProc("parent", [Blank EXCEPT !.phase = "config", !.conf = f])
    /\ UNCHANGED <<threaded, level>>

Stop ==
    /\ Parent.phase = "clearing" /\ Parent.pools = <<>>
    /\ SetProc("parent", [Parent EXCEPT !.phase = "stopped"])
    /\ UNCHANGED <<threaded, level, restarts>>

-----------------------------------------------------------------------------
(* A child process.                                                        *)

Fork(c) ==
    /\ Parent.phase = "serving" /\ proc[c].phase = "none"
    /\ SetProc(c, [Parent EXCEPT !.phase = "forked"])
    /\ UNCHANGED <<threaded, level, restarts>>

\* modperl_perl_init_ids_server: $$ is set in every perl that is walked.
InitIds(P, self) ==
    LET seen == Walk(P) IN
    [P EXCEPT !.pid = [x \in Perls |-> IF x \in seen THEN self ELSE @[x]]]

\* modperl_hook_child_init.
ChildInit(c) ==
    /\ proc[c].phase = "forked"
    /\ SetProc(c, [InitIds(proc[c], c) EXCEPT !.phase = "serving"])
    /\ UNCHANGED <<threaded, level, restarts>>

\* An idle interpreter of the pool owned by s is selected for a request.
Select(c, s) ==
    /\ proc[c].phase = "serving" /\ proc[c].mip[s] = s
    /\ \E x \in proc[c].idle[s] :
         SetProc(c, [proc[c] EXCEPT !.idle[s] = @ \ {x}, !.busy = @ \cup {x}])
    /\ UNCHANGED <<threaded, level, restarts>>

\* All are busy: a new one is made from the parent perl and selected.
SelectNew(c, s) ==
    /\ threaded
    /\ proc[c].phase = "serving" /\ proc[c].mip[s] = s /\ proc[c].idle[s] = {}
    /\ \E k \in 1 .. MaxClones :
         /\ <<s, k>> \notin proc[c].live
         /\ \A j \in 1 .. k - 1 : <<s, j>> \in proc[c].live
         /\ SetProc(c, [Clones(proc[c], {<<s, k>>}) EXCEPT
                          !.idle[s] = {}, !.busy = @ \cup {<<s, k>>}])
    /\ UNCHANGED <<threaded, level, restarts>>

\* Without threads requests run on the parent perls, one at a time.
SelectParent(c, s) ==
    /\ ~threaded
    /\ proc[c].phase = "serving" /\ proc[c].mip[s] = s /\ proc[c].busy = {}
    /\ SetProc(c, [proc[c] EXCEPT !.busy = {ParentPerl(proc[c], s)}])
    /\ UNCHANGED <<threaded, level, restarts>>

\* The request is over: the interpreter goes back to its pool.
Putback(c, x) ==
    /\ proc[c].phase = "serving" /\ x \in proc[c].busy
    /\ SetProc(c, [proc[c] EXCEPT
                     !.busy = @ \ {x},
                     !.idle[x[1]] = IF threaded THEN @ \cup {x} ELSE @])
    /\ UNCHANGED <<threaded, level, restarts>>

\* It has served PerlInterpMaxRequests, or there are PerlInterpMaxSpare idle
\* ones: it is destroyed instead.
Discard(c, x) ==
    /\ threaded
    /\ proc[c].phase = "serving" /\ x \in proc[c].busy
    /\ SetProc(c, [Destroy(proc[c], x) EXCEPT !.busy = @ \ {x}])
    /\ UNCHANGED <<threaded, level, restarts>>

\* modperl_child_exit, run when the workers of the child have ended.
ChildExit(c) ==
    /\ proc[c].phase = "serving" /\ proc[c].busy = {}
    /\ SetProc(c, IF level # 0 THEN [proc[c] EXCEPT !.phase = "clearing"]
                  ELSE [proc[c] EXCEPT !.phase = "ending",
                                       !.walk = Walk(proc[c])])
    /\ UNCHANGED <<threaded, level, restarts>>

\* modperl_perl_call_endav_mip for the next perl of the walk.
CallEndav(c) ==
    /\ proc[c].phase = "ending"
    /\ \E x \in proc[c].walk :
         /\ \A y \in proc[c].walk : ~Earlier(y, x)
         /\ SetProc(c, [proc[c] EXCEPT !.ended[x] = @ + 1, !.walk = @ \ {x}])
    /\ UNCHANGED <<threaded, level, restarts>>

\* The process exits; the MPM may start another child in its place.
Exited(c) ==
    /\ \/ proc[c].phase = "ending" /\ proc[c].walk = {}
       \/ proc[c].phase = "clearing" /\ proc[c].cleanups = <<>>
    /\ SetProc(c, [proc[c] EXCEPT !.phase = "exited"])
    /\ UNCHANGED <<threaded, level, restarts>>

Reap(c) ==
    /\ proc[c].phase \in {"exited", "died"}
    /\ SetProc(c, Blank)
    /\ UNCHANGED <<threaded, level, restarts>>

-----------------------------------------------------------------------------
(* Clearing pools.  APR destroys the newest subpool first and runs the     *)
(* newest cleanup first.  The parent clears pconf, a child server_pool.    *)

Clears(p, pool) ==
    /\ proc[p].phase = "clearing"
    /\ IF p = "parent" THEN proc[p].pools # <<>> /\ Last(proc[p].pools) = pool
                       ELSE pool = "server"

\* mpxs_cleanup_run for one cleanup, or server_user_pool is gone.
UserCleanup(p) ==
    /\ Clears(p, "user")
    /\ IF proc[p].user = {}
       THEN SetProc(p, [proc[p] EXCEPT !.pools = Front(@)])
       ELSE \E x \in proc[p].user :
              SetProc(p, [proc[p] EXCEPT !.user = @ \ {x}])
    /\ UNCHANGED <<threaded, level, restarts>>

\* Mutant: the parent perl is destroyed before the clones.
PoolDestroyParentFirst(P, s) ==
    IF <<s, 0>> \in P.live THEN Destroy(P, <<s, 0>>)
    ELSE IF P.idle[s] # {} THEN Destroy(P, CHOOSE x \in P.idle[s] : TRUE)
    ELSE [P EXCEPT !.cleanups = Front(@)]

\* Mutant: the parent perl is destroyed with every pool that uses it.
PoolDestroyAlways(P, s) ==
    IF P.idle[s] # {} THEN Destroy(P, CHOOSE x \in P.idle[s] : TRUE)
    ELSE [Destroy(P, ParentPerl(P, s)) EXCEPT !.cleanups = Front(@)]

\* modperl_interp_pool_destroy, one perl at a time: the idle interpreters,
\* then the parent perl if it belongs to this pool (MpInterpBASE).
PoolDestroy(P, s) ==
    IF P.idle[s] # {} THEN Destroy(P, CHOOSE x \in P.idle[s] : TRUE)
    ELSE LET Q == IF OwnsPerl(P, s) THEN Destroy(P, <<s, 0>>) ELSE P
         IN  [Q EXCEPT !.cleanups = Front(@)]

\* The newest cleanup of server_pool: an interpreter pool, at last
\* modperl_sys_term.
ServerCleanup(p) ==
    LET P == proc[p] IN
    /\ Clears(p, "server") /\ P.cleanups # <<>>
    /\ IF Last(P.cleanups) # "term"
       THEN SetProc(p, PoolDestroy(P, Last(P.cleanups)))
       ELSE SetProc(p, [P EXCEPT !.status = 0, !.post = FALSE, !.hooks = FALSE,
                                 !.cleanups = <<>>])
    /\ UNCHANGED <<threaded, level, restarts>>

ServerPoolGone ==
    /\ Clears("parent", "server") /\ Parent.cleanups = <<>>
    /\ SetProc("parent", [Parent EXCEPT !.pools = Front(@)])
    /\ UNCHANGED <<threaded, level, restarts>>

\* An END block dies: modperl_perl_call_list croaks outside any eval, and the
\* process exits.
EndBlockDies(p) ==
    LET P == proc[p] IN
    /\ \/ P.phase = "ending" /\ P.walk # {}
       \/ /\ Clears(p, "server")
          /\ P.cleanups # <<>> /\ Last(P.cleanups) # "term"
          /\ \/ P.idle[Last(P.cleanups)] # {}
             \/ OwnsPerl(P, Last(P.cleanups))
    /\ SetProc(p, [P EXCEPT !.phase = "died"])
    /\ UNCHANGED <<threaded, level, restarts>>

-----------------------------------------------------------------------------
Next ==
    \/ RunEarly \/ (\E v \in VhostSet : VhostDirective(v)) \/ Merge
    \/ OpenLogs \/ (\E x \in Perls : RegisterCleanup(x)) \/ PostConfigLast
    \/ Shutdown \/ ServerPoolGone \/ Restart \/ Stop
    \/ \E c \in Children :
         \/ Fork(c) \/ ChildInit(c)
         \/ \E s \in ServerSet :
              Select(c, s) \/ SelectNew(c, s) \/ SelectParent(c, s)
         \/ \E x \in Perls : Putback(c, x) \/ Discard(c, x)
         \/ ChildExit(c) \/ CallEndav(c) \/ Exited(c) \/ Reap(c)
    \/ \E p \in Procs : UserCleanup(p) \/ ServerCleanup(p) \/ EndBlockDies(p)

Spec == Init /\ [][Next]_lvars

-----------------------------------------------------------------------------
Live(p) == proc[p].live
Existed(p) == {x \in Perls : proc[p].pid[x] # NULL}

\* The memory of every process is well formed.
LifecycleTypeOK ==
    /\ threaded \in BOOLEAN /\ level \in {0, 2} /\ restarts \in 0 .. MaxRestarts
    /\ \A p \in Procs :
         /\ proc[p].status \in {0, 2}
         /\ proc[p].conf \in [VhostSet -> Kinds \cup {"shared"}]
         /\ Live(p) \subseteq Existed(p) /\ proc[p].busy \subseteq Live(p)
         /\ \A s \in ServerSet :
              /\ proc[p].mip[s] \in {NULL, "main", s}
              /\ proc[p].idle[s] \subseteq {x \in Live(p) : x[1] = s /\ x[2] > 0}
         /\ proc[p].ended \in [Perls -> 0 .. 1]

\* A request sees the $$ of the process that serves it, on interpreters made
\* before the fork, set by modperl_hook_child_init, and on the clones that are
\* made later.
OwnPid ==
    \A c \in Children : \A x \in proc[c].busy : proc[c].pid[x] = c

\* A clone is destroyed before the perl it was cloned from, whose shared
\* objects it uses (the clone has forgotten their handles) and with which the
\* libraries are unloaded.
ParentOutlivesClones ==
    \A p \in Procs : \A x \in Live(p) :
        x[2] > 0 => ParentPerl(proc[p], x[1]) \in Live(p)

\* The END blocks of each perl run once in a process: when it is destroyed or,
\* in a child that does not destroy its perls, when it exits.
EndBlocksOnce ==
    /\ \A p \in Procs, x \in Perls : proc[p].ended[x] \in 0 .. 1
    /\ \A p \in Procs : \A x \in Existed(p) :
         x \notin Live(p) \/ proc[p].phase = "exited" => proc[p].ended[x] = 1

\* What server_shutdown_cleanup_register registered is run in the parent, by
\* a perl that has not been destroyed.
UserCleanupFirst == Parent.user \subseteq Parent.live

\* The opcodes and the magic of %ENV are mod_perl's as long as there is a perl
\* that was started with them.
HooksOutlivePerls ==
    \A p \in Procs : Live(p) # {} => proc[p].hooks /\ proc[p].status = 2

\* Nothing is torn down that something still alive needs, although one cleanup
\* per interpreter pool, two apr pools and httpd decide the order.
TeardownOrder == ParentOutlivesClones /\ UserCleanupFirst /\ HooksOutlivePerls

\* After a process has cleared the server pool nothing is left of this
\* configuration: no perl, no hook, and mod_perl can be started again.
NothingLeft ==
    \A p \in Procs :
        proc[p].phase = "clearing" /\ proc[p].cleanups = <<>>
        => Live(p) = {} /\ ~proc[p].hooks /\ proc[p].status = 0

=============================================================================
