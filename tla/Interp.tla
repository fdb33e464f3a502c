------------------------------- MODULE Interp -------------------------------
(***************************************************************************)
(* Which interpreter a thread runs Perl code on: modperl_interp_select,    *)
(* modperl_interp_unselect and their callers, over the thread item pool.   *)
(*                                                                         *)
(* A worker thread serves one connection after another.  A connection, a   *)
(* request and a subrequest each have an apr_pool_t, named "c", "r" and    *)
(* "s" here, one nested in the other.  An interpreter is remembered as     *)
(* userdata of one of these pools, with modperl_interp_unselect as the     *)
(* pool's cleanup, in the request's rcfg->interp, or only in a local       *)
(* variable of the caller, which the thread's stack of frames holds:       *)
(*                                                                         *)
(*   "run"     Perl code called by modperl_callback_run_handlers or        *)
(*             modperl_run_filter, with MP_INTERP_PUTBACK to follow        *)
(*   "modperl", "perl-script"                                              *)
(*             modperl_response_handler and modperl_response_handler_cgi     *)
(*             before they run the handlers                                *)
(*   "finish"  modperl_response_handler after it has run them              *)
(*   "end", "reset", "flush"                                               *)
(*             modperl_response_handler_cgi after it has run them, after   *)
(*             it has put the interpreter back, in modperl_response_finish *)
(*   "clean"   modperl_config_req_cleanup after it has selected            *)
(*   "cb"      Perl code called by mpxs_cleanup_run (APR::Pool)            *)
(*   "unsel"   modperl_interp_unselect before it runs the request's        *)
(*             cleanup handlers                                            *)
(*   "putback" the same after it has run them                              *)
(*                                                                         *)
(* A connection, request or subrequest record is a pair <<thread, level>>. *)
(* The MPM is a threaded one and every server shares one interpreter pool. *)
(***************************************************************************)
EXTENDS TIPool

CONSTANTS
    NULL,
    FREED,            \* a pointer to a request_rec whose pool is gone
    Scopes,           \* the PerlInterpScope values requests may have
    CleanupHandlers,  \* a PerlCleanupHandler is configured
    Responses,        \* the SetHandler values used: modperl, perl-script
    ConnFilters,      \* a Perl connection filter is configured
    MaxRefs,          \* bound: APR::Pool cleanups registered per interpreter
    MaxDepth          \* bound: frames on a thread's stack

ASSUME InterpAssumption ==
    /\ NULL \notin Items /\ NULL \notin Threads \X {"c", "r", "s"}
    /\ FREED # NULL
    /\ Scopes \subseteq {"request", "subrequest", "handler", "connection"}
    /\ CleanupHandlers \in BOOLEAN
    /\ Responses \subseteq {"modperl", "perl-script"}
    /\ ConnFilters \in BOOLEAN
    /\ MaxRefs \in Nat
    /\ MaxDepth \in Nat

VARIABLES
    refcnt,    \* interp->refcnt
    request,   \* interp->request: <<thread, level>>, FREED or NULL
    putback,   \* MpInterpPUTBACK(interp)
    open,      \* a thread's innermost open pool: "none", "c", "r" or "s"
    closing,   \* that pool is being destroyed
    scope,     \* the PerlInterpScope of a thread's request and subrequest
    ud,        \* the MP_INTERP_KEY userdata of a pool
    pool,      \* the cleanups registered with a pool, oldest first
    rint,      \* rcfg->interp
    flag,      \* MpReqCLEANUP_REGISTERED(rcfg)
    nreg,      \* how often modperl_config_req_cleanup is registered
    stack,     \* a thread's frames, innermost last
    pend,      \* the call that a thread blocked in modperl_tipool_pop is in
    ran        \* history: <<scope, interpreter>> the current request ran on

interpVars == <<refcnt, request, putback>>
poolsVars == <<open, closing, scope, ud, pool>>
rcfgVars == <<rint, flag, nreg>>
threadVars == <<stack, pend, ran>>
ivars == <<vars, interpVars, poolsVars, rcfgVars, threadVars>>

Levels == {"c", "r", "s"}
ReqLevels == {"r", "s"}
Records == Threads \X Levels
NoCall == [k |-> "none"]

Frame(k, q, i) == [k |-> k, q |-> q, i |-> i]
Pop1(s) == SubSeq(s, 1, Len(s) - 1)
TopIs(t, k) == stack[t] # <<>> /\ stack[t][Len(stack[t])].k = k
Top(t) == stack[t][Len(stack[t])]

InterpInit ==
    /\ Init
    /\ refcnt = [i \in Items |-> 0]
    /\ request = [i \in Items |-> NULL]
    /\ putback = [i \in Items |-> FALSE]
    /\ open = [t \in Threads |-> "none"]
    /\ closing = [t \in Threads |-> FALSE]
    /\ scope = [t \in Threads |-> [l \in ReqLevels |-> "none"]]
    /\ ud = [t \in Threads |-> [l \in Levels |-> NULL]]
    /\ pool = [t \in Threads |-> [l \in Levels |-> <<>>]]
    /\ rint = [t \in Threads |-> [l \in ReqLevels |-> NULL]]
    /\ flag = [t \in Threads |-> [l \in ReqLevels |-> FALSE]]
    /\ nreg = [t \in Threads |-> [l \in ReqLevels |-> 0]]
    /\ stack = [t \in Threads |-> <<>>]
    /\ pend = [t \in Threads |-> NoCall]
    /\ ran = [t \in Threads |-> {}]

-----------------------------------------------------------------------------
(* modperl_interp_select                                                   *)

IsRequest(q) == q[2] # "c"
HandlerScope(q) == IsRequest(q) /\ scope[q[1]][q[2]] = "handler"

\* Mutant: a subrequest does not look at its main request.
PoolForOwn(q) ==
    IF ~IsRequest(q) \/ scope[q[1]][q[2]] = "connection" THEN "c" ELSE q[2]

\* The pool whose userdata the interpreter is, or will be.  A handler that
\* has no request_rec is always per-connection.
PoolFor(q) ==
    IF ~IsRequest(q) \/ scope[q[1]][q[2]] = "connection" THEN "c"
    ELSE IF q[2] = "s" /\ scope[q[1]]["s"] = "request" THEN "r"
    ELSE q[2]

\* The interpreter select finds without asking the interpreter pool.
Found(q) ==
    IF IsRequest(q) /\ rint[q[1]][q[2]] # NULL THEN rint[q[1]][q[2]]
    ELSE IF ud[q[1]][PoolFor(q)] # NULL THEN ud[q[1]][PoolFor(q)]
    ELSE ud[q[1]]["c"]

\* What the callers of select do with the interpreter they get.  kind is
\* "run" (modperl_callback_run_handlers, which registers the request cleanup
\* unless it is flagged as registered), "filter" (modperl_run_filter), one of
\* the response handlers (which leave it in rcfg->interp when it is to be put
\* back) or "clean" (modperl_config_req_cleanup).
Enter(t, q, kind, base, i, popped) ==
    LET u == q[1]
        l == q[2]
        flagged == IsRequest(q) /\ (flag[u][l] \/ (popped /\ HandlerScope(q)))
        registers == kind = "run" /\ IsRequest(q) /\ ~flagged
        k == IF kind = "filter" THEN "run" ELSE kind
    IN
    /\ stack' = [stack EXCEPT ![t] = Append(base, Frame(k, q, i))]
    /\ flag' = IF IsRequest(q)
               THEN [flag EXCEPT ![u][l] = flagged \/ registers]
               ELSE flag
    /\ nreg' = IF registers THEN [nreg EXCEPT ![u][l] = @ + 1]
               ELSE IF kind = "clean" THEN [nreg EXCEPT ![u][l] = @ - 1]
               ELSE nreg
    /\ rint' = IF kind \in Responses /\ putback'[i]
               THEN [rint EXCEPT ![u][l] = i]
               ELSE rint
    /\ ran' = IF /\ k = "run" /\ IsRequest(q)
                 /\ scope[u][l] \in {"request", "connection"}
              THEN [ran EXCEPT ![u] = @ \cup {<<scope[u][l], i>>}]
              ELSE ran

\* Mutant: the interpreter is stashed without a pool cleanup.
SelectedNoCleanup(t, q, kind, base, i) ==
    /\ IF HandlerScope(q)
       THEN /\ request' = [request EXCEPT ![i] = q]
            /\ putback' = [putback EXCEPT ![i] = TRUE]
            /\ UNCHANGED ud
       ELSE /\ ud' = [ud EXCEPT ![q[1]][PoolFor(q)] = i]
            /\ UNCHANGED <<request, putback>>
    /\ UNCHANGED pool
    /\ Enter(t, q, kind, base, i, TRUE)

\* The rest of select once modperl_interp_get has popped i: in handler scope
\* the caller has to put it back, else the userdata cleanup of a pool will.
Selected(t, q, kind, base, i) ==
    /\ IF HandlerScope(q)
       THEN /\ request' = [request EXCEPT ![i] = q]
            /\ putback' = [putback EXCEPT ![i] = TRUE]
            /\ UNCHANGED <<ud, pool>>
       ELSE /\ ud' = [ud EXCEPT ![q[1]][PoolFor(q)] = i]
            /\ pool' = [pool EXCEPT ![q[1]][PoolFor(q)] =
                           Append(@, [k |-> "userdata", i |-> i])]
            /\ UNCHANGED <<request, putback>>
    /\ Enter(t, q, kind, base, i, TRUE)

\* The item that this step popped.
Popped(t) == CHOOSE i \in held'[t] : i \notin held[t]

\* Thread t, on top of the frames base, selects an interpreter for q.
Select(t, q, kind, base) ==
    \/ /\ Found(q) # NULL
       /\ UNCHANGED <<poolVars, request, putback, ud, pool, pend>>
       /\ Enter(t, q, kind, base, Found(q), FALSE)
    \/ /\ Found(q) = NULL
       /\ PopIdle(t, 1) \/ PopGrow(t, 1)
       /\ Selected(t, q, kind, base, Popped(t))
       /\ UNCHANGED pend
    \/ /\ Found(q) = NULL
       /\ PopBlock(t)
       /\ pend' = [pend EXCEPT ![t] = [k |-> kind, q |-> q]]
       /\ stack' = [stack EXCEPT ![t] = base]
       /\ UNCHANGED <<request, putback, ud, pool, rcfgVars, ran>>

-----------------------------------------------------------------------------
(* modperl_interp_unselect                                                 *)

\* interp->request is cleaned up, its flag reset, and i goes back to the pool
\* (where it may be destroyed, and with it what the structure says).
Reclaim(i) ==
    /\ putback' = [putback EXCEPT ![i] = FALSE]
    /\ flag' = [t \in Threads |-> [l \in ReqLevels |->
                   flag[t][l] /\ request[i] # <<t, l>>]]
    /\ \/ PutbackKeep(i) /\ UNCHANGED request
       \/ PutbackNotBusy(i) /\ UNCHANGED request
       \/ /\ PutbackDestroy(i) \/ PutbackReplace(i)
          /\ request' = [request EXCEPT ![i] = NULL]

\* Thread t releases i, then goes on with the frames base.
Unselect(t, i, base) ==
    \/ /\ refcnt[i] # 0
       /\ refcnt' = [refcnt EXCEPT ![i] = @ - 1]
       /\ stack' = [stack EXCEPT ![t] = base]
       /\ UNCHANGED <<poolVars, request, putback, flag>>
    \/ /\ refcnt[i] = 0
       /\ request[i] \notin {NULL, FREED} /\ CleanupHandlers
       /\ stack' = [stack EXCEPT ![t] =
                       Append(base, Frame("unsel", request[i], i))]
       /\ UNCHANGED <<poolVars, interpVars, flag>>
    \/ /\ refcnt[i] = 0
       /\ request[i] \in {NULL, FREED} \/ ~CleanupHandlers
       /\ Reclaim(i)
       /\ stack' = [stack EXCEPT ![t] = base]
       /\ UNCHANGED refcnt

-----------------------------------------------------------------------------
(* The threads.                                                            *)

Spend(t) ==
    /\ quota[t] > 0
    /\ quota' = [quota EXCEPT ![t] = @ - 1]

\* Control is in httpd, at the level of the innermost open pool: not in Perl
\* code, or in the Perl code that made the subrequest.
InHttpd(t) ==
    /\ ~InPool(t)
    /\ \/ stack[t] = <<>>
       \/ open[t] = "s" /\ TopIs(t, "run") /\ Top(t).q = <<t, "r">>

InPerl(t) == ~InPool(t) /\ TopIs(t, "run")

\* The code that runs is not suspended in the destruction of a subrequest.
Active(t) == InPerl(t) /\ (InHttpd(t) => ~closing[t])

\* httpd accepts a connection.
Accept(t) ==
    /\ up
    /\ open[t] = "none"
    /\ Spend(t)
    /\ open' = [open EXCEPT ![t] = "c"]
    /\ UNCHANGED <<poolVars, up, interpVars, closing, scope, ud, pool,
                   rcfgVars, threadVars>>

\* httpd reads a request, or makes a subrequest, of some PerlInterpScope.
OpenRequest(t) ==
    /\ InHttpd(t) \/ (InPerl(t) /\ Top(t).q = <<t, "r">>)
    /\ ~closing[t]
    /\ open[t] \in {"c", "r"}
    /\ Spend(t)
    /\ LET l == IF open[t] = "c" THEN "r" ELSE "s" IN
       /\ open' = [open EXCEPT ![t] = l]
       /\ \E s \in Scopes : scope' = [scope EXCEPT ![t][l] = s]
       /\ rint' = [rint EXCEPT ![t][l] = NULL]
       /\ flag' = [flag EXCEPT ![t][l] = FALSE]
       /\ ran' = IF l = "r" THEN [ran EXCEPT ![t] = {}] ELSE ran
    /\ UNCHANGED <<poolVars, up, interpVars, closing, ud, pool, nreg,
                   stack, pend>>

\* httpd runs a phase of the request or connection that has Perl handlers:
\* modperl_callback_run_handlers.
RunPhase(t) ==
    /\ InHttpd(t)
    /\ open[t] # "none" /\ ~closing[t]
    /\ Len(stack[t]) < MaxDepth
    /\ Spend(t)
    /\ Select(t, <<t, open[t]>>, "run", stack[t])
    /\ UNCHANGED <<up, refcnt, open, closing, scope>>

\* A filter of the request or of the connection runs, called by httpd, by what
\* Perl code prints or by modperl_response_finish: modperl_run_filter.
RunFilter(t) ==
    /\ \/ InHttpd(t) /\ ~closing[t]
       \/ Active(t)
       \/ ~InPool(t) /\ (TopIs(t, "finish") \/ TopIs(t, "flush"))
    /\ open[t] # "none"
    /\ Len(stack[t]) < MaxDepth
    /\ Spend(t)
    /\ \E l \in {"c", open[t]} :
          /\ l = "c" => ConnFilters
          /\ Select(t, <<t, l>>, "filter", stack[t])
    /\ UNCHANGED <<up, refcnt, open, closing, scope>>

\* modperl_response_handler and modperl_response_handler_cgi.
Response(t) ==
    /\ InHttpd(t)
    /\ open[t] \in ReqLevels /\ ~closing[t]
    /\ Len(stack[t]) + 1 < MaxDepth
    /\ Spend(t)
    /\ \E k \in Responses : Select(t, <<t, open[t]>>, k, stack[t])
    /\ UNCHANGED <<up, refcnt, open, closing, scope>>

\* modperl_response_handler_run: the handlers are run, if there are any.
ResponseRun(t) ==
    /\ ~InPool(t)
    /\ TopIs(t, "modperl") \/ TopIs(t, "perl-script")
    /\ LET f == Top(t)
           next == IF f.k = "modperl" THEN "finish" ELSE "end"
           base == Append(Pop1(stack[t]), [f EXCEPT !.k = next])
       IN
       \/ Select(t, f.q, "run", base)
       \/ /\ stack' = [stack EXCEPT ![t] = base]
          /\ UNCHANGED <<poolVars, request, putback, ud, pool, rcfgVars, pend,
                         ran>>
    /\ UNCHANGED <<quota, up, refcnt, open, closing, scope>>

\* The end of modperl_response_handler, the output flushed: if the interpreter
\* it selected is (still, or again) to be put back, rcfg->interp is reset and
\* it is unselected.
ResponseFinish(t) ==
    /\ ~InPool(t)
    /\ TopIs(t, "finish")
    /\ LET f == Top(t) IN
       IF putback[f.i]
       THEN /\ rint' = [rint EXCEPT ![f.q[1]][f.q[2]] = NULL]
            /\ Unselect(t, f.i, Pop1(stack[t]))
       ELSE /\ stack' = [stack EXCEPT ![t] = Pop1(@)]
            /\ UNCHANGED <<poolVars, interpVars, rint, flag>>
    /\ UNCHANGED <<quota, up, poolsVars, nreg, pend, ran>>

\* The end of modperl_response_handler_cgi: the other way round, and the
\* output is flushed last.
CgiPutback(t) ==
    /\ ~InPool(t)
    /\ TopIs(t, "end")
    /\ LET f == Top(t) IN
       IF putback[f.i]
       THEN Unselect(t, f.i, Append(Pop1(stack[t]), [f EXCEPT !.k = "reset"]))
       ELSE /\ stack' = [stack EXCEPT ![t] =
                            Append(Pop1(@), [f EXCEPT !.k = "flush"])]
            /\ UNCHANGED <<poolVars, interpVars, flag>>
    /\ UNCHANGED <<quota, up, poolsVars, rint, nreg, pend, ran>>

CgiFinish(t) ==
    /\ ~InPool(t)
    /\ LET f == Top(t) IN
       \/ /\ TopIs(t, "reset")
          /\ rint' = [rint EXCEPT ![f.q[1]][f.q[2]] = NULL]
          /\ stack' = [stack EXCEPT ![t] =
                          Append(Pop1(@), [f EXCEPT !.k = "flush"])]
       \/ /\ TopIs(t, "flush")
          /\ stack' = [stack EXCEPT ![t] = Pop1(@)]
          /\ UNCHANGED rint
    /\ UNCHANGED <<vars, interpVars, poolsVars, flag, nreg, pend, ran>>

\* Mutant: the interpreter is put back whether or not the caller has to.
ReturnAlways(t) ==
    /\ InPerl(t)
    /\ Top(t).q = <<t, "r">> => open[t] # "s"
    /\ Unselect(t, Top(t).i, Pop1(stack[t]))
    /\ UNCHANGED <<quota, up, poolsVars, rint, nreg, pend, ran>>

\* The Perl code returns, and MP_INTERP_PUTBACK.
Return(t) ==
    /\ InPerl(t)
    /\ Top(t).q = <<t, "r">> => open[t] # "s"
    /\ IF putback[Top(t).i]
       THEN Unselect(t, Top(t).i, Pop1(stack[t]))
       ELSE /\ stack' = [stack EXCEPT ![t] = Pop1(@)]
            /\ UNCHANGED <<poolVars, interpVars, flag>>
    /\ UNCHANGED <<quota, up, poolsVars, rint, nreg, pend, ran>>

\* Mutant: the cleanup does not take a reference to the interpreter.
RegisterUncounted(t) ==
    /\ Active(t)
    /\ LET i == Top(t).i IN
       /\ i \in busy
       /\ \E l \in Levels :
             /\ l = "r" => open[t] \in ReqLevels
             /\ l = "s" => open[t] = "s"
             /\ pool' = [pool EXCEPT ![t][l] = Append(@, [k |-> "perl", i |-> i])]
    /\ Spend(t)
    /\ UNCHANGED <<poolVars, up, interpVars, open, closing, scope, ud,
                   rcfgVars, threadVars>>

\* Perl code calls $pool->cleanup_register, or makes an APR::Pool object own a
\* subpool, for one of the thread's pools.  thx_interp_get knows the
\* interpreter as long as it has not been unselected.
RegisterCleanup(t) ==
    /\ Active(t)
    /\ LET i == Top(t).i IN
       /\ i \in busy
       /\ refcnt[i] < MaxRefs
       /\ refcnt' = [refcnt EXCEPT ![i] = @ + 1]
       /\ \E l \in Levels :
             /\ l = "r" => open[t] \in ReqLevels
             /\ l = "s" => open[t] = "s"
             /\ pool' = [pool EXCEPT ![t][l] = Append(@, [k |-> "perl", i |-> i])]
    /\ Spend(t)
    /\ UNCHANGED <<poolVars, up, request, putback, open, closing, scope, ud,
                   rcfgVars, threadVars>>

\* COND_WAIT returned and there is an item: modperl_tipool_pop returns it, and
\* the blocked call goes on.
ResumeSelect(t) ==
    /\ ResumeTake(t, 1)
    /\ Selected(t, pend[t].q, pend[t].k, stack[t], Popped(t))
    /\ pend' = [pend EXCEPT ![t] = NoCall]
    /\ UNCHANGED <<quota, up, refcnt, open, closing, scope>>

ResumeWait(t) ==
    /\ ResumeBlock(t)
    /\ UNCHANGED <<quota, up, interpVars, poolsVars, rcfgVars, threadVars>>

\* httpd destroys the innermost pool.
CloseBegin(t) ==
    /\ InHttpd(t)
    /\ open[t] # "none" /\ ~closing[t]
    /\ closing' = [closing EXCEPT ![t] = TRUE]
    /\ UNCHANGED <<vars, interpVars, open, scope, ud, pool, rcfgVars,
                   threadVars>>

\* apr_pool_destroy destroys the subpools first, and so runs
\* modperl_config_req_cleanup, which selects an interpreter (MP_dTHX).
RequestCleanup(t) ==
    /\ InHttpd(t)
    /\ closing[t] /\ open[t] \in ReqLevels
    /\ nreg[t][open[t]] > 0
    /\ Select(t, <<t, open[t]>>, "clean", stack[t])
    /\ UNCHANGED <<quota, up, refcnt, open, closing, scope>>

\* modperl_config_request_cleanup: run the PerlCleanupHandlers, if any.
RunCleanupHandlers(t) ==
    /\ ~InPool(t)
    /\ TopIs(t, "clean") \/ TopIs(t, "unsel")
    /\ LET f == Top(t)
           base == IF f.k = "clean" THEN Pop1(stack[t])
                   ELSE Append(Pop1(stack[t]), [f EXCEPT !.k = "putback"])
       IN
       \/ /\ CleanupHandlers
          /\ Len(base) < MaxDepth
          /\ Select(t, f.q, "run", base)
       \/ /\ ~CleanupHandlers
          /\ stack' = [stack EXCEPT ![t] = base]
          /\ UNCHANGED <<poolVars, request, putback, ud, pool, rcfgVars,
                         pend, ran>>
    /\ UNCHANGED <<quota, up, refcnt, open, closing, scope>>

\* The rest of modperl_interp_unselect.
UnselectFinish(t) ==
    /\ ~InPool(t)
    /\ TopIs(t, "putback")
    /\ Reclaim(Top(t).i)
    /\ stack' = [stack EXCEPT ![t] = Pop1(@)]
    /\ UNCHANGED <<quota, up, refcnt, poolsVars, rint, nreg, pend, ran>>

\* The pool's own cleanups run, the newest first.
PoolCleanup(t) ==
    /\ InHttpd(t)
    /\ closing[t]
    /\ open[t] \in ReqLevels => nreg[t][open[t]] = 0
    /\ LET l == open[t]
           cleanups == pool[t][l]
           last == cleanups[Len(cleanups)]
       IN
       /\ cleanups # <<>>
       /\ pool' = [pool EXCEPT ![t][l] = Pop1(@)]
       /\ \/ /\ last.k = "userdata"
             /\ Unselect(t, last.i, stack[t])
          \/ /\ last.k = "perl"
             /\ stack' = [stack EXCEPT ![t] = Append(@, Frame("cb", <<t, l>>, last.i))]
             /\ UNCHANGED <<poolVars, interpVars, flag>>
    /\ UNCHANGED <<quota, up, open, closing, scope, ud, rint, nreg, pend,
                   ran>>

\* Mutant: mpxs_cleanup_run does not release the interpreter.
CallbackKeeps(t) ==
    /\ ~InPool(t)
    /\ TopIs(t, "cb")
    /\ stack' = [stack EXCEPT ![t] = Pop1(@)]
    /\ UNCHANGED <<vars, interpVars, poolsVars, rcfgVars, pend, ran>>

\* The end of mpxs_cleanup_run.
CallbackReturn(t) ==
    /\ ~InPool(t)
    /\ TopIs(t, "cb")
    /\ Unselect(t, Top(t).i, Pop1(stack[t]))
    /\ UNCHANGED <<quota, up, poolsVars, rint, nreg, pend, ran>>

\* All cleanups have run and the pool's memory is freed, with the request_rec
\* that is in it.
CloseEnd(t) ==
    /\ InHttpd(t)
    /\ closing[t]
    /\ open[t] \in ReqLevels => nreg[t][open[t]] = 0
    /\ pool[t][open[t]] = <<>>
    /\ closing' = [closing EXCEPT ![t] = FALSE]
    /\ ud' = [ud EXCEPT ![t][open[t]] = NULL]
    /\ request' = [i \in Items |->
                      IF request[i] = <<t, open[t]>> THEN FREED ELSE request[i]]
    /\ open' = [open EXCEPT ![t] = CASE @ = "s" -> "r"
                                     [] @ = "r" -> "c"
                                     [] @ = "c" -> "none"]
    /\ ran' = IF open[t] = "r" THEN [ran EXCEPT ![t] = {}] ELSE ran
    /\ UNCHANGED <<vars, refcnt, putback, scope, pool, rcfgVars, stack, pend>>

\* The process exits when its threads have: modperl_interp_pool_destroy.
Shutdown ==
    /\ \A t \in Threads : open[t] = "none"
    /\ Destroy
    /\ UNCHANGED <<interpVars, poolsVars, rcfgVars, threadVars>>

Finished == ~up /\ UNCHANGED ivars

ThreadStep(t) ==
    \/ Accept(t) \/ OpenRequest(t)
    \/ RunPhase(t) \/ RunFilter(t) \/ Response(t)
    \/ ResponseRun(t) \/ ResponseFinish(t) \/ CgiPutback(t) \/ CgiFinish(t)
    \/ Return(t) \/ RegisterCleanup(t)
    \/ ResumeSelect(t) \/ ResumeWait(t)
    \/ CloseBegin(t) \/ RequestCleanup(t) \/ RunCleanupHandlers(t)
    \/ UnselectFinish(t) \/ PoolCleanup(t) \/ CallbackReturn(t)
    \/ CloseEnd(t)

InterpNext == (\E t \in Threads : ThreadStep(t)) \/ Shutdown \/ Finished

InterpSpec == InterpInit /\ [][InterpNext]_ivars

\* A thread that can go on does: handlers return, and connections are closed.
InterpFairSpec ==
    /\ InterpSpec
    /\ \A t \in Threads : WF_ivars(ThreadStep(t))
    /\ WF_ivars(Shutdown)

-----------------------------------------------------------------------------
(* Properties.                                                             *)

Frames(t) == {stack[t][n] : n \in 1..Len(stack[t])}
CleanupsOf(t, l) == {pool[t][l][n] : n \in 1..Len(pool[t][l])}

\* The calls of modperl_interp_select, the frames of a thread, the cleanups of
\* a pool.
Calls == {"run", "filter", "clean", "modperl", "perl-script"}
FrameType ==
    [k : {"run", "modperl", "perl-script", "finish", "end", "reset", "flush",
          "clean", "cb", "unsel", "putback"},
     q : Records,
     i : Items]
CleanupType == [k : {"userdata", "perl"}, i : Items]

\* Every variable of the interpreters, pools, requests and threads has its
\* type; a thread is blocked in modperl_tipool_pop exactly if it is in a call.
InterpTypeOK ==
    /\ TypeOK
    /\ refcnt \in [Items -> 0..MaxRefs]
    /\ request \in [Items -> (Threads \X ReqLevels) \cup {FREED, NULL}]
    /\ putback \in [Items -> BOOLEAN]
    /\ open \in [Threads -> Levels \cup {"none"}]
    /\ closing \in [Threads -> BOOLEAN]
    /\ scope \in [Threads -> [ReqLevels -> Scopes \cup {"none"}]]
    /\ ud \in [Threads -> [Levels -> Items \cup {NULL}]]
    /\ pool \in [Threads -> [Levels -> Seq(CleanupType)]]
    /\ rint \in [Threads -> [ReqLevels -> Items \cup {NULL}]]
    /\ flag \in [Threads -> [ReqLevels -> BOOLEAN]]
    /\ nreg \in [Threads -> [ReqLevels -> Int]]
    /\ stack \in [Threads -> Seq(FrameType)]
    /\ pend \in [Threads -> [k : Calls, q : Records] \cup {NoCall}]
    /\ ran \in [Threads -> SUBSET (Scopes \X Items)]
    /\ \A t \in Threads : (pend[t] # NoCall) <=> InPool(t)
    /\ \A t \in Threads : closing[t] => open[t] # "none"

\* "The interpreter is then only available to the thread that selected it":
\* Perl code only ever runs on an interpreter that its thread popped and that
\* has not been put back.
RunsOnOwnInterpreter ==
    \A t \in Threads : \A f \in Frames(t) :
        f.k \in {"run", "cb"} => f.i \in held[t]

\* APR::Pool: "make sure interpreter is not putback into the mip until this
\* cleanup has run"; the same goes for the pool the interpreter is stashed in.
NoDanglingCleanup ==
    \A t \in Threads, l \in Levels : \A e \in CleanupsOf(t, l) :
        e.i \in held[t]

\* A busy interpreter is counted exactly: refcnt is one less than the number
\* of pool cleanups (running or yet to run) that will call unselect for it,
\* so the last of them, and no other, puts it back.
RefcntExact ==
    \A t \in Threads : \A i \in held[t] :
        refcnt[i] + 1 =
            Cardinality(UNION {{l} \X {n \in 1..Len(pool[t][l]) :
                                          pool[t][l][n].i = i} : l \in Levels})
            + Cardinality({n \in 1..Len(stack[t]) :
                              stack[t][n].k = "cb" /\ stack[t][n].i = i})

\* A thread between two connections holds no interpreter.
NothingLeaked ==
    \A t \in Threads : open[t] = "none" => held[t] = {}

\* All handlers and filters of a request and its subrequests that are in
\* request scope run on one and the same interpreter, whatever other scopes
\* are used in between; the same goes for connection scope.
OneInterpreterPerRequest ==
    \A t \in Threads : \A x, y \in ran[t] : x[1] = y[1] => x = y

\* Every connection is served to its end, although its thread may have to
\* wait for interpreters that other threads hold, and in the end every
\* interpreter is destroyed.
EverythingEnds ==
    /\ \A t \in Threads : open[t] # "none" ~> open[t] = "none"
    /\ <>(~up /\ Alive = {})

=============================================================================
