------------------------------ MODULE Request ------------------------------
(***************************************************************************)
(* What mod_perl changes in a Perl interpreter for the time of a request:  *)
(* %ENV and its magic (modperl_env.c), the special variables that are      *)
(* saved around a perl-script handler (modperl_perl_global.c), STDIN and   *)
(* STDOUT (modperl_io.c) and the global request object (modperl_global.c), *)
(* for a request and the subrequests that its handlers make, run and       *)
(* destroy.  All of them run on one interpreter, one inside the other; the *)
(* interpreter then serves the next request.                               *)
(*                                                                         *)
(* %ENV is abstracted to one variable of each origin: "srv" for a          *)
(* PerlSetEnv of the server, "dir" for one of the location, "cgi" for what *)
(* ap_add_cgi_vars sets, "user" for what the code sets.                    *)
(***************************************************************************)
EXTENDS Naturals, FiniteSets, Sequences, SequencesExt

CONSTANTS
    NULL,
    Subs,       \* the subrequests a request may make
    Specials,   \* the variables saved for a script besides %ENV: @INC, $/, $|
    Confs,      \* the configurations of the locations
    Writes,     \* bound: what the code of handlers assigns to %ENV and tables,
                \* as pairs of a variable and its value
    Writers,    \* bound: the requests whose handlers do so
    Lexical     \* TRUE if a handler is done with a subrequest, and has let go
                \* of it, before it makes the next one or returns

Main == "r"
Requests == {Main} \cup Subs
Vars == {"srv", "dir", "cgi", "user"}

ASSUME RequestAssumption ==
    /\ Main \notin Subs
    /\ NULL \notin Confs /\ NULL \notin Requests /\ NULL # "set"
    /\ "set" \notin Requests /\ Writes \subseteq Vars \X {"set", NULL}
    /\ Lexical \in BOOLEAN
    /\ \A l \in Confs :
         /\ l.handler \in {"modperl", "perl-script"}
         /\ l.setup \in {"on", "off", "unset"}      \* SetupEnv
         /\ l.global \in {"on", "off", "unset"}     \* GlobalRequest
         /\ l.setenv \in BOOLEAN                    \* has a PerlSetEnv

VARIABLES
    req,        \* the requests
    stack,      \* the handlers that run, each called by the one before it:
                \* the request, the kind of handler, and what was current
    hv,         \* the hashes %ENV has had; the last is GvHV(PL_envgv)
    special,    \* the other special variables: 1 if the code changed them
    stdio,      \* the requests that STDIN and STDOUT were opened for
    endav,      \* TRUE while PL_endav is tied: END blocks that are compiled
                \* then are set aside for the end of their script
    tls,        \* MP_tls_request_rec
    stray       \* not in the code: TRUE once %ENV has a CGI variable that the
                \* end of its request will not take out

qvars == <<req, stack, hv, special, stdio, endav, tls, stray>>

\* A request that does not exist; table is r->subprocess_env, the flags are
\* those of modperl_config_req_t, resets are the cleanups that
\* modperl_tls_reset_cleanup registered, oldest first.
NoRequest == [conf |-> NULL, by |-> NULL, ran |-> FALSE,
              table |-> [v \in Vars |-> NULL],
              setup |-> FALSE, srvset |-> FALSE, dirset |-> FALSE,
              setglobal |-> FALSE, cleanup |-> FALSE, resets |-> <<>>,
              globals |-> NULL]

Exists(r) == req[r].conf # NULL
Env == Last(hv)

RequestInit ==
    /\ req = [r \in Requests |-> NoRequest]
    /\ stack = <<>> /\ stdio = <<>> /\ tls = NULL
    /\ hv = <<[vars |-> [v \in Vars |-> IF v = "srv" THEN "conf" ELSE NULL],
               mg |-> NULL]>>
    /\ special = [g \in Specials |-> 0]
    /\ endav = FALSE
    /\ stray = FALSE

-----------------------------------------------------------------------------
(* %ENV.  H is a sequence of hashes, Q the function of requests.           *)

\* modperl_env_table_populate and _unpopulate: the magic is off meanwhile.
TablePopulate(H, t) ==
    [H EXCEPT ![Len(H)].vars = [v \in Vars |-> IF t[v] # NULL THEN t[v] ELSE @[v]]]
TableUnpopulate(H, t) ==
    [H EXCEPT ![Len(H)].vars = [v \in Vars |-> IF t[v] # NULL THEN NULL ELSE @[v]]]

\* modperl_env_configure_request_srv and, unless the callback is per-server,
\* modperl_env_configure_request_dir.  PerlSetEnv of the location replaces
\* what the table holds, that of the server does not.
Only(v) == [w \in Vars |-> IF w = v THEN "conf" ELSE NULL]

ConfigureEnv(H, q) ==
    LET H1 == IF q.srvset THEN H ELSE TablePopulate(H, Only("srv"))
    IN  IF q.dirset \/ ~q.conf.setenv THEN H1 ELSE TablePopulate(H1, Only("dir"))

Configured(q) ==
    [q EXCEPT !.srvset = TRUE, !.dirset = TRUE, !.cleanup = TRUE,
              !.table["srv"] = IF q.srvset \/ @ # NULL THEN @ ELSE "conf",
              !.table["dir"] = IF q.conf.setenv /\ ~q.dirset THEN "conf" ELSE @]

\* Mutant: the flag that makes modperl_env_request_unpopulate run is not set.
AddCgiUnflagged(r, q) ==
    [q EXCEPT !.table["cgi"] = IF q.setup THEN @ ELSE r]

\* modperl_env_request_populate: ap_add_cgi_vars, once, then the whole table.
AddCgi(r, q) ==
    [q EXCEPT !.setup = TRUE, !.table["cgi"] = IF q.setup THEN @ ELSE r]

\* Mutant: the old value is not put back.
GlobalSetForgets(q) == [q EXCEPT !.setglobal = TRUE]

\* modperl_global_request_set.
GlobalSet(q) == [q EXCEPT !.setglobal = TRUE, !.resets = Append(@, tls)]

-----------------------------------------------------------------------------
(* Requests and the phases before the response.                            *)

\* A request comes in, or $r->lookup_uri in a handler: a subrequest starts
\* with a copy of the table of the request that made it.
Create(l, table, by) ==
    [NoRequest EXCEPT !.conf = l, !.table = table, !.by = by]

Begin ==
    /\ stack = <<>> /\ ~Exists(Main)
    /\ \E l \in Confs :
         req' = [req EXCEPT ![Main] = Create(l, NoRequest.table, NULL)]
    /\ UNCHANGED <<stack, hv, special, stdio, endav, tls, stray>>

Running == IF stack = <<>> THEN NULL ELSE Last(stack).r

\* With Lexical, a handler has no subrequest when it makes one or returns.
Subrequests(r) == {s \in Subs : Exists(s) /\ req[s].by = r}
LetGo(r) == Lexical => Subrequests(r) = {}

\* A handler makes a subrequest.
Lookup(s) ==
    /\ stack # <<>> /\ ~Exists(s) /\ LetGo(Running)
    /\ \E l \in Confs :
         req' = [req EXCEPT ![s] = Create(l, req[Running].table, Running)]
    /\ UNCHANGED <<stack, hv, special, stdio, endav, tls, stray>>

\* modperl_global_request_cfg_set.
GlobalWanted(q) == q.conf.global = "on" /\ ~q.setglobal

\* modperl_hook_post_read_request and modperl_hook_header_parser, which httpd
\* does not run for subrequests.
HookGlobal ==
    /\ stack = <<>> /\ Exists(Main) /\ ~req[Main].ran
    /\ GlobalWanted(req[Main])
    /\ req' = [req EXCEPT ![Main] = GlobalSet(@)]
    /\ tls' = Main
    /\ UNCHANGED <<stack, hv, special, stdio, endav, stray>>

\* What is current when a handler is called.
Now == [special |-> special, hash |-> Len(hv), stdio |-> Len(stdio)]
Frame(r, k) == [r |-> r, kind |-> k, was |-> Now]

\* A handler of a phase before the response (modperl_callback_run_handlers).
EarlyHandler(r) ==
    /\ r = Main /\ stack = <<>> /\ Exists(r) /\ ~req[r].ran /\ ~req[r].cleanup
    /\ hv' = ConfigureEnv(hv, req[r])
    /\ req' = [req EXCEPT ![r] = Configured(@)]
    /\ stack' = <<Frame(r, "early")>>
    /\ UNCHANGED <<special, stdio, endav, tls, stray>>

-----------------------------------------------------------------------------
(* The response handlers.                                                  *)

\* httpd runs the response phase of the request, or $subr->run.
MayRespond(r, kind) ==
    /\ Exists(r) /\ ~req[r].ran /\ req[r].conf.handler = kind
    /\ IF r = Main THEN stack = <<>> ELSE req[r].by = Running

\* modperl_response_handler up to the callback.
ResponseModperl(r) ==
    LET q == IF req[r].conf.setup = "on" THEN AddCgi(r, req[r]) ELSE req[r]
        H == IF req[r].conf.setup = "on" THEN TablePopulate(hv, q.table) ELSE hv
    IN
    /\ MayRespond(r, "modperl")
    /\ hv' = ConfigureEnv(H, q)
    /\ req' = [req EXCEPT ![r] = [Configured(q) EXCEPT !.ran = TRUE]]
    /\ stack' = Append(stack, Frame(r, "modperl"))
    /\ UNCHANGED <<special, stdio, endav, tls, stray>>

\* modperl_callback_run_handlers declines, because of PerlOptions -Enable or
\* because no handler is set, before it registers the cleanup of the request.
DeclineModperl(r) ==
    LET on == req[r].conf.setup = "on"
        q  == IF on THEN AddCgi(r, req[r]) ELSE req[r]
    IN
    /\ MayRespond(r, "modperl")
    /\ hv' = IF on THEN TablePopulate(hv, q.table) ELSE hv
    /\ req' = [req EXCEPT ![r] = [q EXCEPT !.ran = TRUE]]
    /\ stray' = (stray \/ (on /\ Len(hv) = 1 /\ ~q.cleanup))
    /\ UNCHANGED <<stack, special, stdio, endav, tls>>

\* Mutant: %ENV is not copied.
SaveNoCopy(H) == H

\* modperl_perl_global_request_save: %ENV becomes a copy, whose magic belongs
\* to no request; @INC and $/ are noted in the request's configuration.
Save(H) == Append(H, [vars |-> Last(H).vars, mg |-> NULL])

\* modperl_io_perlio_override_stdin and _stdout, and _restore_stdin, _stdout.
OverrideStd(r) == stdio' = Append(stdio, r)
RestoreStd == stdio' = Front(stdio)

\* modperl_env_request_tie.
Tie(H, r) == [H EXCEPT ![Len(H)].mg = r]

\* modperl_response_handler_cgi up to the callback.
ResponseCgi(r) ==
    LET l == req[r].conf
        q == IF l.setup # "off" THEN AddCgi(r, req[r]) ELSE req[r]
        H == IF l.setup # "off" THEN TablePopulate(Save(hv), q.table) ELSE Save(hv)
        g == IF l.global # "off" THEN GlobalSet(q) ELSE q
        C == ConfigureEnv(H, g)
    IN
    /\ MayRespond(r, "perl-script")
    /\ hv' = Tie(C, r)
    /\ req' = [req EXCEPT ![r] =
                 [Configured(g) EXCEPT
                    !.ran = TRUE,
                    !.globals = [special |-> special, hash |-> Len(hv)]]]
    /\ tls' = IF l.global # "off" THEN r ELSE tls
    /\ OverrideStd(r)
    /\ endav' = TRUE
    /\ stack' = Append(stack, Frame(r, "perl-script"))
    /\ UNCHANGED <<special, stray>>

\* The same for a perl-script handler: what was saved is put back at once.
DeclineCgi(r) ==
    LET l == req[r].conf
        q == IF l.setup # "off" THEN AddCgi(r, req[r]) ELSE req[r]
        g == IF l.global # "off" THEN GlobalSet(q) ELSE q
    IN
    /\ MayRespond(r, "perl-script")
    /\ req' = [req EXCEPT ![r] =
                 [g EXCEPT
                    !.ran = TRUE,
                    !.globals = [special |-> special, hash |-> Len(hv)]]]
    /\ tls' = IF l.global # "off" THEN r ELSE tls
    /\ endav' = FALSE
    /\ UNCHANGED <<stack, hv, special, stdio, stray>>

ReturnModperl ==
    /\ stack # <<>> /\ Last(stack).kind # "perl-script" /\ LetGo(Running)
    /\ stack' = Front(stack)
    /\ UNCHANGED <<req, hv, special, stdio, endav, tls, stray>>

\* Mutant: the special variables are not put back.
RestoreEnvOnly(g) ==
    /\ hv' = SubSeq(hv, 1, g.hash)
    /\ UNCHANGED special

\* modperl_perl_global_request_restore.
Restore(g) ==
    /\ hv' = SubSeq(hv, 1, g.hash)
    /\ special' = g.special

\* modperl_response_handler_cgi after the callback.
ReturnCgi ==
    LET r == Running IN
    /\ stack # <<>> /\ Last(stack).kind = "perl-script" /\ LetGo(r)
    /\ Restore(req[r].globals)
    /\ RestoreStd
    /\ endav' = FALSE
    /\ stack' = Front(stack)
    /\ UNCHANGED <<req, tls, stray>>

-----------------------------------------------------------------------------
(* What the Perl code of the running handler may do.                       *)

\* $r->subprocess_env in void context, any number of times.
Populate ==
    LET q == AddCgi(Running, req[Running]) IN
    /\ stack # <<>>
    /\ hv' = TablePopulate(hv, q.table)
    /\ req' = [req EXCEPT ![Running] = q]
    /\ UNCHANGED <<stack, special, stdio, endav, tls, stray>>

\* The table of r loses its CGI variable, and the hash that %ENV is outside of
\* scripts keeps it.
Orphans(r, v, val) ==
    v = "cgi" /\ val = NULL /\ r # NULL /\ hv[1].vars["cgi"] = r

\* $r->subprocess_env($v => $val), which is not seen in %ENV; undef unsets.
AssignTable(v, val) ==
    /\ stack # <<>> /\ Running \in Writers
    /\ req' = [req EXCEPT ![Running].table[v] = val]
    /\ stray' = (stray \/ Orphans(Running, v, val))
    /\ UNCHANGED <<stack, hv, special, stdio, endav, tls>>

\* $ENV{v} = ..., delete $ENV{v}: the magic of %ENV passes it on to the table
\* of the request it was tied to (modperl_env_magic_set and _clear).
AssignEnv(v, val) ==
    /\ stack # <<>> /\ Running \in Writers
    /\ hv' = [hv EXCEPT ![Len(hv)].vars[v] = val]
    /\ req' = IF Env.mg = NULL THEN req
              ELSE [req EXCEPT ![Env.mg].table[v] = val]
    /\ stray' = (stray \/ Orphans(Env.mg, v, val))
    /\ UNCHANGED <<stack, special, stdio, endav, tls>>

\* %ENV = () (modperl_env_magic_clear_all).
ClearEnv ==
    /\ stack # <<>> /\ Running \in Writers
    /\ hv' = [hv EXCEPT ![Len(hv)].vars = [v \in Vars |-> NULL]]
    /\ req' = IF Env.mg = NULL THEN req
              ELSE [req EXCEPT ![Env.mg].table = [v \in Vars |-> NULL]]
    /\ stray' = (stray \/ Orphans(Env.mg, "cgi", NULL))
    /\ UNCHANGED <<stack, special, stdio, endav, tls>>

\* push @INC, ...; $/ = ...
AssignSpecial(g) ==
    /\ stack # <<>> /\ Last(stack).kind = "perl-script" /\ special[g] = 0
    /\ special' = [special EXCEPT ![g] = 1]
    /\ UNCHANGED <<req, stack, hv, stdio, endav, tls, stray>>

-----------------------------------------------------------------------------
(* The end of a request: its pool is destroyed.                            *)

\* modperl_config_req_cleanup, on a subpool of r->pool, then the cleanups of
\* r->pool, newest first.
Unpopulated(H, q) ==
    IF q.cleanup /\ q.setup THEN TableUnpopulate(H, q.table) ELSE H

ResetTo(q) == IF q.resets = <<>> THEN tls ELSE Head(q.resets)

\* The Perl object goes away, or the pool of the request that made it.
DestroySub(s) ==
    /\ Exists(s) /\ Subrequests(s) = {}
    /\ \A i \in DOMAIN stack : stack[i].r # s
    /\ Lexical => req[s].by = Running
    /\ hv' = Unpopulated(hv, req[s])
    /\ tls' = ResetTo(req[s])
    /\ req' = [req EXCEPT ![s] = NoRequest]
    /\ UNCHANGED <<stack, special, stdio, endav, stray>>

End ==
    /\ Exists(Main) /\ stack = <<>> /\ req[Main].ran /\ Subrequests(Main) = {}
    /\ hv' = Unpopulated(hv, req[Main])
    /\ tls' = ResetTo(req[Main])
    /\ req' = [req EXCEPT ![Main] = NoRequest]
    /\ stray' = (stray /\ Last(hv').vars["cgi"] \in Requests)
    /\ UNCHANGED <<stack, special, stdio, endav>>

RequestNext ==
    \/ Begin \/ HookGlobal \/ EarlyHandler(Main)
    \/ \E r \in Requests : \/ ResponseModperl(r) \/ DeclineModperl(r)
                           \/ ResponseCgi(r) \/ DeclineCgi(r)
    \/ ReturnModperl \/ ReturnCgi
    \/ Populate \/ ClearEnv
    \/ \E w \in Writes : AssignEnv(w[1], w[2]) \/ AssignTable(w[1], w[2])
    \/ \E g \in Specials : AssignSpecial(g)
    \/ \E s \in Subs : Lookup(s) \/ DestroySub(s)
    \/ End

RequestSpec == RequestInit /\ [][RequestNext]_qvars

-----------------------------------------------------------------------------
Values == Requests \cup {"conf", "set", NULL}
SpecialValues == [Specials -> {0, 1}]

RequestType ==
    [conf : Confs \cup {NULL}, by : Requests \cup {NULL}, ran : BOOLEAN,
     table : [Vars -> Values], setup : BOOLEAN, srvset : BOOLEAN,
     dirset : BOOLEAN, setglobal : BOOLEAN, cleanup : BOOLEAN,
     resets : Seq(Requests \cup {NULL}),
     globals : [special : SpecialValues, hash : Nat] \cup {NULL}]
FrameType == [r : Requests, kind : {"early", "modperl", "perl-script"},
              was : [special : SpecialValues, hash : Nat, stdio : Nat]]
HashType == [vars : [Vars -> Values], mg : Requests \cup {NULL}]

\* Types of the variables; for every hash but the first that %ENV has had there
\* is a pair of handles.
RequestTypeOK ==
    /\ req \in [Requests -> RequestType]
    /\ stack \in Seq(FrameType)
    /\ hv \in Seq(HashType)
    /\ stdio \in Seq(Requests)
    /\ Len(hv) = Len(stdio) + 1
    /\ special \in SpecialValues
    /\ endav \in BOOLEAN
    /\ tls \in Requests \cup {NULL}
    /\ stray \in BOOLEAN

\* The k-th handler that runs is a script, and the one %ENV is tied to.
Script(k) == stack[k].kind = "perl-script"
Innermost(k) == Script(k) /\ \A j \in DOMAIN stack : j > k => ~Script(j)

\* Whatever subrequests ran in between, the script that is running reads and
\* writes its own request: an assignment to %ENV goes to the table of the
\* innermost perl-script request, and STDIN and STDOUT are opened for it.
\* Outside of scripts %ENV is tied to no request and END blocks are Perl's.
OwnEnvAndHandles ==
    /\ \A k \in DOMAIN stack : Innermost(k) =>
         /\ Env.mg = stack[k].r
         /\ stdio # <<>> /\ Last(stdio) = stack[k].r
    /\ (\A k \in DOMAIN stack : ~Script(k)) =>
         /\ Env.mg = NULL
         /\ stdio = <<>>
         /\ ~endav

\* When a perl-script handler returns, @INC and $/, the hash behind %ENV and
\* the standard handles are those that were current when it was called.
SpecialsRestored ==
    [][Len(stack') < Len(stack) /\ Last(stack).kind = "perl-script"
       => Now' = Last(stack).was]_qvars

\* Apache2::RequestUtil->request never returns a request that was destroyed.
GlobalRequestAlive == tls # NULL => Exists(tls)

\* Between requests %ENV holds no CGI variable of a request that is over,
\* except for those that the code leaves there in two ways: a handler took the
\* variable out of r->subprocess_env, whose keys are what the end of the request
\* deletes from %ENV, while the hash outside of scripts had it; or +SetupEnv
\* filled %ENV for a modperl handler that was then declined, before the cleanup
\* of the request was registered.
CgiVarsGone == ~Exists(Main) /\ ~stray => Env.vars["cgi"] \notin Requests

=============================================================================
