------------------------------ MODULE Resolve ------------------------------
(***************************************************************************)
(* How the name in a Perl*Handler or Perl*FilterHandler directive becomes  *)
(* the Perl subroutine that is called (modperl_mgv.c, modperl_handler.c,   *)
(* modperl_callback.c) and how configured filters get into a chain         *)
(* (modperl_filter.c).  The modperl_handler_t structures belong to the     *)
(* configuration: all servers, threads and interpreters share them, while  *)
(* the packages, objects and anonymous subs they name live in one Perl     *)
(* interpreter each.                                                       *)
(*                                                                         *)
(* A <VirtualHost> inherits all handlers of the main server and either     *)
(* shares the main server's interpreters or has its own (+Parent).  Under  *)
(* a threaded MPM requests run on clones of the parent interpreters, which *)
(* are made after the handlers have been looked up at startup.             *)
(***************************************************************************)
EXTENDS Naturals, FiniteSets, Sequences

CONSTANTS
    NULL,
    Code,       \* the packages that exist on disk and what is in them
    Names,      \* the handlers that may be configured, <<name, prefix>>
    Filters,    \* the filters that may be configured
    Added,      \* the packages whose filters are added at run time
    Preloads,   \* what PerlModule may load at startup, a set of sets
    Vivified,   \* the packages user code mentions before they are loaded
    Clones      \* the clones of each parent, under a threaded MPM

Packages == DOMAIN Code
Servers == {"main", "vhost"}
Slots == {"h1", "h2", "f1", "f2"}
Order == <<"h1", "h2", "f1", "f2">>      \* as ap_pcw_walk_config visits them
FilterOrder == <<"f1", "f2">>
Levels == {"conn", "req"}

Prefixes == {"+", "-", "none"}
SubNames == [kind : {"class", "method", "func", "object"}, pkg : Packages]
            \cup [kind : {"anon"}, pkg : {NULL}]
HttpdNames == [kind : {"httpd"}, pkg : {"protocol", "resource"}]

\* A package cannot be loaded when its base class cannot; base classes have no
\* base class of their own.  A clone is an interpreter of its own.
ASSUME ResolveAssumption ==
    /\ NULL \notin Packages
    /\ \A p \in Packages :
         /\ Code[p].loads \in BOOLEAN /\ Code[p].sub \in BOOLEAN
         /\ Code[p].method \in BOOLEAN /\ Code[p].object \in BOOLEAN
         /\ Code[p].isa \in (Packages \cup {NULL}) \ {p}
         /\ Code[p].isa # NULL => Code[Code[p].isa].isa = NULL
         /\ Code[p].loads /\ Code[p].isa # NULL => Code[Code[p].isa].loads
         /\ Code[p].attrs \subseteq {"conn", "req", "hasinit"}
         /\ Code[p].init \in {"none", "good", "bad"}
    /\ Names \subseteq SubNames \X Prefixes
    /\ Filters \subseteq (SubNames \cup HttpdNames) \X Prefixes
    /\ Vivified \subseteq Packages /\ Added \subseteq Packages
    /\ \A L \in Preloads : L \subseteq {p \in Packages : Code[p].loads}
    /\ DOMAIN Clones = Servers
    /\ Clones["main"] \cap Clones["vhost"] = {}
    /\ \A s \in Servers : Clones[s] \cap Servers = {}

VARIABLES
    opt,    \* threaded: the MPM; parent: the virtual host has +Parent;
            \* autoload: PerlOptions +AutoLoad
    stage,  \* "main", "vhost": looking up that server's handlers at startup,
            \* then "clone", then "serving", or "exited"
    conf,   \* the handler structures of the configuration
    perl,   \* the interpreters
    count,  \* MP_global_anon_cnt
    call,   \* the last callback, and what was called
    conn    \* the connection being served, and its filter chain

rvars == <<opt, stage, conf, perl, count, call, conn>>

-----------------------------------------------------------------------------
(* Interpreters.  loaded: %INC; stash: the packages that have a symbol     *)
(* table; anon: the keys of $PL_modglobal{ANONSUB}.                        *)

NewPerl == [loaded |-> {}, stash |-> {}, anon |-> {}]

WithIsa(p) == {p} \cup {q \in Packages : Code[p].isa = q}

\* modperl_require_module: a file that fails to compile leaves its symbol
\* table behind but not its entry in %INC.
Require(P, p) ==
    IF Code[p].loads
    THEN [P EXCEPT !.loaded = @ \cup WithIsa(p), !.stash = @ \cup WithIsa(p)]
    ELSE [P EXCEPT !.stash = @ \cup {p}]

\* gv_fetchmethod: the package whose `handler' sub is found for package p.
FetchMethod(P, p) ==
    IF p \in P.loaded /\ Code[p].sub THEN p
    ELSE IF p \in P.loaded /\ Code[p].isa # NULL /\ Code[Code[p].isa].sub
         THEN Code[p].isa
    ELSE NULL

\* The parent interpreter of a server, and the ones that serve its requests.
ParentOf(s) == IF s = "vhost" /\ opt.parent THEN "vhost" ELSE "main"
CloneIds == UNION {Clones[s] : s \in Servers}
Interps == Servers \cup CloneIds
InterpsOf(s) == IF opt.threaded THEN Clones[ParentOf(s)] ELSE {ParentOf(s)}

-----------------------------------------------------------------------------
(* Handler structures.  A name is [kind, pkg]: "Pkg" (class), "Pkg->handler" *)
(* (method), "Pkg::handler" (func), "$Pkg::obj->handler" (object), 'sub ..' *)
(* (anon) or the name of an httpd filter of type pkg (httpd).  cv: the      *)
(* package in mgv_cv; obj: mgv_obj, a class name, a variable or an anonymous *)
(* sub's id; next: the package of the filter's init handler.                *)

NoObj == [kind |-> "none", pkg |-> NULL, id |-> 0]

\* modperl_handler_new, with the prefix of the name.
NewHandler(name, prefix) ==
    [name |-> name, prefix |-> prefix, auto |-> prefix = "+", parsed |-> FALSE,
     method |-> FALSE, anon |-> FALSE, cv |-> NULL, obj |-> NoObj,
     attrs |-> {}, next |-> NULL]

\* Mutant: a filter's module is loaded when it is first called, like any other.
PushFilterLazy(name, prefix) == NewHandler(name, prefix)

\* modperl_cmd_push_filter_handlers and modperl_cmd_push_httpd_filter_handlers.
PushFilter(name, prefix) ==
    IF name.kind = "httpd"
    THEN [NewHandler(name, prefix) EXCEPT !.attrs = {"httpd"}]
    ELSE [NewHandler(name, prefix) EXCEPT !.auto = prefix # "-"]

\* modperl_handler_dup: a fresh structure with the same name.
Dup(h) == NewHandler(h.name, "none")

-----------------------------------------------------------------------------
(* modperl_mgv_resolve.  The result: st is 1 or 0 as returned, or "croak";  *)
(* the structure, the interpreter and the counter as they are left.        *)

Res(st, h, P, n) == [st |-> st, h |-> h, P |-> P, n |-> n]

\* modperl_handler_anon_next: a new id, and modperl_handler_anon_add: the sub is
\* stored under it.
AnonNext(n) == n + 1
AnonAdd(P, id) == [P EXCEPT !.anon = @ \cup {id}]

\* 'sub { ... }': compiled, and stored under a new id.
ResolveAnon(h, P, n) ==
    Res("1", [h EXCEPT !.parsed = TRUE, !.anon = TRUE,
                       !.obj = [kind |-> "anon", pkg |-> NULL, id |-> AnonNext(n)]],
        AnonAdd(P, AnonNext(n)), AnonNext(n))

\* MPXS_modperl_filter_attributes has recorded the attributes of a sub when its
\* package was compiled.
AttrsOf(q) == Code[q].attrs

\* modperl_filter_resolve_init_handler: the init handler named by the sub's
\* attribute must have the FilterInitHandler attribute.
DeepResolve(h, P, n) ==
    IF "hasinit" \notin h.attrs THEN Res("1", h, P, n)
    ELSE IF Code[h.cv].init = "bad" THEN Res("croak", h, P, n)
    ELSE Res("1", [h EXCEPT !.next = h.cv], P, n)

\* Mutant: the sub is recorded under the configured package.
FoundByName(h, P, n, q) ==
    DeepResolve([h EXCEPT !.attrs = AttrsOf(q), !.cv = h.name.pkg,
                          !.parsed = TRUE], P, n)

\* The sub has been found in package q.
Found(h, P, n, q) ==
    DeepResolve([h EXCEPT !.attrs = AttrsOf(q), !.cv = q, !.parsed = TRUE], P, n)

\* A method handler without an object is called on the class p.
WithClass(h, p, m) ==
    [h EXCEPT !.method = m,
              !.obj = IF m /\ @ = NoObj
                      THEN [kind |-> "class", pkg |-> p, id |-> 0]
                      ELSE @]

\* The end of the function: gv_fetchmethod has found the method of package p in
\* package q, or nowhere.
ResolveMethod(h, P, n, p, q) ==
    IF q = NULL THEN Res(IF h.auto THEN "croak" ELSE "0", h, P, n)
    ELSE Found(WithClass(h, p, h.method \/ Code[q].method), P, n, q)

\* A package name, after the module was loaded (load) or not.
InStash(h, P, n, log, load, p) ==
    IF load /\ p \notin P.loaded THEN Res(IF log THEN "croak" ELSE "0", h, P, n)
    ELSE IF p \notin P.stash THEN Res("0", h, P, n)
    ELSE ResolveMethod(h, P, n, p, FetchMethod(P, p))

\* A package name: the module is loaded first if it may be and `seen', whether
\* its symbol table has been found already, does not stop that.
ResolvePackage(h, P, n, log, seen) ==
    LET p == h.name.pkg
        load == ~seen /\ h.auto /\ p \notin P.loaded
    IN  InStash(h, IF load THEN Require(P, p) ELSE P, n, log, load, p)

Resolve(h, P, n, log) ==
    LET p == h.name.pkg
        o == [h EXCEPT !.method = TRUE,
                       !.obj = [kind |-> "var", pkg |-> p, id |-> 0]]
    IN  CASE h.anon -> Res("1", h, P, n)
          [] ~h.anon /\ h.name.kind = "anon" -> ResolveAnon(h, P, n)
          [] h.name.kind \in {"class", "method"} ->
               LET method == h.name.kind = "method" IN
               ResolvePackage([h EXCEPT !.method = @ \/ method], P, n, log,
                              method /\ p \in P.stash)
          [] h.name.kind = "object" ->
               IF p \in P.loaded /\ Code[p].object
               THEN ResolveMethod(o, P, n, p, FetchMethod(P, p))
               ELSE Res("0", o, P, n)
          [] h.name.kind = "func" ->      \* get_cv, or a package of that name
               IF p \in P.loaded /\ Code[p].sub THEN Found(h, P, n, p)
               ELSE Res(IF h.auto /\ log THEN "croak" ELSE "0", h, P, n)

-----------------------------------------------------------------------------
(* Startup: modperl_mgv_hash_handlers, one server at a time.               *)

\* The loop body of modperl_hash_handlers.  modperl_mgv_lookup of the missing
\* mgv_cv of an anonymous sub ends the process.
HashHandler(s, h, P, n) ==
    LET own == s = "vhost" /\ opt.parent
        g == [h EXCEPT !.auto = @ \/ opt.autoload]
    IN  IF h.name.kind \in {"httpd", "unset"} THEN Res("1", h, P, n)
        ELSE IF ~h.parsed THEN Resolve(g, P, n, TRUE)
        ELSE IF ~(own /\ opt.autoload) THEN Res("1", h, P, n)
        ELSE IF h.anon THEN Res("croak", h, P, n)
        ELSE IF h.cv \in P.loaded THEN Res("1", h, P, n)
        ELSE Res("1", h, Require(P, h.cv), n)

HashHandlers(s) ==
    LET i == ParentOf(s)
        Filled(acc, id, r) == [st |-> r.st, conf |-> [acc.conf EXCEPT ![id] = r.h],
                               P |-> r.P, n |-> r.n]
        Visit(acc, id) ==
            IF acc.st = "croak" THEN acc
            ELSE Filled(acc, id, HashHandler(s, acc.conf[id], acc.P, acc.n))
        visited[k \in 0 .. Len(Order)] ==
            IF k = 0 THEN [st |-> "1", conf |-> conf, P |-> perl[i], n |-> count]
            ELSE Visit(visited[k - 1], Order[k])
    IN  /\ stage = s
        /\ \E end \in {visited[Len(Order)]} :
             /\ stage' = IF end.st = "croak" THEN "exited"
                         ELSE IF s = "main" THEN "vhost" ELSE "clone"
             /\ conf' = end.conf
             /\ perl' = [perl EXCEPT ![i] = end.P]
             /\ count' = end.n
        /\ UNCHANGED <<opt, call, conn>>

\* modperl_init_clones: perl_clone copies packages and anonymous subs.
InitClones ==
    /\ stage = "clone"
    /\ stage' = "serving"
    /\ perl' = [i \in Interps |->
                  IF i \in Clones["main"] THEN perl["main"]
                  ELSE IF i \in Clones["vhost"] THEN perl["vhost"]
                  ELSE perl[i]]
    /\ UNCHANGED <<opt, conf, count, call, conn>>

-----------------------------------------------------------------------------
(* Requests.                                                               *)

\* What modperl_mgv_resolve left, and keep: what the configuration holds then.
Keeping(r, keep) ==
    [st |-> r.st, h |-> r.h, P |-> r.P, n |-> r.n, keep |-> keep]
KeepingResult(r) == Keeping(r, r.h)

\* Mutant: the shared structure itself is filled in.
HandlerResolveShared(h, P, n) ==
    IF h.parsed THEN Keeping(Res("1", h, P, n), h)
    ELSE KeepingResult(Resolve([h EXCEPT !.auto = TRUE], P, n, FALSE))

\* modperl_handler_resolve: threads fill in a copy.
HandlerResolve(h, P, n) ==
    IF h.parsed THEN Keeping(Res("1", h, P, n), h)
    ELSE IF opt.threaded
         THEN Keeping(Resolve([Dup(h) EXCEPT !.auto = TRUE], P, n, FALSE), h)
    ELSE KeepingResult(Resolve([h EXCEPT !.auto = TRUE], P, n, FALSE))

\* Mutant: a server with its own interpreters does not load the module again.
LookupOnly(s, P, q) == P

\* modperl_mgv_lookup_autoload, in an interpreter of server s.
LookupAutoload(s, P, q) ==
    IF q \in P.loaded \/ ~(s = "vhost" /\ opt.parent) THEN P ELSE Require(P, q)

\* modperl_handler_anon_get, in the interpreter that runs the request.
AnonGet(P, id) == id \in P.anon

\* modperl_callback, with the structure that modperl_handler_resolve has filled
\* in: out is "ok" when a sub was called, "error" for HTTP_INTERNAL_SERVER_ERROR,
\* and "exit" when Perl_croak outside any eval, or the missing object, ends the
\* process.
CallResolved(s, r) ==
    LET Out(out, pkg, R) == [out |-> out, pkg |-> pkg, P |-> R, n |-> r.n,
                             keep |-> r.keep]
        CallSub(q, R) == IF q \in R.loaded THEN Out("ok", q, R)
                         ELSE Out("error", NULL, R)
    IN  IF r.st = "croak" THEN Out("exit", NULL, r.P)
        ELSE IF r.st = "0" THEN Out("error", NULL, r.P)
        ELSE IF r.h.obj.kind = "var" /\ r.h.obj.pkg \notin r.P.loaded
             THEN Out("exit", NULL, r.P)
        ELSE IF r.h.anon
             THEN Out(IF AnonGet(r.P, r.h.obj.id) THEN "ok" ELSE "exit", NULL, r.P)
        ELSE CallSub(r.h.cv, LookupAutoload(s, r.P, r.h.cv))

Callback(s, h, P, n) == CallResolved(s, HandlerResolve(h, P, n))

NoCall == [out |-> "none"]

Called(s, i, h, c) ==
    [s |-> s, i |-> i, name |-> h.name, out |-> c.out, pkg |-> c.pkg]

\* A phase of a request on server s runs handler id.
RunHandler(s, i, id) ==
    /\ stage = "serving" /\ i \in InterpsOf(s)
    /\ id \in {"h1", "h2"} /\ conf[id].name.kind # "unset"
    /\ \E c \in {Callback(s, conf[id], perl[i], count)} :
         /\ perl' = [perl EXCEPT ![i] = c.P]
         /\ count' = c.n
         /\ conf' = [conf EXCEPT ![id] = c.keep]
         /\ call' = Called(s, i, conf[id], c)
         /\ stage' = IF c.out = "exit" THEN "exited" ELSE stage
    /\ UNCHANGED <<opt, conn>>

-----------------------------------------------------------------------------
(* Filters.                                                                *)

\* A slot of the configuration that is not used.
NoName == [kind |-> "unset", pkg |-> NULL]
Unset == NewHandler(NoName, "none")

\* No connection.
NoConn == [on |-> "no", s |-> NULL, i |-> NULL, chain |-> <<>>, st |-> "ok"]

\* An entry of a chain: a configured filter, or "rt" and the structure of one
\* added at run time, and its level.
Entry(id, level, h) == [id |-> id, level |-> level, h |-> h]

\* modperl_run_filter_init: the init handler was looked up at startup.
RunInit(s, P, q, fails) ==
    LET Ran(Q) == [P |-> Q, st |-> IF q \in Q.loaded /\ ~fails THEN "ok"
                                   ELSE "failed"]
    IN  Ran(LookupAutoload(s, P, q))

\* An httpd filter may be added to a connection if it is at least PROTOCOL.
TakesConnection(h) ==
    IF "httpd" \in h.attrs THEN h.name.pkg = "protocol" ELSE "conn" \in h.attrs

TakesRequest(h) == "httpd" \in h.attrs \/ "conn" \notin h.attrs

Takes(level, h) == IF level = "conn" THEN TakesConnection(h) ELSE TakesRequest(h)

\* The loop of modperl_filter_add_connection and modperl_filter_add_request:
\* the filters of that level are added, until an init handler fails.
AddFilters(s, P, level, fails) ==
    LET Init(acc, h) == IF "hasinit" \in h.attrs /\ h.next # NULL
                        THEN RunInit(s, acc.P, h.next, fails)
                        ELSE [P |-> acc.P, st |-> "ok"]
        Add(acc, id) ==
            LET h == conf[id] IN
            IF acc.st # "ok" \/ h.name.kind = "unset" \/ ~Takes(level, h) THEN acc
            ELSE [chain |-> Append(acc.chain, Entry(id, level, Unset)),
                  P |-> Init(acc, h).P, st |-> Init(acc, h).st]
        added[k \in 0 .. Len(FilterOrder)] ==
            IF k = 0 THEN [P |-> P, st |-> "ok", chain |-> <<>>]
            ELSE Add(added[k - 1], FilterOrder[k])
    IN  added[Len(FilterOrder)]

\* modperl_hook_pre_connection
Connect(s, i, fails) ==
    /\ stage = "serving" /\ i \in InterpsOf(s)
    /\ conn.on = "no"
    /\ conf["f1"] # Unset         \* without filters there is nothing to add
    /\ \E r \in {AddFilters(s, perl[i], "conn", fails)} :
         /\ conn' = [on |-> "conn", s |-> s, i |-> i, chain |-> r.chain,
                     st |-> r.st]
         /\ perl' = [perl EXCEPT ![i] = r.P]
    /\ call' = NoCall
    /\ UNCHANGED <<opt, stage, conf, count>>

\* The insert_filter hook: modperl_output_filter_add_request.
InsertFilters(fails) ==
    /\ stage = "serving" /\ conn.on = "conn"
    /\ \E r \in {AddFilters(conn.s, perl[conn.i], "req", fails)} :
         /\ conn' = [conn EXCEPT !.on = "req", !.chain = r.chain \o @,
                                 !.st = IF @ = "ok" THEN r.st ELSE @]
         /\ perl' = [perl EXCEPT ![conn.i] = r.P]
    /\ call' = NoCall
    /\ UNCHANGED <<opt, stage, conf, count>>

\* A filter in the chain is called for data: modperl_run_filter.
RunFilter(k) ==
    LET e == conn.chain[k]
        h == IF e.id = "rt" THEN e.h ELSE conf[e.id]
    IN
    /\ stage = "serving" /\ conn.on # "no"
    /\ h.name.kind # "httpd"
    /\ \E c \in {Callback(conn.s, h, perl[conn.i], count)} :
         /\ perl' = [perl EXCEPT ![conn.i] = c.P]
         /\ count' = c.n
         /\ IF e.id = "rt"
            THEN /\ conn' = [conn EXCEPT !.chain[k].h = c.keep]
                 /\ UNCHANGED conf
            ELSE /\ conf' = [conf EXCEPT ![e.id] = c.keep]
                 /\ UNCHANGED conn
         /\ call' = Called(conn.s, conn.i, h, c)
         /\ stage' = IF c.out = "exit" THEN "exited" ELSE stage
    /\ UNCHANGED opt

\* $r->add_output_filter and $c->add_output_filter with the name of a sub of
\* package p: the filter is in the chain before it is looked at.
RuntimeAdd(p, level, fails) ==
    LET h == NewHandler([kind |-> "func", pkg |-> p], "none")
        Kind(g) == IF level = "conn" THEN "conn" \in g.attrs
                   ELSE g.attrs = {} \/ "req" \in g.attrs
        Init(r, ok) == IF ok /\ r.h.next # NULL
                       THEN RunInit(conn.s, r.P, r.h.next, fails)
                       ELSE [P |-> r.P, st |-> IF ok THEN "ok" ELSE "failed"]
    IN
    /\ stage = "serving" /\ conn.on = "req"
    /\ \A k \in 1..Len(conn.chain) : conn.chain[k].id # "rt"
    /\ \E r \in {Resolve(h, perl[conn.i], count, TRUE)} :
       \E run \in {Init(r, r.st = "1" /\ Kind(r.h))} :
         /\ conn' = [conn EXCEPT !.chain = <<Entry("rt", level, r.h)>> \o @,
                                 !.st = IF @ = "ok" THEN run.st ELSE @]
         /\ perl' = [perl EXCEPT ![conn.i] = run.P]
         /\ count' = r.n
    /\ call' = NoCall
    /\ UNCHANGED <<opt, stage, conf>>

Disconnect ==
    /\ conn.on = "req"
    /\ conn' = NoConn
    /\ call' = NoCall
    /\ UNCHANGED <<opt, stage, conf, perl, count>>

-----------------------------------------------------------------------------
\* Configurations: two handlers, or two filters.
Configs ==
    LET H == {NewHandler(f[1], f[2]) : f \in Names}
        F == {PushFilter(f[1], f[2]) : f \in Filters}
        U == {Unset}
    IN  [h1 : H, h2 : H, f1 : U, f2 : U] \cup [h1 : U, h2 : U, f1 : F, f2 : F]

ResolveInit ==
    /\ opt \in [threaded : BOOLEAN, parent : BOOLEAN, autoload : BOOLEAN]
    /\ stage = "main"
    /\ conf \in Configs
    /\ \E L \in Preloads, V \in SUBSET Vivified :
         perl = [i \in Interps |->
                   [NewPerl EXCEPT !.loaded = UNION {WithIsa(p) : p \in L},
                                   !.stash = V \cup UNION {WithIsa(p) : p \in L}]]
    /\ count = 0
    /\ call = NoCall
    /\ conn = NoConn

ResolveNext ==
    \/ \E s \in Servers : HashHandlers(s)
    \/ InitClones
    \/ \E s \in Servers, i \in Interps, id \in Slots : RunHandler(s, i, id)
    \/ \E s \in Servers, i \in Interps, fails \in BOOLEAN : Connect(s, i, fails)
    \/ \E fails \in BOOLEAN : InsertFilters(fails)
    \/ \E k \in 1..Len(conn.chain) : RunFilter(k)
    \/ \E p \in Added, level \in Levels, fails \in BOOLEAN :
         RuntimeAdd(p, level, fails)
    \/ Disconnect

ResolveSpec == ResolveInit /\ [][ResolveNext]_rvars

-----------------------------------------------------------------------------
(* Properties.                                                             *)

NameType == SubNames \cup HttpdNames \cup {NoName}
ObjType == [kind : {"none", "anon", "class", "var"}, pkg : Packages \cup {NULL},
            id : Nat]
HandlerType ==
    [name : NameType, prefix : Prefixes, auto : BOOLEAN, parsed : BOOLEAN,
     method : BOOLEAN, anon : BOOLEAN, cv : Packages \cup {NULL}, obj : ObjType,
     attrs : SUBSET {"conn", "req", "hasinit", "httpd"},
     next : Packages \cup {NULL}]
PerlType == [loaded : SUBSET Packages, stash : SUBSET Packages, anon : SUBSET Nat]
CallType ==
    [s : Servers, i : Interps, name : SubNames, out : {"ok", "error", "exit"},
     pkg : Packages \cup {NULL}]
EntryType == [id : {"f1", "f2", "rt"}, level : Levels, h : HandlerType]
ConnType == [on : {"no", "conn", "req"}, s : Servers \cup {NULL},
             i : Interps \cup {NULL}, chain : Seq(EntryType),
             st : {"ok", "failed"}]

\* Types; a structure that modperl_mgv_resolve has filled in has either a sub or
\* an anonymous sub, whose id was handed out by modperl_handler_anon_next.
ResolveTypeOK ==
    /\ opt \in [threaded : BOOLEAN, parent : BOOLEAN, autoload : BOOLEAN]
    /\ stage \in {"main", "vhost", "clone", "serving", "exited"}
    /\ conf \in [Slots -> HandlerType]
    /\ perl \in [Interps -> PerlType]
    /\ count \in Nat
    /\ call \in CallType \cup {NoCall}
    /\ conn \in ConnType
    /\ \A i \in Interps : perl[i].loaded \subseteq perl[i].stash
    /\ \A i \in Interps : perl[i].anon \subseteq 1..count
    /\ \A id \in Slots :
         LET h == conf[id] IN
         /\ h.parsed => (h.anon <=> h.cv = NULL)
         /\ h.method /\ h.parsed => h.obj # NoObj
         /\ h.next # NULL => "hasinit" \in h.attrs

\* The package whose sub a name denotes, NULL if there is none: read off the
\* packages on disk, without interpreters.
Denotes(name) ==
    LET p == name.pkg
        inherits == Code[p].isa # NULL /\ Code[Code[p].isa].sub
    IN  IF name.kind = "anon" \/ ~Code[p].loads THEN NULL
        ELSE IF Code[p].sub THEN p
        ELSE IF name.kind # "func" /\ inherits THEN Code[p].isa
        ELSE NULL

\* A callback calls the sub its directive names or none: not the one another
\* server or an earlier request left in the shared structure
\* (modperl_mgv_resolve, modperl_callback).
CallsNamedSub ==
    call.out = "ok" => call.pkg = Denotes(call.name)

\* The names that may be relied on: packages that need not be loaded yet, and
\* anonymous subs, subs and objects of packages that the parent of the
\* interpreter has.
Reliable(c) ==
    LET own == c.s = "vhost" /\ opt.parent
        \* Without threads, the virtual host fills in the main server's
        \* structures for itself, and the main server does not load again.
        taken == c.s = "main" /\ opt.parent /\ ~opt.threaded
    IN
    CASE c.name.kind = "class" -> ~taken
      [] c.name.kind = "method" -> ~taken /\ c.name.pkg \notin Vivified
      [] c.name.kind = "anon" -> ~own
      [] OTHER -> opt.threaded /\ c.name.pkg \in perl[ParentOf(c.s)].loaded

\* The names of what can be called: the sub exists, with the object it is called
\* on and the init handler it has declared.
Callable(name) ==
    \/ name.kind = "anon"
    \/ /\ Denotes(name) # NULL
       /\ name.kind = "object" => Code[name.pkg].object
       /\ "hasinit" \in Code[Denotes(name)].attrs
            => Code[Denotes(name)].init # "bad"

\* Such a handler runs whenever it exists, on every server and interpreter and
\* whatever ran there before: modperl_mgv_resolve at startup, the copy made by
\* modperl_handler_resolve and modperl_mgv_lookup_autoload find the same sub.
HandlerAlwaysFound ==
    call # NoCall /\ Reliable(call) =>
        /\ Callable(call.name) => call.out = "ok"
        /\ call.out = "ok" => call.name.kind = "anon" \/ Denotes(call.name) # NULL

\* The level of each filter: a connection filter is added once to the
\* connection and never to a request, any other filter once to the request,
\* so its attributes are known before anything has been called
\* (modperl_filter_add_connection, modperl_filter_add_request).  A filter
\* configured with `-' and never preloaded is exempt.
FilterLevel ==
    conn.on = "req" /\ conn.st = "ok" =>
    \A id \in {"f1", "f2"} :
        LET n == conf[id].name
            At(level) == Cardinality({k \in 1..Len(conn.chain) :
                            conn.chain[k].id = id /\ conn.chain[k].level = level})
        IN  n.kind = "class" /\ conf[id].prefix # "-" /\ Denotes(n) # NULL =>
            IF "conn" \in Code[Denotes(n)].attrs
            THEN At("conn") = 1 /\ At("req") = 0
            ELSE At("conn") = 0 /\ At("req") = 1

\* Threads share the handler structures without a lock: none is written while a
\* threaded MPM serves requests (modperl_handler_resolve copies first).
ConfigFrozen ==
    [][stage = "serving" /\ opt.threaded => UNCHANGED conf]_rvars

=============================================================================
