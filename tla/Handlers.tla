------------------------------ MODULE Handlers ------------------------------
(***************************************************************************)
(* Perl*Handler lists: how they are configured, merged, modified by        *)
(* $s->push_handlers / set_handlers at startup and $r->push_handlers /     *)
(* set_handlers in a request, and how modperl_callback_run_handlers walks  *)
(* them (modperl_handler.c, modperl_callback.c, and the merges of          *)
(* modperl_config.c).                                                      *)
(*                                                                         *)
(* Lists are apr arrays, and configurations and requests point to them, so *)
(* two of them may point to the same array.  An array is named after what  *)
(* makes it: <<"own", section, phase>> by the directives of a section,     *)
(* <<"merged", owner, phase>> by a merge and <<"request", r, phase>> by a   *)
(* request.  There is a main server, a <VirtualHost> and a <Location>, and *)
(* all requests go to the location on the virtual host.  The startup       *)
(* phases are run for the main server, which is their runner.              *)
(***************************************************************************)
EXTENDS Naturals, Sequences

CONSTANTS
    NULL,
    Handler,        \* the handlers
    Phases,         \* the phases
    Kind,           \* MP_HANDLER_TYPE_ of a phase
    Mode,           \* its run mode: "all", "first" or "void"
    Requests,       \* the requests, running in parallel
    MergeHandlers,  \* the levels, "srv" or "dir", of PerlOptions +MergeHandlers
    MaxLen,         \* bound: handlers in a list
    MaxOps          \* bound: directives and calls that modify lists

VARIABLES
    stage,  \* "config" while the configuration is read, "startup", "serving"
    array,  \* the handlers in an array, none if it has not been made
    conf,   \* the arrays of a section's configuration, by phase
    dcfg,   \* the arrays of the configuration merged for a request
    rcfg,   \* rcfg->handlers_per_dir and handlers_per_srv of a request
    opened, \* the requests that have started
    run,    \* what a runner is running
    ops     \* how many directives and calls there have been

hvars == <<stage, array, conf, dcfg, rcfg, opened, run, ops>>

Sections == {"main", "vhost", "loc"}
Servers == {"main", "vhost"}
PerRequest(ph) == Kind[ph] \in {"dir", "srv"}
Runners == Requests \cup {"server"}
Ids == ({"own"} \X Sections \X Phases)
       \cup ({"merged"} \X (Requests \cup {"vhost"}) \X Phases)
       \cup ({"request"} \X Requests \X Phases)

ASSUME HandlersAssumption ==
    /\ Kind \in [Phases -> {"dir", "srv", "files", "process"}]
    /\ Mode \in [Phases -> {"all", "first", "void"}]
    /\ {"server", "vhost"} \cap Requests = {}
    /\ NULL \notin Ids /\ NULL \notin Nat
    /\ MergeHandlers \subseteq {"srv", "dir"}
    /\ MaxLen \in Nat
    /\ MaxOps \in Nat

Statuses == {"OK", "DECLINED", "ERROR"}

\* The handlers that may be given in one call.
Lists == {<<>>} \cup {<<h>> : h \in Handler} \cup {<<g, h>> : g, h \in Handler}

View(ref) == IF ref = NULL THEN <<>> ELSE array[ref]

\* Not running.  on: in the loop; i: the index of the handler that has been
\* called; av: the array; called: the handlers called so far; stopped: a
\* status ended the phase; reset: how many had been called when set_handlers
\* last replaced the list under the loop.
Idle == [on |-> FALSE, ph |-> NULL, i |-> 0, av |-> NULL, called |-> <<>>,
         stopped |-> FALSE, reset |-> NULL]

RunType == [on : BOOLEAN, ph : Phases \cup {NULL}, i : Nat,
            av : Ids \cup {NULL}, called : Seq(Handler), stopped : BOOLEAN,
            reset : Nat \cup {NULL}]

HandlersInit ==
    /\ stage = "config"
    /\ array = [a \in Ids |-> <<>>]
    /\ conf = [s \in Sections |-> [ph \in Phases |-> NULL]]
    /\ dcfg = [r \in Requests |-> [ph \in Phases |-> NULL]]
    /\ rcfg = [r \in Requests |-> [ph \in Phases |-> NULL]]
    /\ opened = {}
    /\ run = [x \in Runners |-> Idle]
    /\ ops = 0

-----------------------------------------------------------------------------
(* Configuration and merging.                                              *)

CountOp == ops < MaxOps /\ ops' = ops + 1

\* A Perl*Handler directive: modperl_cmd_push_handlers.
ConfigHandler(s, ph, h) ==
    /\ stage = "config"
    /\ s = "loc" => Kind[ph] = "dir"
    /\ LET own == <<"own", s, ph>> IN
       /\ Len(array[own]) < MaxLen
       /\ array' = [array EXCEPT ![own] = Append(@, h)]
       /\ conf' = [conf EXCEPT ![s][ph] = own]
    /\ CountOp
    /\ UNCHANGED <<stage, dcfg, rcfg, opened, run>>

\* The new array of modperl_handler_array_merge: for each handler of base and
\* each of add, unless they are equal, add's is pushed.  Others is the inner
\* loop.
Others(a, h) ==
    LET pushed[j \in 0 .. Len(a)] ==
            IF j = 0 THEN <<>>
            ELSE IF a[j] = h THEN pushed[j - 1]
            ELSE Append(pushed[j - 1], a[j])
    IN  pushed[Len(a)]

ArrayMerge(b, a) ==
    LET mrg[i \in 0 .. Len(b)] ==
            IF i = 0 THEN b ELSE mrg[i - 1] \o Others(a, b[i])
    IN  mrg[Len(b)]

\* MpDirMERGE_HANDLERS and MpSrvMERGE_HANDLERS.
Merges(ph) == (IF Kind[ph] = "dir" THEN "dir" ELSE "srv") \in MergeHandlers

\* merge_handlers: the array that is pointed to after the merge.
MergeRef(ph, base, add, new) ==
    IF add = NULL THEN base
    ELSE IF base = NULL \/ ~Merges(ph) THEN add
    ELSE new

\* The virtual host is merged with the main server and mod_perl starts.
StartServer ==
    LET new(ph) == <<"merged", "vhost", ph>> IN
    /\ stage = "config"
    /\ stage' = "startup"
    /\ conf' = [conf EXCEPT !["vhost"] = [ph \in Phases |->
                   MergeRef(ph, conf["main"][ph], conf["vhost"][ph], new(ph))]]
    /\ array' = [a \in Ids |->
                   IF a[1] = "merged" /\ conf'["vhost"][a[3]] = a
                   THEN ArrayMerge(View(conf["main"][a[3]]),
                                   View(conf["vhost"][a[3]]))
                   ELSE array[a]]
    /\ UNCHANGED <<dcfg, rcfg, opened, run, ops>>

\* $s->push_handlers and $s->set_handlers, in startup code: the configuration
\* is modified directly.
ServerModify(s, ph, action, list) ==
    LET ref == IF conf[s][ph] = NULL THEN <<"own", s, ph>> ELSE conf[s][ph]
        old == IF action = "PUSH" THEN array[ref] ELSE <<>>
    IN
    /\ stage \in {"config", "startup"}
    /\ Len(old \o list) <= MaxLen
    /\ conf' = [conf EXCEPT ![s][ph] = ref]
    /\ array' = [array EXCEPT ![ref] = old \o list]
    /\ run' = [run EXCEPT !["server"].reset =
                  IF /\ run["server"].on /\ action = "SET"
                     /\ run["server"].av = ref
                  THEN Len(run["server"].called) ELSE @]
    /\ CountOp
    /\ UNCHANGED <<stage, dcfg, rcfg, opened>>

\* Startup is over.
Serve ==
    /\ stage = "startup"
    /\ ~run["server"].on
    /\ stage' = "serving"
    /\ UNCHANGED <<array, conf, dcfg, rcfg, opened, run, ops>>

\* A request starts; httpd merges the location's configuration with that of
\* the server (modperl_config_dir_merge).
RequestStart(r) ==
    /\ stage = "serving"
    /\ r \notin opened
    /\ opened' = opened \cup {r}
    /\ dcfg' = [dcfg EXCEPT ![r] = [ph \in Phases |->
                   IF Kind[ph] = "dir"
                   THEN MergeRef(ph, conf["vhost"][ph], conf["loc"][ph],
                                 <<"merged", r, ph>>)
                   ELSE conf["vhost"][ph]]]
    /\ array' = [a \in Ids |->
                   IF a[1] = "merged" /\ a[2] = r /\ dcfg'[r][a[3]] = a
                   THEN ArrayMerge(View(conf["vhost"][a[3]]),
                                   View(conf["loc"][a[3]]))
                   ELSE array[a]]
    /\ UNCHANGED <<stage, conf, rcfg, run, ops>>

-----------------------------------------------------------------------------
(* modperl_callback_run_handlers                                           *)

\* modperl_handler_lookup_handlers, MP_HANDLER_ACTION_GET.  No request has a
\* list of its own for the phases that are run for a server.
Lookup(x, ph) ==
    IF x = "server" THEN conf["main"][ph]
    ELSE IF rcfg[x][ph] # NULL THEN rcfg[x][ph]
    ELSE dcfg[x][ph]

\* The phase begins and, unless its list is empty, the first handler is
\* called.  Without any list nothing happens: DECLINED.
PhaseStart(x, ph) ==
    LET av == Lookup(x, ph)
        list == array[av]
    IN
    /\ IF x = "server" THEN stage = "startup" /\ ~PerRequest(ph)
                       ELSE x \in opened /\ PerRequest(ph)
    /\ ~run[x].on
    /\ av # NULL
    /\ run' = [run EXCEPT ![x] =
                  IF list = <<>> THEN Idle
                  ELSE [Idle EXCEPT !.on = TRUE, !.ph = ph, !.i = 1,
                                    !.av = av, !.called = <<Head(list)>>]]
    /\ UNCHANGED <<stage, array, conf, dcfg, rcfg, opened, ops>>

\* Whether the status a handler returned ends the phase.
Stops(ph, status) ==
    CASE Mode[ph] = "all" -> IF Kind[ph] = "files" THEN status # "OK"
                             ELSE status = "ERROR"
      [] Mode[ph] = "first" -> status # "DECLINED"
      [] Mode[ph] = "void" -> FALSE

\* Mutant: the list is not looked up again.
CallbackReturnStale(x, status) ==
    LET f == run[x]
        ends == Stops(f.ph, status)
    IN
    /\ f.on
    /\ run' = [run EXCEPT ![x] =
                  IF ends \/ f.i >= Len(array[f.av])
                  THEN [Idle EXCEPT !.stopped = ends]
                  ELSE [f EXCEPT !.i = f.i + 1,
                                 !.called = Append(@, array[f.av][f.i + 1])]]
    /\ UNCHANGED <<stage, array, conf, dcfg, rcfg, opened, ops>>

\* The handler returns.  Unless that ends the phase, the list is looked up
\* again, as there may be a new one, and its next handler is called.
CallbackReturn(x, status) ==
    LET f == run[x]
        now == Lookup(x, f.ph)
        av == IF now # NULL THEN now ELSE f.av
        ends == Stops(f.ph, status)
    IN
    /\ f.on
    /\ run' = [run EXCEPT ![x] =
                  IF ends \/ f.i >= Len(array[av])
                  THEN [Idle EXCEPT !.stopped = ends]
                  ELSE [f EXCEPT !.i = f.i + 1, !.av = av,
                                 !.called = Append(@, array[av][f.i + 1])]]
    /\ UNCHANGED <<stage, array, conf, dcfg, rcfg, opened, ops>>

\* Mutant: the configured list is pushed to, not a copy of it.
RequestPushShared(r, ph, list) ==
    LET ref == IF Lookup(r, ph) = NULL THEN <<"request", r, ph>>
               ELSE Lookup(r, ph)
    IN
    /\ run[r].on
    /\ PerRequest(ph)
    /\ Len(array[ref] \o list) <= MaxLen
    /\ array' = [array EXCEPT ![ref] = @ \o list]
    /\ rcfg' = [rcfg EXCEPT ![r][ph] = ref]
    /\ CountOp
    /\ UNCHANGED <<stage, conf, dcfg, opened, run>>

\* Mutant: the configured handlers are not merged into the request's list.
RequestPushOnly(r, ph, list) ==
    LET own == <<"request", r, ph>> IN
    /\ run[r].on
    /\ PerRequest(ph)
    /\ Len(array[own] \o list) <= MaxLen
    /\ array' = [array EXCEPT ![own] = @ \o list]
    /\ rcfg' = [rcfg EXCEPT ![r][ph] = own]
    /\ CountOp
    /\ UNCHANGED <<stage, conf, dcfg, opened, run>>

\* The handler that has been called calls $r->push_handlers: the request has
\* a list of its own from then on, at first a copy of the configured one.
RequestPush(r, ph, list) ==
    LET own == <<"request", r, ph>>
        old == View(Lookup(r, ph))
    IN
    /\ run[r].on
    /\ PerRequest(ph)
    /\ Len(old \o list) <= MaxLen
    /\ array' = [array EXCEPT ![own] = old \o list]
    /\ rcfg' = [rcfg EXCEPT ![r][ph] = own]
    /\ CountOp
    /\ UNCHANGED <<stage, conf, dcfg, opened, run>>

\* The handler that has been called calls $r->set_handlers.
RequestSet(r, ph, list) ==
    LET own == <<"request", r, ph>> IN
    /\ run[r].on
    /\ PerRequest(ph)
    /\ array' = [array EXCEPT ![own] = list]
    /\ rcfg' = [rcfg EXCEPT ![r][ph] = own]
    /\ run' = [run EXCEPT ![r].reset =
                  IF run[r].ph = ph THEN Len(run[r].called) ELSE @]
    /\ CountOp
    /\ UNCHANGED <<stage, conf, dcfg, opened>>

\* check_modify: "too late to modify", the handler dies.
RequestTooLate(r, ph) ==
    /\ ~PerRequest(ph)
    /\ CallbackReturn(r, "ERROR")

HandlersNext ==
    \/ \E s \in Sections, ph \in Phases, h \in Handler : ConfigHandler(s, ph, h)
    \/ StartServer
    \/ \E s \in Servers, ph \in Phases, action \in {"PUSH", "SET"},
          list \in Lists : ServerModify(s, ph, action, list)
    \/ Serve
    \/ \E r \in Requests : RequestStart(r)
    \/ \E x \in Runners, ph \in Phases : PhaseStart(x, ph)
    \/ \E x \in Runners, status \in Statuses : CallbackReturn(x, status)
    \/ \E r \in Requests, ph \in Phases, list \in Lists :
          RequestPush(r, ph, list) \/ RequestSet(r, ph, list)
    \/ \E r \in Requests, ph \in Phases : RequestTooLate(r, ph)

HandlersSpec == HandlersInit /\ [][HandlersNext]_hvars

-----------------------------------------------------------------------------
(* Properties.                                                             *)

\* The lists and the pointers to them have their types; a request only ever
\* has lists that it made itself.
HandlersTypeOK ==
    /\ stage \in {"config", "startup", "serving"}
    /\ array \in [Ids -> Seq(Handler)]
    /\ conf \in [Sections -> [Phases -> Ids \cup {NULL}]]
    /\ dcfg \in [Requests -> [Phases -> Ids \cup {NULL}]]
    /\ rcfg \in [Requests -> [Phases -> Ids \cup {NULL}]]
    /\ opened \in SUBSET Requests
    /\ run \in [Runners -> RunType]
    /\ ops \in 0..MaxOps
    /\ \A r \in Requests, ph \in Phases :
          rcfg[r][ph] \in {NULL, <<"request", r, ph>>}

\* "$r->push/set at request time will create entries in r->request_config":
\* what requests push and set changes no configuration and is not seen by any
\* other request.
RequestsIsolated ==
    [][stage = "serving" =>
         /\ \A s \in Sections, ph \in Phases :
               View(conf[s][ph])' = View(conf[s][ph])
         /\ \A q, r \in Requests : q # r =>
               \/ \A ph \in Phases : View(Lookup(q, ph))' = View(Lookup(q, ph))
               \/ \A ph \in Phases : View(Lookup(r, ph))' = View(Lookup(r, ph))
      ]_hvars

\* However the list grows while the phase runs, every handler in it up to the
\* one being called has been called exactly once, in order, and none other,
\* as long as the list is not replaced.
RunsInOrder ==
    \A x \in Runners :
        run[x].on /\ run[x].reset = NULL =>
            /\ run[x].i <= Len(View(Lookup(x, run[x].ph)))
            /\ run[x].called = SubSeq(View(Lookup(x, run[x].ph)), 1, run[x].i)

\* A phase does not end before every handler has been called, those pushed
\* while it ran included, unless a handler's status ends it.
PhaseRunsAll ==
    [][\A x \in Runners :
         run[x].on /\ ~run'[x].on /\ run[x].reset = NULL =>
            \/ run'[x].stopped
            \/ run[x].called = View(Lookup(x, run[x].ph))]_hvars

=============================================================================
