------------------------------ MODULE Modules ------------------------------
(***************************************************************************)
(* Directives implemented in Perl: Apache2::Module::add and the objects in *)
(* which they keep their arguments (modperl_module.c), which live in a     *)
(* pointer table of each interpreter (modperl_svptr_table.c) under the     *)
(* address of the modperl_module_cfg_t that httpd holds for a section.     *)
(*                                                                         *)
(* At startup the objects are made in the parent interpreter; clones get   *)
(* a copy of its table.  A request merges the sections that apply to it    *)
(* and may read an .htaccess file: it makes structures in its own pool and *)
(* objects for them in the table of its interpreter, which others use      *)
(* after it, while the addresses are used again by any request.            *)
(*                                                                         *)
(* There is one server, one Perl module with one directive, and main       *)
(* requests in scope "request" (PerlInterpScope).                          *)
(***************************************************************************)
EXTENDS Naturals, FiniteSets, Sequences, SequencesExt

CONSTANTS
    NULL, UNDEF,
    Threads,    \* the threads of a threaded MPM; without, only First works
    First,
    Clones,     \* the interpreters of the pool
    Addrs,      \* where a modperl_module_cfg_t can be
    TblMax,     \* tbl_max of a new table (511)
    Cmds,       \* how the module may describe its directive
    Args,       \* the arguments of a directive
    MaxUses     \* bound: uses of the directive in the configuration

\* Structures are aligned, so their addresses are even; the size of a table is
\* a power of two.
ASSUME ModulesAssumption ==
    /\ \A a \in Addrs : a \in Nat \ {0} /\ a % 2 = 0
    /\ TblMax \in {1, 3, 7, 15, 31, 63, 127, 255, 511}
    /\ First \in Threads /\ MaxUses \in Nat
    /\ Threads \cap {NULL, "pconf"} = {} /\ Clones \cap {NULL, "parent"} = {}
    /\ NULL \notin Addrs /\ NULL # "pconf" /\ NULL # UNDEF
    /\ \A x \in {NULL, UNDEF} : x \notin Seq(Seq(Args))

VARIABLES
    threaded,   \* ap_mpm_query(AP_MPMQ_IS_THREADED)
    stage,      \* "start", "config", "serving", or "exited"
    cmd,        \* the directive, and whether the module has a DIR_MERGE
    cfg,        \* the structures: who owns it, and whether ->server is set
    conf,       \* the structures of the server, its directories and <Location>
    said,       \* history: the arguments given for directories and <Location>
    table,      \* the pointer table of each interpreter
    atStart,    \* history: what was in the parent's when serving began
    idle,       \* the interpreters in the pool
    req         \* the request of each thread

mvars == <<threaded, stage, cmd, cfg, conf, said, table, atStart, idle, req>>

Interps == {"parent"} \cup Clones
Free == [owner |-> NULL, server |-> FALSE]

Lowest(S) == {a \in S : \A b \in S : a <= b}

\* Where a new structure is put: at the lowest address that is free, so that the
\* addresses of finished requests are used again at once.
Alloc == Lowest({a \in Addrs : cfg[a] = Free})

-----------------------------------------------------------------------------
(* The pointer table: buckets of <<address, object>> pairs, whose order in *)
(* a chain does not matter as an address is there once.                    *)

\* A null pointer: no table yet.
NoTable == [max |-> 0, items |-> 0, ary |-> [b \in {} |-> {}]]

TableNew == [max |-> TblMax, items |-> 0, ary |-> [b \in 0 .. TblMax |-> {}]]

With(T, key) == {e \in T.ary[key % (T.max + 1)] : e[1] = key}

TableFetch(T, key) ==
    LET hits == With(T, key)
    IN  IF hits = {} THEN NULL ELSE (CHOOSE e \in hits : TRUE)[2]

\* Twice as many buckets: entries that belong in the new half move there.
TableSplit(T) ==
    LET size == T.max + 1
    IN  [max |-> 2 * size - 1, items |-> T.items,
         ary |-> [b \in 0 .. 2 * size - 1 |->
                    {e \in T.ary[b % size] : e[1] % (2 * size) = b}]]

\* The table grows when the new entry is alone in its bucket and there are more
\* entries than buckets but one.
TableStore(T, key, obj) ==
    LET b == key % (T.max + 1)
        old == With(T, key)
        T1 == [T EXCEPT !.ary[b] = (@ \ old) \cup {<<key, obj>>},
                        !.items = IF old = {} THEN @ + 1 ELSE @]
    IN  IF T.ary[b] = {} /\ T1.items > T1.max THEN TableSplit(T1) ELSE T1

\* Mutant: the entry stays, with its object.
TableDeleteKeeps(T, key) == T

TableDelete(T, key) ==
    LET old == With(T, key)
    IN  [T EXCEPT !.ary[key % (T.max + 1)] = @ \ old,
                  !.items = IF old = {} THEN @ ELSE @ - 1]

\* modperl_svptr_table_clone, in modperl_interp_new: the loop ends before the
\* last bucket.
TableClone(T) ==
    IF T = NoTable THEN NoTable
    ELSE [T EXCEPT !.ary = [b \in DOMAIN @ |-> IF b < T.max THEN @[b] ELSE {}]]

\* modperl_module_config_table_get(TRUE)
TableOf(T) == IF T = NoTable THEN TableNew ELSE T

Entries(T) == UNION {T.ary[b] : b \in DOMAIN T.ary}

-----------------------------------------------------------------------------
(* Adding the module.                                                      *)

\* modperl_module_cmd_lookup: how many arguments reach the callback.
CmdLookup == [RAW_ARGS |-> 1, TAKE1 |-> 1, FLAG |-> 1, TAKE2 |-> 2, TAKE3 |-> 3,
              NO_ARGS |-> 0]

\* modperl_module_cmd_fetch: args_how may be left out.
ArgsHow(c) == IF c.how = NULL THEN "TAKE1" ELSE c.how

\* modperl_module_add_cmds: a name is needed, and a known args_how.
AddCmds(c) == c.name # NULL /\ ArgsHow(c) \in DOMAIN CmdLookup

\* modperl_module_add, which ends with ap_single_module_configure: a failure ends
\* the server while it starts.
ModuleAdd(c, merge) ==
    /\ stage = "start"
    /\ IF ~AddCmds(c) THEN stage' = "exited" /\ UNCHANGED <<cmd, cfg, conf>>
       ELSE /\ stage' = "config"
            /\ cmd' = [args |-> CmdLookup[ArgsHow(c)], merge |-> merge]
            /\ \E a \in Alloc, b \in Lowest(Addrs \ Alloc) :
                 /\ conf' = [srv |-> a, dir |-> b, loc |-> NULL]
                 /\ cfg' = [cfg EXCEPT ![a].owner = "pconf", ![b].owner = "pconf"]
    /\ UNCHANGED <<threaded, said, table, atStart, idle, req>>

-----------------------------------------------------------------------------
(* The functions on objects.  W is a pair of an interpreter's table and of *)
(* the structures, C the cleanups that have been registered.               *)

\* What the callbacks of the module do: they append.
Adds(obj, args) ==
    IF {obj, args} \cap {NULL, UNDEF} # {} THEN UNDEF ELSE obj \o args

\* modperl_module_config_obj_cleanup_register, unless at startup.
Register(C, i, a) == IF stage = "serving" THEN Append(C, <<i, a>>) ELSE C

\* modperl_module_config_create_obj: DIR_CREATE or SERVER_CREATE, or an empty
\* hash.
CreateObj(W, i, a) ==
    IF TableFetch(W.t, a) # NULL THEN W
    ELSE [t |-> TableStore(W.t, a, <<>>), f |-> [W.f EXCEPT ![a].server = TRUE],
          c |-> Register(W.c, i, a)]

\* modperl_module_cmd_take123 for the structure a, in interpreter i: the object
\* of the server is made as well, and the callback adds its arguments.
Take123(W, i, a, args) ==
    LET V == CreateObj(CreateObj(W, i, a), i, conf.srv)
    IN  [V EXCEPT !.t = TableStore(@, a, Adds(TableFetch(@, a), args))]

\* What one use of the directive says: its arguments.
Given(v) == <<[n \in 1 .. cmd.args |-> v]>>

\* modperl_module_config_merge once an interpreter is known: DIR_MERGE is taken
\* to append, and may die; without it the later section is taken.  A section is
\* merged once, so that the objects are never the same.
Merge(W, i, base, add, new, dies) ==
    LET b == TableFetch(W.t, base)
        a == TableFetch(W.t, add)
        obj == IF ~cmd.merge THEN a ELSE IF dies THEN UNDEF ELSE Adds(b, a)
    IN  IF b = NULL THEN [now |-> add, W |-> W]
        ELSE [now |-> new,
              W |-> [t |-> TableStore(W.t, new, obj),
                     f |-> [W.f EXCEPT ![new] = [owner |-> @.owner, server |-> TRUE]],
                     c |-> Register(W.c, i, new)]]

\* Apache2::Module::get_config: modperl_module_config_get_obj.
GetObj(T, a) ==
    IF T = NoTable \/ TableFetch(T, a) = NULL THEN UNDEF ELSE TableFetch(T, a)

-----------------------------------------------------------------------------
(* Startup.                                                                *)

\* The directive outside containers, or in <Location>.
Directive(where, v) ==
    /\ stage = "config"
    /\ Len(said.dir) + Len(said.loc) < MaxUses
    /\ \E a \in IF conf[where] # NULL THEN {conf[where]}
                ELSE Alloc :
         LET f == [cfg EXCEPT ![a].owner = "pconf"]
             W == Take123([t |-> TableOf(table["parent"]), f |-> f, c |-> <<>>],
                          "parent", a, Given(v))
         IN  /\ table' = [table EXCEPT !["parent"] = W.t]
             /\ cfg' = W.f
             /\ conf' = [conf EXCEPT ![where] = a]
    /\ said' = [said EXCEPT ![where] = @ \o Given(v)]
    /\ UNCHANGED <<threaded, stage, cmd, atStart, idle, req>>

\* modperl_init_clones
InitClones ==
    /\ stage = "config"
    /\ stage' = "serving"
    /\ table' = IF threaded
                THEN [i \in Interps |-> IF i = "parent" THEN table[i]
                                        ELSE TableClone(table["parent"])]
                ELSE table
    /\ idle' = IF threaded THEN Clones ELSE {}
    /\ atStart' = Entries(table["parent"])
    /\ UNCHANGED <<threaded, cmd, cfg, conf, said, req>>

\* An interpreter has served its number of requests: modperl_perl_destruct
\* destroys its table, and a new clone takes its place.
Replace(i) ==
    /\ stage = "serving" /\ i \in idle
    /\ table' = [table EXCEPT ![i] = TableClone(table["parent"])]
    /\ UNCHANGED <<threaded, stage, cmd, cfg, conf, said, atStart, idle, req>>

-----------------------------------------------------------------------------
(* A request of thread t.  interp is the userdata of r->pool, todo the     *)
(* sections that are still to be merged, now the structure in              *)
(* r->per_dir_config, ht that of the .htaccess file.                       *)

Unselect == 0       \* a cleanup that is not about an address

NoReq == [at |-> "none", interp |-> NULL, todo |-> <<>>, now |-> NULL,
          ht |-> NULL, want |-> <<>>, told |-> <<>>, died |-> FALSE,
          cleanups |-> <<>>, got |-> NULL]

Begin(t) ==
    /\ stage = "serving" /\ req[t] = NoReq
    /\ threaded \/ t = First
    /\ \E todo \in {<<>>, <<"loc">>, <<"ht">>, <<"ht", "loc">>} :
         /\ "loc" \in ToSet(todo) => conf.loc # NULL
         /\ req' = [req EXCEPT ![t] = [NoReq EXCEPT !.at = "walk", !.todo = todo,
                                                    !.now = conf.dir,
                                                    !.want = said.dir]]
    /\ UNCHANGED <<threaded, stage, cmd, cfg, conf, said, table, atStart, idle>>

\* modperl_interp_pool_select, and modperl_interp_select for r->pool: the
\* interpreter found there, or one from the pool, for which the thread may have
\* to wait.
PoolSelect(t) ==
    IF ~threaded THEN {"parent"}
    ELSE IF req[t].interp # NULL THEN {req[t].interp}
    ELSE idle

\* modperl_interp_pool_set: it is given back when the pool is destroyed.
PoolSet(q, i) ==
    IF ~threaded \/ q.interp # NULL THEN q
    ELSE [q EXCEPT !.interp = i, !.cleanups = Append(@, <<i, Unselect>>)]

\* The thread has interpreter i and leaves W behind and its request as q.
Using(t, i, W, q) ==
    /\ idle' = idle \ {i}
    /\ table' = [table EXCEPT ![i] = W.t]
    /\ cfg' = W.f
    /\ req' = [req EXCEPT ![t] = [q EXCEPT !.cleanups = W.c]]
    /\ UNCHANGED <<threaded, stage, cmd, conf, said, atStart>>

World(i, q) == [t |-> TableOf(table[i]), f |-> cfg, c |-> q.cleanups]

\* A directive in the .htaccess file.
HtDirective(t, v) ==
    /\ req[t].at = "walk" /\ req[t].todo # <<>> /\ Head(req[t].todo) = "ht"
    /\ req[t].told = <<>>
    /\ \E i \in PoolSelect(t), a \in Alloc :
         LET q == PoolSet(req[t], i)
             W == World(i, q)
         IN  Using(t, i, Take123([W EXCEPT !.f[a].owner = t], i, a, Given(v)),
                   [q EXCEPT !.ht = a, !.told = Given(v)])

\* DIR_CREATE dies: no object is stored, and the request fails.
HtError(t) ==
    /\ req[t].at = "walk" /\ req[t].todo # <<>> /\ Head(req[t].todo) = "ht"
    /\ req[t].told = <<>>
    /\ \E i \in PoolSelect(t), a \in Alloc :
         LET q == PoolSet(req[t], i)
             W == World(i, q)
         IN  Using(t, i, [W EXCEPT !.f[a] = [owner |-> t, server |-> TRUE]],
                   [q EXCEPT !.at = "ending"])

\* What all the directives of the sections say, merged.
Combined(w, add) ==
    IF add = <<>> THEN w ELSE IF cmd.merge THEN w \o add ELSE add

\* ap_merge_per_dir_configs: the next section, if it has a structure, is merged
\* (modperl_module_config_dir_merge).
MergeSection(t, dies) ==
    LET q0 == req[t]
        sec == Head(q0.todo)
        add == IF sec = "loc" THEN conf.loc ELSE q0.ht
        said1 == IF sec = "loc" THEN said.loc ELSE q0.told
        next(q) == [q EXCEPT !.todo = Tail(@), !.want = Combined(@, said1),
                             !.died = @ \/ (dies /\ cmd.merge)]
    IN
    /\ q0.at = "walk" /\ q0.todo # <<>>
    /\ IF add = NULL \/ ~(cfg[q0.now].server \/ cfg[add].server)
       THEN /\ ~dies
            /\ req' = [req EXCEPT ![t] = next(q0)]
            /\ UNCHANGED <<threaded, stage, cmd, cfg, conf, said, table, atStart,
                           idle>>
       ELSE \E i \in PoolSelect(t), new \in Alloc :
              LET q == PoolSet(q0, i)
                  W == World(i, q)
                  r == Merge(W, i, q.now, add, new, dies)
                  f == IF r.now = new THEN [r.W.f EXCEPT ![new].owner = t]
                       ELSE r.W.f
              IN  Using(t, i, [r.W EXCEPT !.f = f], next([q EXCEPT !.now = r.now]))

\* A handler calls get_config($s, $r->per_dir_config).
Handler(t) ==
    /\ req[t].at = "walk" /\ req[t].todo = <<>>
    /\ \E i \in PoolSelect(t) :
         LET q == PoolSet(req[t], i) IN
         Using(t, i, [t |-> table[i], f |-> cfg, c |-> q.cleanups],
               [q EXCEPT !.at = "ending", !.got = GetObj(table[i], q.now)])

\* Mutant: the oldest cleanup is run first.
PoolCleanupOldest(t) ==
    LET q == req[t]
        c == Head(q.cleanups)
    IN
    /\ q.at = "ending" /\ q.cleanups # <<>>
    /\ req' = [req EXCEPT ![t].cleanups = Tail(@)]
    /\ IF c[2] = Unselect THEN idle' = idle \cup {c[1]} /\ UNCHANGED table
       ELSE /\ table' = [table EXCEPT ![c[1]] = TableDelete(@, c[2])]
            /\ UNCHANGED idle
    /\ UNCHANGED <<threaded, stage, cmd, cfg, conf, said, atStart>>

\* r->pool is destroyed: the newest cleanup (modperl_module_config_obj_cleanup,
\* modperl_interp_unselect), and at last its memory.
PoolCleanup(t) ==
    LET q == req[t]
        c == Last(q.cleanups)
    IN
    /\ q.at = "ending" /\ q.cleanups # <<>>
    /\ req' = [req EXCEPT ![t].cleanups = Front(@)]
    /\ IF c[2] = Unselect THEN idle' = idle \cup {c[1]} /\ UNCHANGED table
       ELSE /\ table' = [table EXCEPT ![c[1]] = TableDelete(@, c[2])]
            /\ UNCHANGED idle
    /\ UNCHANGED <<threaded, stage, cmd, cfg, conf, said, atStart>>

PoolFreed(t) ==
    /\ req[t].at = "ending" /\ req[t].cleanups = <<>>
    /\ req' = [req EXCEPT ![t] = NoReq]
    /\ cfg' = [a \in Addrs |-> IF cfg[a].owner = t THEN Free ELSE cfg[a]]
    /\ UNCHANGED <<threaded, stage, cmd, conf, said, table, atStart, idle>>

-----------------------------------------------------------------------------
ModulesInit ==
    /\ threaded \in BOOLEAN
    /\ stage = "start"
    /\ cmd = [args |-> 0, merge |-> FALSE]
    /\ cfg = [a \in Addrs |-> Free]
    /\ conf = [srv |-> NULL, dir |-> NULL, loc |-> NULL]
    /\ said = [dir |-> <<>>, loc |-> <<>>]
    /\ table = [i \in Interps |-> NoTable]
    /\ atStart = {}
    /\ idle = {}
    /\ req = [t \in Threads |-> NoReq]

RequestStep(t) ==
    \/ \E v \in Args : HtDirective(t, v)
    \/ HtError(t)
    \/ \E dies \in BOOLEAN : MergeSection(t, dies)
    \/ Handler(t) \/ PoolCleanup(t) \/ PoolFreed(t)

ModulesNext ==
    \/ \E c \in Cmds, merge \in BOOLEAN : ModuleAdd(c, merge)
    \/ \E where \in {"dir", "loc"}, v \in Args : Directive(where, v)
    \/ InitClones
    \/ \E i \in Clones : Replace(i)
    \/ \E t \in Threads : Begin(t) \/ RequestStep(t)
    \/ stage = "exited" /\ UNCHANGED mvars

ModulesSpec == ModulesInit /\ [][ModulesNext]_mvars

-----------------------------------------------------------------------------
(* Properties.                                                             *)

\* Types; the tables are what the functions of modperl_svptr_table.c rely on:
\* every entry is in the bucket its address belongs to, no address is there
\* twice, and tbl_items counts them.
ModulesTypeOK ==
    /\ stage \in {"start", "config", "serving", "exited"}
    /\ idle \subseteq Clones
    /\ \A i \in Interps :
         LET T == table[i] IN
         /\ \A b \in DOMAIN T.ary : \A e \in T.ary[b] : e[1] % (T.max + 1) = b
         /\ \A e, f \in Entries(T) : e[1] = f[1] => e = f
         /\ T.items = Cardinality(Entries(T))

\* get_config returns what the directives of the sections that apply to the
\* request say, in their order, whichever interpreter serves it and whatever
\* that interpreter and the addresses were used for before.
ConfigSeen ==
    \A t \in Threads :
        req[t].got # NULL /\ ~req[t].died =>
            req[t].got = IF req[t].want = <<>> THEN UNDEF ELSE req[t].want

\* An interpreter that nobody uses has the objects of the configuration and no
\* others: a request removes from its table what it put there before it gives
\* the interpreter back, and none writes to the parent's while clones are made
\* from it.
TablesRestored ==
    stage = "serving" =>
        \A i \in idle \cup (IF threaded \/ req[First] = NoReq THEN {"parent"} ELSE {}) :
            Entries(table[i]) = atStart

=============================================================================
