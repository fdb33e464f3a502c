# mod_perl 2: a TLA+ model of its core

mod_perl embeds Perl interpreters in the Apache httpd server.  Its core is the
C code under `src/modules/perl/`: it decides on which interpreter a thread runs
Perl code and for how long, which handlers run in which phase of a request, and
what the configuration that a request sees is.  This directory models that
core, checks it with TLC on small instances, and proves the most important
invariants with TLAPS for every instance.

## 1. Inventory

| Part | State | Operations | What is hard | What makes it correct |
|---|---|---|---|---|
| Thread item pool (`modperl_tipool.c`) | idle and busy lists, `size`, `in_use`, a mutex and a condition variable | init, pop (grow, block), putback (keep, shrink, replace, not found), destroy | threads barge in between a signal and the wakeup; the signalled item may be destroyed; one signal per putback | counters and lists agree, no item has two owners, no wakeup is lost, every waiting thread is served, `size` stays bounded |
| Interpreter selection (`modperl_interp.c`) | per interpreter `refcnt`, `request`, the PUTBACK flag; userdata of connection, request and subrequest pools; `rcfg->interp` | select, get, unselect, the callers' `MP_INTERP_PUTBACK` | five ways to find an interpreter, four scopes, nested calls (handler, filter, subrequest, response handler), cleanups in an order of their own | Perl code only runs on an interpreter its thread owns; each is put back exactly once; connections end |
| Request hooks and response handlers (`mod_perl.c`) | `rcfg`, the cleanup registration | request creation, `modperl_response_handler`, `_cgi`, cleanups | they select, and so do the handlers they run | see selection |
| APR::Pool cleanups (`xs/APR/Pool/APR__Pool.h`) | cleanup records with a reference to an interpreter | `cleanup_register`, `mpxs_cleanup_run` | they run after the request has ended, in reverse order of registration | the interpreter is still there when they run |
| PerlOptions (`modperl_options.c`) | four bit sets per section | new, set, merge | many sections, two types, three ways to give an option | merging says the same as one section |
| Handler lists and callbacks (`modperl_handler.c`, `modperl_callback.c`) | arrays of handlers in configurations and requests, shared after a merge | directives, merge, push, set, run a phase | a handler modifies the list that is being walked; requests share the configured arrays | every handler is called once in order; requests do not influence each other |
| Other directives and merging (`modperl_cmd.c`, `modperl_config.c`) | PerlSetVar, PerlAddVar, PerlSetEnv, PerlPassEnv tables, PerlRequire lists, switches | the directives, server and directory merges | `add` after `set` over several sections | merging says the same as one section |
| Filters (`modperl_filter.c`) | `modperl_filter_t`: mode, end-of-stream and flush flags, buffered data | read, write, flush, add and remove filters, filter init | streaming over several brigades, errors in the middle | one end of stream, nothing lost or reordered |
| Lifecycle (`mod_perl.c`, `modperl_perl.c`) | parent interpreters, per-vhost pools, clones | startup, child init, clone, child exit, restart | order of destruction; virtual hosts with interpreters of their own | everything is destroyed once, children before their parents |
| Globals and environment (`modperl_perl_global.c`, `modperl_env.c`) | saved `@INC`, END blocks, STDIN/STDOUT; `%ENV` | save and restore around a request, populate and unpopulate | nested requests, errors between save and restore | a request leaves the interpreter as it found it |
| Symbol lookup (`modperl_mgv.c`, parts of `modperl_handler.c`) | `modperl_handler_t` structures shared by servers, threads and interpreters; packages and anonymous subs per interpreter | resolve at startup and at request time, autoload, call | one structure, many interpreters; clones made before a package is loaded | the sub that is named is called, on every interpreter; structures are not written while threads serve |
| Custom directives (`modperl_module.c`, `modperl_svptr_table.c`) | an object per structure, in a pointer table per interpreter | add a module, directive callbacks, merge at request time, `get_config` | addresses are reused; the cleanup that removes an object competes with the one that gives the interpreter back | each request sees its own configuration and leaves nothing behind |
| I/O (`modperl_io*.c`, `modperl_cgi.c`, `Apache2__RequestIO.h`) | write buffer, header parser, STDIN and STDOUT | print, flush, sendfile, read, reopen and restore the handles | headers split over writes; handlers inside handlers | bytes arrive once and in order; handles belong to the running handler |
| SV buckets (`modperl_bucket.c`), utilities | | | conversions and data structures of Perl | |
| ModPerl::Registry, Apache2::Reload, Apache2::SizeLimit, bindings, build system | script cache; none | | | |

How they interact: httpd calls a hook of mod_perl in a worker thread.  The hook
selects an interpreter (which may block in the pool), looks up the handlers of
the phase in the request and in the merged configuration, calls them one after
the other, and puts the interpreter back if the scope says so.  Perl code that
runs may print (and so run filters), make a subrequest (and so run the same
hooks again), register cleanups and modify handler lists.  When httpd destroys
a pool, the cleanups registered with it run handlers and release interpreters.

`PROJECT.json` lists the hazards at their lines.

## 2. Modules

| Module | Models | Used by |
|---|---|---|
| `TIPool` | the thread item pool and its client threads | `MCTIPool`, `Interp`, `InterpProofs` |
| `Interp` | selection and release of interpreters over `TIPool` | `MCInterp`, `InterpProofs` |
| `InterpProofs` | theorems about `TIPool` and, on top of those, `Interp` | |
| `Options` | PerlOptions | `Config` |
| `Config` | the other directives, early start of Perl, merges; extends `Options` | `ConfigProofs` |
| `ConfigProofs` | theorems about `Options` and `Config` | |
| `Handlers` | handler lists, their merge, and the loop that runs a phase | `MCHandlers`, `HandlersProofs` |
| `HandlersProofs` | theorems about `Handlers` | |
| `Resolve` | from the name in a directive to the sub that is called; filter chains | `MCResolve`, `ResolveProofs` |
| `ResolveProofs` | theorems about `Resolve` | |
| `Stream` | abstract: a byte stream with an end | `Filter` |
| `Filter` | write buffer, streaming filters, reading the body; implements `Stream` | `RequestProofs` |
| `Request` | what a request changes in an interpreter: %ENV, special variables, handles, global request | `MCRequest`, `RequestProofs` |
| `RequestProofs` | theorems about `Request` and `Filter` | |
| `Lifecycle` | processes, parent perls, clones, END blocks, teardown, restart | `MCLifecycle`, `LifecycleProofs` |
| `LifecycleProofs` | theorems about `Lifecycle` | |
| `Modules` | directives written in Perl and the pointer tables of their objects | `MCModules`, `ModulesProofs` |
| `ModulesProofs` | theorems about `Modules` | |
| `Induction` | induction over numbers and loops written as recursive functions, for the proofs | `HandlersProofs`, `ResolveProofs`, `ConfigProofs`, `LifecycleProofs`, `RequestProofs` |
| `MC*` | symmetry and function-valued constants for TLC | the runs |

### TIPool

A critical section under `tiplock` is one action, because nothing else touches
the pool while the lock is held.  `COND_WAIT` releases the lock, so it is two:
`PopBlock` (or `ResumeBlock`) puts the thread in `waiting`, a signal or a
spurious return moves it to `woken`, and `ResumeTake`/`ResumeBlock` is the
re-test of the `while` loop in `modperl_tipool_wait` when the thread has the
lock again.  Between the two any other thread may act.  `modperl_tipool_broadcast`
is a macro for `COND_SIGNAL`: it wakes one thread.

The idle list is a sequence, as its order decides which interpreter is used
next; the busy list is only searched by identity and is a set.  `held` and
`quota` are the client's: which items a thread owns and how often it will still
ask.  `Items` are addresses and are reused: a replacement may get the address
just freed.  `PutbackKeep`, `PutbackDestroy` and `PutbackReplace` are the three
outcomes of `modperl_tipool_putback_base`; its tests are named `HurryUp`
(`in_use == max - 1`, the early return), `TooManySpare`, `TooManyRequests`
and `TooFewSpare`.

### Interp

Extends `TIPool`, whose actions it uses for the pool part of its own.  A thread
serves a connection, in it requests, in a request a subrequest; each of the
three has an APR pool, named `"c"`, `"r"`, `"s"`.  A thread's `stack` holds the
frames of mod_perl functions in progress, because they keep an interpreter in a
local variable while Perl code or another hook runs; the comment at the head of
the module lists the kinds of frame.  `Select` is the whole of
`modperl_interp_select` together with what its caller does with the result
(`Enter`), `Unselect` and `Reclaim` are `modperl_interp_unselect`.

Abstractions: the MPM is threaded and all servers share one interpreter pool; the
interpreter scope of handlers without a request is the connection's; a freed
`request_rec` (`FREED`) is treated as one without cleanup handlers, since what
is read from it is arbitrary; `perl_clone` does not fail.

### Options

The four bit sets are sets of options.  The configuration is read section by
section; `cur` is the section being read and `base` what came before, merged.
`whole` is the reference: it gets the same directives, but in one section.
`unsigned` records whether an option was given without `+` or `-`.

### Handlers

Lists are apr arrays that configurations point to, so a merge that copies a
pointer makes two configurations share an array; `array` is the heap, `conf`,
`dcfg` and `rcfg` hold names of arrays.  There is a main server, a virtual
host and a location.  `PhaseStart` and `CallbackReturn` are the loop of
`modperl_callback_run_handlers`: each step of it ends where the next handler has
been called, so that the handler may push and set handlers
(`RequestPush`, `RequestSet`) before it returns.  Which array a phase, a request
or a server has is looked up by `Lookup`, `modperl_handler_lookup_handlers`.
`$s->push_handlers` in a request is not modelled; the code says it is for
startup.  `Others` is the pair of nested loops of `modperl_handler_array_merge`,
as a function of the index, which is how the proofs can walk through it.

### Config

Extends `Options`: the sections, their order and their merge are its, and
`Config` adds to each section the tables of PerlSetVar, PerlAddVar and
PerlSetEnv, PerlInterpScope, the lists of PerlModule, PerlRequire and
PerlPostConfigRequire and the switches.  As in `Options` a second copy gets the
same directives in one section (`tab.whole`).  `TableSet` and `Without`
(apr_table_setn and apr_table_unset) are loops over a sequence of pairs.  `walk`
keeps what httpd does at request time: it merges the containers with each other
first (`some` says whether there was one).  `<Perl>`,
PerlLoadModule and PerlConfigRequire start Perl (`Run`) in the middle of the
configuration; `wanted` records what the directives name.  `AddConfig` is
`$r->add_config`.  Loading is assumed not to change %ENV, and a module that
fails ends startup.

### Resolve

Two handler slots and two filter slots of the configuration, visited in the
order of `ap_pcw_walk_config`, for a main server and a virtual host that
shares its interpreters or has its own (`+Parent`), threaded or not.  `Code`
describes the packages on disk: what they define, inherit, and whether they
load.  `Resolve` is `modperl_mgv_resolve` with a definition for each kind of
name (function, class, method, object, anonymous sub), `HandlerResolve` is
`modperl_handler_resolve` with its copy, `Callback` what `modperl_callback` then
calls.  `Connect`, `InsertFilters` and `RuntimeAdd` build the filter chain of
a connection and of its request.  `HashHandlers` and `AddFilters` are the loops
over the configured handlers and filters, as functions of the index.
`ResolveAssumption` says of the packages that a base class has no base class of
its own (`FetchMethod` looks one level up) and loads if the package does, and of
the clones that they are interpreters of their own; any number of packages and
clones is allowed.

### Stream and Filter

`Stream` has a sender, a receiver and an end that comes after all bytes, unless
the connection breaks.  `Filter` implements it (`ImplementsStream`; the
mapping subtracts the CGI headers and ignores what comes behind EOS).  One
thread does all the work, so `inv`, the `modperl_filter_t` of a running
invocation, and `resp.pending`, the calls the response handler has not finished,
replace a stack.  Bytes are numbers, so a byte that is lost, repeated or out of
order is seen.  The Perl code of the filter reads and prints as it likes within
the streaming API, and may die, decline or remove itself.  A call of the
response handler is a list of items, `resp.pending`, made with `Pass`, `Copy`,
`Flush` and `Direct`; `ResponseStep` executes one, because each pass may run the
filter.  Left out: `$r->sendfile` before the headers that a handler has to print
are parsed; the internal redirect to a local Location in
`modperl_cgi_header_parse` (it ends as OK); an input filter that prints more than
it was asked for.

### Request

One interpreter, a request and subrequests that its handlers look up, run and
destroy, nested as `stack` says.  %ENV has one variable of each origin.  `Save`
and `Restore` are `modperl_perl_global_request_save` and `_restore`; `hv` is the
stack of hashes that `copyENV` makes.  With `Lexical` a handler lets go of a
subrequest before it makes the next one or returns, as `my $subr` does.
A subrequest starts with a copy of the table of the request that made it.
`DeclineModperl` and `DeclineCgi` are the response handlers when
`modperl_callback_run_handlers` declines (`-Enable`, or no handler), before it has
registered the cleanup of the request but after %ENV has been populated.
`AssignEnv` and `ClearEnv` are what the magic of %ENV does with an assignment, a
`delete` and `%ENV = ()`: outside of scripts only the hash changes, in a script
the table of the innermost one does too.  `AssignTable` is
`$r->subprocess_env(key, value)`, which changes the table only; `Populate` is the same
method in void context without arguments.  `Writes` and
`Writers` bound what is assigned and by whose handlers.  `stray` is a history
variable (the code has none like it): it becomes TRUE when one of two things that the code
does leaves a CGI variable in %ENV for good (section 5), and FALSE when a main
request ends without one there.

Left out: the error exits between save and restore (`Perl_croak` in
`modperl_io.c:122` and `:147`, when a handle cannot be opened or STDOUT not be flushed),
so `OwnEnvAndHandles` and `SpecialsRestored` say nothing of a handler that ends
there; the methods of APR::Table other than the above, `local %ENV`.

### Lifecycle

`proc` is the memory of each process; `Fork` copies the parent's.  `HookInit`
creates the two pools and registers cleanups in the order of
`modperl_hook_init`, `Clears` destroys pools and runs cleanups in apr's order
(subpools newest first, cleanups newest first), one cleanup a step.  `conf` gives
each virtual host a kind: shared, `+Parent`, `+Clone`, `-Enable`.  Worker threads
are assumed to be joined before `child_exit`, as the MPMs do.  `Walk` is the set of
perls that `modperl_interp_mip_walk_servers` visits and `Earlier` the order;
`walk` holds those a child that ends has yet to visit.

### Modules

Objects are sequences of what the directives said, one element (the list of its
arguments) for each use, and the callbacks append.  `NoTable` is the null pointer
of an interpreter that has no table yet.  Structures live at even addresses, the lowest free one first, so the
addresses of a finished request are the next one's.  A pointer table has buckets
of pairs; `TableClone` stops before the last bucket as the code does.  A
request walks through `.htaccess` and `<Location>` sections, in this order as
httpd's directory walk comes before its last location walk (`MergeSection`,
`HtDirective`, `HtError`), runs a handler and destroys its pool, cleanup by
cleanup (`PoolCleanup`).  Which interpreter it gets is `PoolSelect`.
Of the ways in which a directive can fail only a dying DIR_CREATE is modelled
(`HtError`).  Left out are a dying SERVER_CREATE or directive callback, which
end the reading in the same way but leave the objects created before, with their
cleanups, in the table, and DECLINE_CMD, after which httpd asks other modules.

## 3. Runs

Passing:

| Run | Shows |
|---|---|
| `tipool_pool` | three threads, a pool of one to two interpreters that grows, shrinks and replaces: `Accounting` (so the PANIC in pop is unreachable), `ExclusiveUse`, `NoLostWakeup`, `NoStrandedWaiter`, `SizeBound`, and under fairness `WaiterServed`, although newcomers barge in |
| `interp_request` | request, subrequest and connection scope in two threads, with response handlers, filters, subrequests, cleanup handlers and APR::Pool cleanups: `RunsOnOwnInterpreter`, `NoDanglingCleanup`, `RefcntExact`, `NothingLeaked`, `OneInterpreterPerRequest`, and no deadlock |
| `interp_handler` | handler scope with response and cleanup handlers: interpreters are unselected twice and by the wrong thread, and still the pool keeps `Accounting` |
| `interp_liveness` | two threads with one interpreter between them: `EverythingEnds` |
| `handlers_requests` | two requests, phases of three types and both run modes, with merged lists: `RunsInOrder`, `RequestsIsolated`, `PhaseRunsAll` |
| `config_sections` | four sections: `AddRemoveDisjoint`, `OptionsReplay`, `VarsReplay`, `MergeAssociative`, `ModulesLoaded`, `SwitchesUsed` |
| `filter_stream` | output and input: `Conserved` (no byte lost, repeated or out of order, no header sent, no buffer overrun), `FlushDelivers`, the refinement `ImplementsStream`, and under fairness `EosEventually` |
| `resolve_handlers` | `CallsNamedSub`, `HandlerAlwaysFound`, `FilterLevel`, `ConfigFrozen` |
| `lifecycle_processes` | `OwnPid`, `EndBlocksOnce`, `NothingLeft`, and `TeardownOrder`, whose parts are `ParentOutlivesClones`, `UserCleanupFirst` and `HooksOutlivePerls` |
| `request_nested` | `OwnEnvAndHandles`, `GlobalRequestAlive`, `CgiVarsGone`, `SpecialsRestored` |
| `modules_objects` | two threads, two interpreters: `ConfigSeen`, `TablesRestored`, and no deadlock, so every interpreter is given back |

Each module also states its type invariant.  Those of `TIPool`, `Options`,
`Config`, `Interp`, `Handlers`, `Resolve`, `Request`, `Filter`, `Lifecycle` and `Modules` are
proved as part of the inductive invariants (section 4); they are not listed among
the properties of the runs, as they say little about the code.

Violated, a disagreement of the code with its documentation:

| Run | Shows |
|---|---|
| `interp_handler_response` | in handler scope `modperl_response_handler` selects an interpreter, the handlers it runs put it back, and it goes on with it |

Bounds.  In the pool three threads for at most two interpreters are the least
number for which one sleeps while one that was signalled and a newcomer compete;
`MaxRequests` 1, `MinSpare` 1, `MaxSpare` 1 and `Max` 2 reach every branch of
putback within two requests per thread; the proofs need no bound.  One more
address than `Max` lets a replacement have a new or the old address.  For
`Interp` two threads are what its properties are about (the pool's interleavings
are `TIPool`'s business); `Max` 3 lets a thread hold one for the connection, one
for the request and one for the subrequest, or leave the last to the other
thread; `Quota` counts connections, requests, handlers, filters and
registrations: six of them in one thread (`OneDeep`) are a handler in a request,
one in its subrequest and one more filter, response or cleanup anywhere, against
a competing thread; `MaxDepth` frames allow a filter below a handler below a
subrequest.  `MaxOps` 3 gives a list two configured handlers and one
modification, or one and two.  Four sections are main server, virtual host and
two containers, with four directives between them.  A buffer of two bytes and
three bytes of data make a write fit, fill the buffer and exceed it; reads of
1, 2 and 4 bytes end within, at and beyond a bucket; two header bytes can come
alone, with the body, or in two writes, which is an error of the header parser.  `MCResolve` has one package for each way in which a
name can be found or missed.  One virtual host of any kind, one child and one restart
are a shared and an own parent before and after a fork.  Two subrequests can be nested or follow each other.
In `request_nested` only the handlers of the main request assign to %ENV, and all they
do is to take the CGI variable out or to clear %ENV: this is what `CgiVarsGone` depends
on, and any more of it makes the state space too large.  The proof is for all
assignments by all handlers.  In `Modules` a new
table has four buckets instead of 512, so that a request splits it, two uses of
the directive and nine addresses (three of the configuration, three per request).
Deadlock is not checked where the bounds (directives, handlers, or handler
scope's own wait) end a behaviour.  Addresses, handlers, requests and
subrequests are symmetric; no symmetry is used where liveness is checked.

Fairness.  `FairSpec`, `InterpFairSpec` and `FilterSpec` assume weak fairness of
every thread's steps: the operating system schedules a thread that can run, a
mutex is granted in the end, and a handler returns.  Nothing is assumed of who
gets the mutex (a woken thread may lose against newcomers as often as there are
requests, which the quota bounds), of spurious wakeups, or of what the client
does.

## 4. Proofs

`InterpProofs` has first, about the pool alone, for every finite set of threads
and addresses and every configuration:

* `PoolIntegrity`: `TypeOK`, `Accounting` and `ExclusiveUse` are invariants.
  They are proved together as `Core`: none is inductive alone, as the guard
  `size # in_use` only implies that the idle list has a head because the
  counters equal the lengths of the lists, and putback only releases what
  its owner has because no one else does.
* `WakeupNotLost`: `NoLostWakeup`, from `Core` and itself.  Each putback adds at
  most one idle item and, when anyone sleeps, exactly one woken thread.
* `WaiterNotStranded`: `NoStrandedWaiter`, if `MinSpare`, `MaxSpare` and `Max`
  are at least 1 (`SpareConfigured`); section 5 says why the assumption is
  needed.
* `SizeBounded`: `SizeBound`, from `Core`.

`ConfigProofs` has first, for any options, defaults and numbers of sections:

* `OptionsIntegrity`: `OptionsTypeOK` and `AddRemoveDisjoint`, through
  `DisjointInv`, which says the same of every option set there is.
* `MergeIsReplay`: `OptionsReplay`, through `ReplayInv`: as long as every option
  has a sign, each set is `Coherent` (an added option is on, a removed one is
  off, UNSET stays), and then a directive commutes with the merge (`MergeSet`)
  and merging an empty section changes nothing (`MergeNew`).

and then, for any options, keys, values, modules and switches and any
number of sections and directives; all that is assumed of the constants is that
NULL is no value and that Parent and InheritSwitches are no per-directory
options:

* `VarsAreReplayed` (`VarsReplay`), from `TablesInv`.  What one key's values are
  after a merge is a lemma about the loops (`ValuesMerged`): those of the outer
  section, unless the inner one sets the key, and then its own.  With it each
  directive commutes with the merge (`MergeSays`), and a section without
  directives changes nothing (`MergeNewTab`).  The tables themselves are not
  equal, since entries of different keys may come in another order; what is
  equal is what each key is said to be.
* `MergeIsAssociative` (`MergeAssociative`), from `WalkInv`: the merge of tables
  and that of options are associative (`MergeTabAssociative`, and
  `OptionsMergeAssociative` as long as UNSET stays, which it does), and what
  the containers have been merged to, merged with what the servers say, is what
  the sections have been merged to.
* `ModulesAreLoaded` (`ModulesLoaded`) and `SwitchesAreUsed` (`SwitchesUsed`), from
  `PerlInv`: what a server wants is on one of its lists or loaded in its
  interpreter, the list is loaded once there is one, a virtual host has an
  interpreter only if the main server has, and an interpreter that is a server's
  own was started with the server's switches as they are.
* `OptionsAmongDirectives`: the two results about options hold in `Config` too,
  whose other directives leave the options alone.
* `ConfigTypes` (`ConfigTypeOK`).

`InterpProofs` has then, about its real client, for every number of levels of
nesting:

* `InterpPoolIntegrity`: in all four scopes `Accounting` and `ExclusiveUse` hold
  for the pool under its real client, although handler scope unselects twice
  and from the wrong frame.  The invariant is `SharedInv`: `Core` of the pool,
  the types, and that no thread is asleep and awake at once.
* With `Pooled`, no handler scope (section 5 and the run
  `interp_handler_response` say why it is left out), from `StashInv`:
  `InterpreterIsOwn` (`RunsOnOwnInterpreter`), `CleanupsNotDangling`
  (`NoDanglingCleanup`), `ReferencesCounted` (`RefcntExact`), `NothingIsLeaked`
  (`NothingLeaked`) and `RequestKeepsInterpreter`
  (`OneInterpreterPerRequest`).  None of them is inductive.  `StashInv` says per
  thread, besides `NoPutback` (no interpreter is marked to be put back by its
  caller): the cleanups and the callbacks in progress for an interpreter are
  `refcnt + 1` for one the thread holds and none for any other (`Counted`);
  each frame's interpreter is stashed, in the userdata and with a cleanup, in
  the pool of the frame's record or of one around it (`FrameOK`); userdata is
  stale only in the pool that is being destroyed, while nothing selects
  (`Settled`, `Quiet`); a pool that is not open is empty (`PoolsOK`); a blocked
  call is for an open record that had no interpreter (`PendOK`).
  The part about one thread is an operator of that thread's values only
  (`OwnInv`), so that a step of another thread needs no argument but that
  nothing of it changes.

`RequestProofs`, for any number of subrequests:

* `EnvAndHandlesOwn` (`OwnEnvAndHandles`) and `ScriptsRestore`
  (`SpecialsRestored`), from `NestingInv`: the hashes that `copyENV` has made
  are as many as scripts are running, in their order (`HashesNested`), what
  each script has saved is what its own end restores (`ScriptsKept`), the
  outermost %ENV is nobody's copy, and `PL_endav` is set aside only while a
  script runs.
* With `Lexical`, `GlobalRequest` (`GlobalRequestAlive`) and `EnvLeftClean`
  (`CgiVarsGone`), from `LexicalInv`: the requests that exist form a line, each
  made by the one before it (`Line`), and the global request is on it (`Tls`).
  `Clean` is about the CGI variable: once a request has populated its table, the
  table has its own value, not the one copied from its parent (`OwnCgi`); and
  unless `stray` holds, the request whose value is in the first %ENV will take it
  out at its end (`Cleans`: it has populated, its cleanup is registered and its table has the
  key), and no script runs when it ends, so that this reaches the first %ENV (`MayOwn`).  Each step
  of a request keeps `Clean` or sets `stray`: `CleanStep` for the request's own
  flags and table, `CleanPush`, `CleanPop` and `CleanGone` for handlers and
  requests that come and go.  Without `Lexical` both are false; section 5 has the
  sequence of calls.
* `ConservedHolds` (`Conserved`), `FlushDeliversHolds` (`FlushDelivers`) and
  `FilterTypeCorrect` (`FilterTypeOK`), about `Filter`, for any size of the buffer,
  any amount of data and of reads, and headers of any length; EOS and FLUSH are
  assumed to be two values that are neither bytes nor data (`FilterConstants`).
  The invariant is `FilterInv` (`FilterInvariant`).  `Conserved` is not inductive:
  that a byte is in its place says nothing of where the next step puts it.
  `FilterInv` adds which calls the response handler can have pending (`Ready`: what
  does not go through its buffer finds that empty, what is copied into it fits, and
  only flushes come around such a call), that while headers are parsed nothing goes past
  the buffer (`Buffered`), that a mark is the last bucket of its brigade (`BrigadeOK`;
  without it `modperl_filter_read` would leave data behind a mark), that a filter
  that has met the end, or has read a brigade dry, has nothing left to read
  (`InvocationOK`), that what an input filter has put in its brigade and the room
  left in it are what the reader wants, and that all that was flushed is before what is
  still in the buffer and in the calls.  Bytes are counted with two operators that
  are homomorphisms of sequences (`GatherFacts`: `Payload`, `BytesOf` and `Calls`
  are instances); `Flow` names the places a byte can be in, and one lemma for each
  way of moving it (`FlowRead`, `FlowPrint`, `FlowPrintOut`) is shared by the actions.
  `FilterReads` is the read itself: what it returns, followed by what it leaves,
  is what was unread before, for every brigade and every length asked for.

`HandlersProofs`, for any handlers, requests and bounds:

* `MergeKeepsAll`: `modperl_handler_array_merge` keeps the base list as a prefix
  and, unless that is empty, loses no handler of the other.
* `HandlersRunInOrder` (`RunsInOrder`), `PhasesRunAll` (`PhaseRunsAll`) and
  `RequestsAreIsolated` (`RequestsIsolated`), from `HandlersInv`
  (`HandlersInvariant`): who may point to which array (`Ownership`), who may
  run in which stage (`Stages`), where a walk stands in the list it looks up
  (`Running`), and that the server's walk is in the main server's array
  (`ServerHolds`).  The order and the isolation need `Ownership`: the list being
  walked is only extended by its own request.

`ResolveProofs`, for any packages, slots and interpreters:

* `CallsAreNamed` (`ResolveTypeOK`, `CallsNamedSub`), from `NamedInv`
  (`NamedInvariant`): every handler structure is empty or holds what the name
  in its directive denotes, an interpreter has loaded only packages that load
  and knows only anonymous subs whose ids the counter has handed out, and a
  filter chain consists of structures of that kind.  The property alone is not inductive, since a
  structure filled in at startup or by one request is called by another.
* `HandlersAreFound` (`HandlerAlwaysFound`), from `NamedInv` and `FoundInv`
  (`FoundInvariant`).  The property is about the last call and says nothing of
  the next.  `FoundInv` says what the interpreter of the next call has: a package
  with its base class, and a symbol table without its module only where user
  code or a failed load left one (`PerlShape`, without which a method handler
  would not load its module); a structure that was filled in at startup names a
  package and an anonymous sub of the main server's interpreter (`Home`), which
  a clone has too; one that startup left empty was left so for both servers
  (`Left`), so a virtual host with its own interpreters never fills in at startup
  what the main server then misses.  The walk of startup is unrolled
  (`HashHandlersIs`) and shown once for each interpreter it may use (`MainWalk`,
  `OwnWalk`); a call is `CallbackMore`, for any state of the structure.
  `Reliable` names the cases that are exempt, each a case in which the code does
  not find the handler (section 5).
* `FilterLevels` (`FilterLevel`), from these and `LevelInv` (`LevelInvariant`): a
  filter whose module is loaded when the directive is read is filled in when
  startup ends, or the process has ended; its attributes are then those of its
  sub for good, and the chain has it at most once at each level (`Placed`),
  before and after the request's filters are put in front.
* `SharedConfigFrozen` (`ConfigFrozen`).

`LifecycleProofs`, for any virtual hosts, children, clones and restarts; the
constants are assumed to be distinct names and `Start` at most `MaxClones`:

* `OwnPidHolds` (`OwnPid`), `EndBlocksOnceHolds` (`EndBlocksOnce`),
  `TeardownOrderHolds` (`TeardownOrder`), `NothingLeftHolds` (`NothingLeft`) and
  `LifecycleTypeCorrect`, from `LInv`.  A step writes the memory of one process,
  so `LInv` is one predicate of each process' memory, `MemOK`, and there is a
  lemma for each operation.  `StackOK`: the cleanups are modperl_sys_term's, the
  main server's pool, then other pools, none twice.  `MipOK`: a server has a
  pool of its own exactly if that pool has a cleanup, until the pools are
  cleared.  `LiveOK`: a perl exists only while its pool has a cleanup, a parent
  perl as long as that, and a clone is idle or runs a request; this makes the
  walk complete (`WalkIsLive`), as it only sees the idle lists.  `EndsOK`: END
  blocks have run once for a perl that is gone and not yet for one that is
  there, unless the process is ending.  `UserOK`: what Perl code registered is
  gone before the first pool is destroyed.  None of the four properties is
  inductive: each needs the stack of cleanups to say what exists.

`ModulesProofs`, for any threads, clones, even addresses, arguments and number of
uses; the constants are assumed to be distinct names and `TblMax` one less than a
power of two, up to the code's 511:

* The operations of `modperl_svptr_table.c` are each shown to do to the set of
  entries what their names say (`FetchFacts`, `StoreFacts`, `DeleteFacts`,
  `SplitFacts`), and to keep the table well formed (`TableOK`).  `CloneFacts`:
  `TableClone` copies everything although it never looks at the last bucket, as
  an even address is in no odd bucket (`EvenMod`) of a table of even size.
* `ModulesTypeCorrect` (`ModulesTypeOK`), `ConfigSeenHolds` (`ConfigSeen`) and
  `TablesRestoredHolds` (`TablesRestored`), from `MInv`.  Neither property is
  inductive: that a table is restored by the cleanups of a request is a
  statement about a request that still runs.  `MInv` says that the entries
  that no pending cleanup will remove are those that were there at the start
  (`Lasting`), that the cleanups of a request are about its own interpreter,
  the oldest of them gives it back (`Shape`), and no other thread has it; that
  the addresses in a request's table belong to it or to the configuration, so
  that a free address has no object anywhere (`FreshFacts`); and that the
  objects of the sections merged so far and of the .htaccess file say what
  their directives said (`WalkOK`, `ConfOK`).  `UsingKeeps` is the step shared
  by all actions of a request: whatever it does on its interpreter, if it
  registers what it adds, nobody else is concerned.

Loops.  The library's induction theorems take an operator as a parameter, which
no installed prover can instantiate.  `Induction` states them for a set
(`Induct`, `Upto`: a set that has 0 and with each number its successor has all)
and for a recursive function as the solution of its equation (`IsLoop`,
`LoopExists`), derived from the existence of a least element (`LeastElement`).
What a loop of the code computes is proved by giving the set of the indices at
which the wanted fact holds.

Only model-checked, and why:

* Liveness (`WaiterServed`, `EverythingEnds`, `EosEventually`) and freedom from
  deadlock: fairness and `ENABLED` are outside of what the provers do.
* The refinement of `Stream` (`ImplementsStream`): it says more than `FilterInv`
  about a stream that is broken (what comes out stays in order, and nothing
  before EOS comes after it), and is left (section 6).

## 5. Further observations

Met while modelling, and not kept as runs.

Interpreters:

* `PerlInterpMinSpare 0`: `modperl_tipool_putback_base` signals a waiting thread
  and may then destroy the last interpreter without a replacement
  (`modperl_tipool.c:365`); the thread waits for ever.
* Handler scope with a PerlCleanupHandler: `modperl_interp_unselect` runs the
  cleanup handlers, which select and release another interpreter for the same
  request, and so on without end (`modperl_interp.c:287`).
* `PerlInterpMaxRequests 1` with `PerlInterpMax 1` (config.pod, "a fresh
  interpreter") never replaces the interpreter: `in_use == max - 1` returns
  first, and the test is `>` and not `>=`.
* A thread that waits does not grow the pool when `size` falls below `max`.
* A Perl connection filter that runs in a request gets a second interpreter, so
  "should only get here once per request" (`modperl_interp.c`) does not hold,
  and with `PerlInterpMax 1` the thread waits for itself; hence no connection
  filter in `interp_liveness`.
* `interp->request` is never cleared and dangles after handler scope.

Configuration and handlers:

* `PerlOptions None` disables nothing: `None` is no bit and UNSET is never
  cleared, so the branch of the merge for an explicit setting is dead.
* `PerlOptions +MergeHandlers` pushes an added handler once per different handler
  of the base list: not at all if that is empty, twice if it has two
  (`modperl_handler.c:279`; config.pod:512 says both run).
* `set_handlers` in the running phase keeps the loop's index and skips handlers.
* A virtual host that inherits a list shares the main server's array, and
  `$s->push_handlers` for one is seen by the other.
* `+InheritSwitches` is ignored when Perl is started before the servers are
  merged.  A virtual host never inherits the lists of PerlModule and PerlRequire,
  the PerlInterp* numbers or PerlInterpScope.  `+Parent` after a PerlModule in a
  virtual host that already shares the interpreter has no effect.
* `PerlOptions -Enable` in a virtual host (config.pod:268-275) leaves
  `scfg->mip` NULL under ithreads (`mod_perl.c:391`), which
  `modperl_init_clones` and the lookup of handlers dereference at startup:
  `Lifecycle` ends such a startup in phase "crashed".

Names:

* `Perl_croak` in `modperl_mgv_resolve` is outside any eval and ends the process.
* Without threads the first request of a `+Parent` virtual host fills in the
  structure it shares with the main server.
* An anonymous handler inherited by a `+Parent` virtual host is not found there,
  nor is an object handler whose package is not loaded.
* A package mentioned before it is loaded has a symbol table, which keeps
  `Pkg->handler` from loading it (`modperl_mgv.c:310`).
* `modperl_filter_runtime_add` leaves a filter that it refuses in the chain; the
  test for one that is registered already never succeeds; a filter configured
  with `-` gets its attributes after its first call.

Filters and I/O:

* A FLUSH in the middle of a brigade ends the loop of `modperl_filter_read`, and
  what follows it in the brigade is only read if the filter's code reads on.
* CGI headers that are incomplete in the first write are an error, and the rest
  of them goes out as body.
* `modperl_request_read` drops bytes of a brigade beyond those asked for.
* A filter that dies still sends the end of the stream.

Lifecycle:

* `mod_perl.c:144` says that server_user_pool is a subpool of server_pool; both
  are subpools of pconf, and only the order of creation makes it work.
* An END block that dies while the parent restarts ends the parent.

Requests:

* The restore of a nested perl-script handler unties `PL_endav`, so END blocks
  compiled afterwards in the outer one are not set aside (coding.pod:684).
* Destroying a subrequest with SetupEnv deletes variables of PerlSetEnv from the
  %ENV of the handler that made it (`modperl_config.c:365`, config.pod:697).
* A handler that keeps subrequests and destroys them out of order leaves the
  global request dangling (`modperl_global.c:36`); hence `Lexical` in the run.
* CGI variables do stay in %ENV for the next request, against the comment at
  `modperl_config.c:365` ("so the values won't persist"), in two ways, which
  `CgiVarsGone` excepts with `stray`; without the exception TLC finds both.  A
  variable is deleted through the tied %ENV of a perl-script, by `%ENV = ()` there
  or by `$r->subprocess_env(key, undef)` (`modperl_env.c:517` and `:564`,
  `Apache2__RequestRec.h:87`) after `$r->subprocess_env` in an earlier handler has
  put it into the %ENV outside of scripts: `modperl_env_request_unpopulate` only
  deletes the keys the table has.  Or a location with
  `SetHandler modperl` and `+SetupEnv` has no PerlResponseHandler, or `-Enable`:
  `modperl_response_handler` fills %ENV (`mod_perl.c:1035`) and
  `modperl_callback_run_handlers` declines before it registers the cleanup
  (`modperl_callback.c:165-185`, `:208`).
* A PerlSetEnv of a location, or a variable that a handler sets outside of
  scripts, stays in %ENV for the next request without SetupEnv; `CgiVarsGone` is
  about CGI variables only.

Custom directives:

* Cloning and destroying a pointer table skips its last bucket; harmless, since
  addresses are even.
* Under a threaded MPM a subrequest merges on an interpreter popped for its own
  pool while its handlers run on the main request's, so `get_config` returns
  undef; the same holds for the scopes handler and connection.  Hence main
  requests in scope request.
* A directive in .htaccess writes `->server` of the server's shared structure.
* A directive described by an object with `args_how` RAW_ARGS (0, false) is taken
  for TAKE1.

## 6. Plan

What is left, in this order:

1. Proofs: the refinement of `Stream` by `Filter`, and `TIPool` as an implementation
   of an abstract allocator.
2. The doubly linked lists of `modperl_tipool.c` at the level of their pointers,
   as an implementation of the sequence and the set of `TIPool`.
3. Virtual hosts and SERVER_MERGE in `Modules`.

Not modelled: the bindings and the build system (generated or without run time
behaviour), conversions, constants, logging and tracing, APR::PerlIO and SV
buckets (they forward data), filters that work on brigades (their Perl code does
the work), perl_clone and the rest of Perl, Registry, Reload and SizeLimit
(Perl programs on top of the core).
