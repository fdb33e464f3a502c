------------------------------- MODULE Config -------------------------------
(***************************************************************************)
(* The configuration directives that are not handlers (modperl_cmd.c) and  *)
(* how their values are merged (modperl_config.c), on top of PerlOptions   *)
(* and its sections (module Options).                                      *)
(*                                                                         *)
(* Reading the configuration may start Perl early: <Perl> sections,        *)
(* PerlLoadModule and PerlConfigRequire call modperl_run, and from then on *)
(* PerlModule and PerlRequire load at once what they otherwise leave to    *)
(* startup.  The first section is the main server, the second may be a     *)
(* <VirtualHost>, and the others are containers.                           *)
(***************************************************************************)
EXTENDS Options, Sequences

CONSTANTS
    NULL,
    Parent,      \* the option Parent of a virtual host
    Inherit,     \* the option InheritSwitches
    Keys, Vals,  \* of PerlSetVar, PerlAddVar and PerlSetEnv
    Modules,     \* what PerlModule and PerlRequire load
    Switches     \* the arguments of PerlSwitches

ASSUME ConfigAssumption ==
    /\ {Parent, Inherit} \cap DirOptions = {}
    /\ NULL \notin Vals
    /\ NULL \notin {"main", "vhost", "handler", "connection"}

VARIABLES
    tab,     \* the tables: of the sections merged so far (base), of the section
             \* being read (cur) and of one section with all the directives
             \* (whole)
    walk,    \* what the servers say about directories (top), whether there were
             \* containers before this one (some) and what they say, merged with
             \* each other (now)
    server,  \* the server whose section is being read
    scfg,    \* the lists of a server's configuration
    vopts,   \* the options of the virtual host's own section
    perl,    \* the interpreters
    wanted,  \* history: what the directives of a server load
    stage,   \* "reading", "started", "serving"
    req      \* the tables that apply to a request, once it has changed them

configVars == <<tab, walk, server, scfg, vopts, perl, wanted, stage, req>>
allVars == <<optionsVars, configVars>>

Servers == {"main", "vhost"}

-----------------------------------------------------------------------------
(* Tables.  vars: configvars, a sequence of pairs; set: the keys of setvars; *)
(* env: SetEnv; scope: PerlInterpScope.                                      *)

NewTab == [vars |-> <<>>, set |-> {}, env |-> [k \in Keys |-> NULL],
           scope |-> NULL]
NewTabs == [srv |-> NewTab, dir |-> NewTab]

\* apr_table_setn: the first entry with the key is replaced, the others are
\* removed.
TableSet(t, k, v) ==
    LET Has(i) == \E j \in 1 .. i : t[j][1] = k
        set[i \in 0 .. Len(t)] ==
            IF i = 0 THEN <<>>
            ELSE IF t[i][1] # k THEN Append(set[i - 1], t[i])
            ELSE IF Has(i - 1) THEN set[i - 1]
            ELSE Append(set[i - 1], <<k, v>>)
    IN  IF Has(Len(t)) THEN set[Len(t)] ELSE Append(t, <<k, v>>)

\* apr_table_unset of the keys in K
Without(t, K) ==
    LET kept[i \in 0 .. Len(t)] ==
            IF i = 0 THEN <<>>
            ELSE IF t[i][1] \in K THEN kept[i - 1]
            ELSE Append(kept[i - 1], t[i])
    IN  kept[Len(t)]

\* modperl_cmd_setvar_func and modperl_cmd_addvar_func
SetVar(t, k, v) == [t EXCEPT !.vars = TableSet(@, k, v), !.set = @ \cup {k}]
AddVar(t, k, v) == [t EXCEPT !.vars = Append(@, <<k, v>>)]
SetEnv(t, k, v) == [t EXCEPT !.env[k] = v]
SetScope(t, x) == [t EXCEPT !.scope = x]

\* Mutant: PerlSetVar in a section adds to what the sections around it say.
MergeVarsKeeps(b, unset, a) == b \o a

\* merge_config_add_vars
MergeVars(b, unset, a) == Without(b, unset) \o a

\* Mutant: what was set is forgotten once it has been merged.
MergeTabForgets(b, a) ==
    [vars |-> MergeVars(b.vars, a.set, a.vars), set |-> b.set,
     env |-> [k \in Keys |-> IF a.env[k] # NULL THEN a.env[k] ELSE b.env[k]],
     scope |-> IF a.scope # NULL THEN a.scope ELSE b.scope]

\* modperl_config_dir_merge, and the tables of modperl_config_srv_merge:
\* modperl_table_overlap and merge_item.
MergeTab(b, a) ==
    [vars |-> MergeVars(b.vars, a.set, a.vars), set |-> b.set \cup a.set,
     env |-> [k \in Keys |-> IF a.env[k] # NULL THEN a.env[k] ELSE b.env[k]],
     scope |-> IF a.scope # NULL THEN a.scope ELSE b.scope]

\* What applies in the section being read.
MergedTab ==
    IF section = 1 THEN tab.cur
    ELSE [srv |-> IF container THEN tab.base.srv
                  ELSE MergeTab(tab.base.srv, tab.cur.srv),
          dir |-> MergeTab(tab.base.dir, tab.cur.dir)]

-----------------------------------------------------------------------------
(* Interpreters.  mip: the interpreter of a server, NULL before it has one; *)
(* loaded: what has been required in it; argv: what it was started with.    *)

NewPerl == [running |-> FALSE, mip |-> [s \in Servers |-> NULL],
            loaded |-> [s \in Servers |-> {}], argv |-> [s \in Servers |-> {}]]

\* modperl_config_apply_PerlModule and _PerlRequire.  One that fails to load
\* ends startup.
Apply(loaded, c) == loaded \cup c.list

\* Mutant: an inherited interpreter is not given the virtual host's modules.
InitVhostNoModules(P, opts, c) ==
    IF P.mip["vhost"] # NULL THEN P
    ELSE IF Parent \in opts
         THEN [P EXCEPT !.mip["vhost"] = "vhost", !.loaded["vhost"] = c.list,
                        !.argv["vhost"] = c.argv]
    ELSE [P EXCEPT !.mip["vhost"] = "main"]

\* modperl_init_vhost: its own interpreter (modperl_startup) or the main
\* server's, and modperl_config_apply_PerlRequire, _PerlModule.
InitVhost(P, opts, c) ==
    IF P.mip["vhost"] # NULL THEN P
    ELSE IF Parent \in opts
         THEN [P EXCEPT !.mip["vhost"] = "vhost",
                        !.loaded["vhost"] = Apply({}, c),
                        !.argv["vhost"] = c.argv]
    ELSE [P EXCEPT !.mip["vhost"] = "main", !.loaded["main"] = Apply(@, c)]

\* modperl_startup of the main server
StartMain(P) ==
    [P EXCEPT !.running = TRUE, !.mip["main"] = "main",
              !.loaded["main"] = Apply(@, scfg["main"]),
              !.argv["main"] = scfg["main"].argv]

\* The options in a virtual host's own section, before it is merged.
OwnOptions == IF server = "vhost" /\ ~container THEN cur.srv.opts ELSE vopts

Vhost(P) ==
    IF server = "vhost" THEN InitVhost(P, OwnOptions, scfg["vhost"]) ELSE P

\* modperl_run, while the configuration is being read: the main server, and the
\* virtual hosts read so far.
Run(P) == IF P.running THEN P ELSE Vhost(StartMain(P))

-----------------------------------------------------------------------------
(* Directives.                                                             *)

Directive ==
    /\ stage = "reading"
    /\ ~refused
    /\ directives < MaxDirectives
    /\ directives' = directives + 1
    /\ UNCHANGED <<base, cur, whole, section, container, unsigned>>

\* The section being read and the single section, changed by Op.
Tables(Op(_), srv) ==
    LET Both(t) == [srv |-> IF srv THEN Op(t.srv) ELSE t.srv,
                    dir |-> Op(t.dir)]
    IN  tab' = [tab EXCEPT !.cur = Both(@), !.whole = Both(@)]

\* modperl_cmd_modvar: also per server outside a container.
PerlSetVar(k, v) ==
    /\ Directive
    /\ Tables(LAMBDA t : SetVar(t, k, v), ~container)
    /\ UNCHANGED <<refused, walk, server, scfg, vopts, perl, wanted, stage, req>>

PerlAddVar(k, v) ==
    /\ Directive
    /\ Tables(LAMBDA t : AddVar(t, k, v), ~container)
    /\ UNCHANGED <<refused, walk, server, scfg, vopts, perl, wanted, stage, req>>

PerlSetEnv(k, v) ==
    /\ Directive
    /\ Tables(LAMBDA t : SetEnv(t, k, v), ~container)
    /\ UNCHANGED <<refused, walk, server, scfg, vopts, perl, wanted, stage, req>>

\* PerlInterpScope: of the directory in a container, else of the server, and
\* "connection" only there.
PerlInterpScope(x) ==
    LET Both(t) == IF container THEN [t EXCEPT !.dir = SetScope(@, x)]
                   ELSE [t EXCEPT !.srv = SetScope(@, x)]
    IN
    /\ Directive
    /\ refused' = (container /\ x = "connection")
    /\ tab' = IF refused' THEN tab
              ELSE [tab EXCEPT !.cur = Both(@), !.whole = Both(@)]
    /\ UNCHANGED <<walk, server, scfg, vopts, perl, wanted, stage, req>>

\* MP_CHECK_SERVER_OR_HTACCESS_CONTEXT
InContainer == container

\* modperl_cmd_modules and modperl_cmd_requires; early: after modperl_run.
\* Loading a module is assumed to leave the configured keys of %ENV alone.
PerlModule(m, early) ==
    LET P == IF early THEN Run(perl) ELSE perl
        Q == Vhost(P)
    IN
    /\ Directive
    /\ refused' = InContainer
    /\ wanted' = [wanted EXCEPT ![server] = IF refused' THEN @ ELSE @ \cup {m}]
    /\ IF ~refused' /\ P.running
       THEN perl' = [Q EXCEPT !.loaded[Q.mip[server]] = @ \cup {m}]
       ELSE perl' = P
    /\ IF ~refused' /\ ~P.running
       THEN scfg' = [scfg EXCEPT ![server].list = @ \cup {m}]
       ELSE UNCHANGED scfg
    /\ UNCHANGED <<tab, walk, server, vopts, stage, req>>

\* PerlLoadModule and PerlConfigRequire start Perl first.
PerlLoadModule(m) == PerlModule(m, TRUE)

\* PerlPostConfigRequire
PerlPostConfigRequire(m) ==
    /\ Directive
    /\ scfg' = [scfg EXCEPT ![server].post = @ \cup {m}]
    /\ wanted' = [wanted EXCEPT ![server] = @ \cup {m}]
    /\ UNCHANGED <<refused, tab, walk, server, vopts, perl, stage, req>>

\* <Perl> sections: modperl_cmd_perl, modperl_cmd_perldo.
PerlSection ==
    /\ Directive
    /\ refused' = InContainer
    /\ perl' = IF refused' THEN perl ELSE Vhost(Run(perl))
    /\ UNCHANGED <<tab, walk, server, scfg, vopts, wanted, stage, req>>

\* modperl_vhost_is_running
IsRunning == IF server = "vhost" THEN perl.mip["vhost"] # NULL ELSE perl.running

\* Mutant: only the main server's interpreter is asked for.
SwitchesAnyTime(x) ==
    /\ Directive
    /\ ~container
    /\ refused' = (server = "main" /\ perl.running)
    /\ scfg' = [scfg EXCEPT ![server].argv = IF refused' THEN @ ELSE @ \cup {x}]
    /\ UNCHANGED <<tab, walk, server, vopts, perl, wanted, stage, req>>

\* PerlSwitches, and PerlTaintCheck and PerlWarn: too late once it runs.
PerlSwitches(x) ==
    /\ Directive
    /\ ~container
    /\ refused' = IsRunning
    /\ scfg' = [scfg EXCEPT ![server].argv = IF refused' THEN @ ELSE @ \cup {x}]
    /\ UNCHANGED <<tab, walk, server, vopts, perl, wanted, stage, req>>

-----------------------------------------------------------------------------
(* Sections, the end of the configuration and startup.                     *)

\* httpd merges the containers of a request with each other (ap_location_walk)
\* before it merges them with the server's.
Dir(t, o) == [tab |-> t, opts |-> o]
NewDir == Dir(NewTab, OptionsNew({}))
MergeDir(b, a) == Dir(MergeTab(b.tab, a.tab), OptionsMerge(b.opts, a.opts))
ThisDir == Dir(tab.cur.dir, cur.dir)
Now == IF walk.some THEN MergeDir(walk.now, ThisDir) ELSE ThisDir

ConfigSection(isContainer) ==
    /\ stage = "reading"
    /\ NextSection(isContainer)
    /\ tab' = [tab EXCEPT !.base = MergedTab, !.cur = NewTabs]
    /\ walk' = IF container THEN [walk EXCEPT !.some = TRUE, !.now = Now]
               ELSE [walk EXCEPT !.top = Dir(MergedTab.dir, Merged.dir)]
    /\ server' = IF isContainer THEN server ELSE "vhost"
    /\ vopts' = OwnOptions
    /\ UNCHANGED <<scfg, perl, wanted, stage, req>>

ConfigOptions(sign, option) ==
    /\ stage = "reading"
    /\ PerlOptions(sign, option)
    /\ UNCHANGED configVars

\* The virtual host's configuration is merged: modperl_config_srv_merge starts
\* its interpreter if Perl is running, and modperl_hook_init starts Perl if it
\* is not.  A virtual host's PerlModule list is never NULL, so it is not
\* inherited; its switches are, with InheritSwitches.
StartServers ==
    LET c == [scfg["vhost"] EXCEPT
                !.argv = IF Inherit \in OwnOptions THEN scfg["main"].argv ELSE @]
        merged == InitVhost(StartMain(perl), Merged.srv.opts, c)
    IN
    /\ stage = "reading" /\ ~refused
    /\ stage' = "started"
    /\ perl' = IF perl.running THEN Vhost(perl)
               ELSE IF server = "vhost" THEN merged ELSE StartMain(perl)
    /\ scfg' = [scfg EXCEPT !["vhost"] = c]
    /\ UNCHANGED <<optionsVars, tab, walk, server, vopts, wanted, req>>

\* modperl_post_config_require
PostConfig ==
    LET In(i) == UNION {scfg[s].post : s \in {t \in Servers : perl.mip[t] = i}}
    IN
    /\ stage = "started"
    /\ stage' = "serving"
    /\ perl' = [perl EXCEPT !.loaded = [i \in Servers |-> @[i] \cup In(i)]]
    /\ req' = MergedTab.dir
    /\ UNCHANGED <<optionsVars, tab, walk, server, scfg, vopts, wanted>>

\* $r->add_config: modperl_config_insert_request.  The lines go to a new
\* configuration, which is merged with the request's if all were accepted.
AddConfig(k, v, valid) ==
    LET new == SetVar(NewTab, k, v) IN
    /\ stage = "serving"
    /\ directives < MaxDirectives
    /\ directives' = directives + 1
    /\ IF valid
       THEN /\ req' = MergeTab(req, new)
            /\ tab' = [tab EXCEPT !.whole.dir = SetVar(@, k, v)]
       ELSE UNCHANGED <<req, tab>>
    /\ UNCHANGED <<base, cur, whole, section, container, refused, unsigned,
                   walk, server, scfg, vopts, perl, wanted, stage>>

-----------------------------------------------------------------------------
ConfigInit ==
    /\ OptionsInit
    /\ tab = [base |-> NewTabs, cur |-> NewTabs, whole |-> NewTabs]
    /\ walk = [top |-> NewDir, some |-> FALSE, now |-> NewDir]
    /\ server = "main"
    /\ scfg = [s \in Servers |-> [list |-> {}, post |-> {}, argv |-> {}]]
    /\ vopts = {}
    /\ perl = NewPerl
    /\ wanted = [s \in Servers |-> {}]
    /\ stage = "reading"
    /\ req = NewTab

ConfigNext ==
    \/ \E sign \in Signs, option \in SrvOptions \cup DirOptions \cup {None} :
          ConfigOptions(sign, option)
    \/ \E isContainer \in BOOLEAN : ConfigSection(isContainer)
    \/ \E k \in Keys, v \in Vals :
          \/ PerlSetVar(k, v)
          \/ PerlAddVar(k, v)
          \/ PerlSetEnv(k, v)
          \/ \E valid \in BOOLEAN : AddConfig(k, v, valid)
    \/ \E x \in {"handler", "connection"} : PerlInterpScope(x)
    \/ \E m \in Modules : \/ PerlModule(m, FALSE)
                          \/ PerlLoadModule(m)
                          \/ PerlPostConfigRequire(m)
    \/ PerlSection
    \/ \E x \in Switches : PerlSwitches(x)
    \/ StartServers
    \/ PostConfig

ConfigSpec == ConfigInit /\ [][ConfigNext]_allVars

-----------------------------------------------------------------------------
(* Properties.                                                             *)

Entry == Keys \X Vals
TabType == [vars : Seq(Entry), set : SUBSET Keys,
            env : [Keys -> Vals \cup {NULL}],
            scope : {NULL, "handler", "connection"}]
TabsType == [srv : TabType, dir : TabType]
DirType == [tab : TabType, opts : OptionsType]
ServerType == [list : SUBSET Modules, post : SUBSET Modules,
               argv : SUBSET Switches]
PerlType == [running : BOOLEAN, mip : [Servers -> {NULL, "main", "vhost"}],
             loaded : [Servers -> SUBSET Modules],
             argv : [Servers -> SUBSET Switches]]

\* Types; the main server does not run on a virtual host's interpreter
\* (modperl_init_vhost).
ConfigTypeOK ==
    /\ OptionsTypeOK
    /\ tab \in [base : TabsType, cur : TabsType, whole : TabsType]
    /\ walk \in [top : DirType, some : BOOLEAN, now : DirType]
    /\ server \in Servers
    /\ scfg \in [Servers -> ServerType]
    /\ perl \in PerlType /\ perl.mip["main"] # "vhost"
    /\ wanted \in [Servers -> SUBSET Modules]
    /\ stage \in {"reading", "started", "serving"}
    /\ req \in TabType

ValuesOf(t, k) == Without(t.vars, Keys \ {k})

SameTab(t, u) ==
    /\ t.env = u.env
    /\ \A k \in Keys : ValuesOf(t, k) = ValuesOf(u, k)

\* Splitting PerlSetVar, PerlAddVar and PerlSetEnv over sections does not change
\* what they say: each key has the values, in the order, that a single section
\* with all the directives would give it, per server and per directory
\* (merge_config_add_vars, modperl_table_overlap, modperl_config_insert_request).
VarsReplay ==
    /\ stage # "serving" => /\ SameTab(MergedTab.srv, tab.whole.srv)
                            /\ SameTab(MergedTab.dir, tab.whole.dir)
                            /\ MergedTab.dir.scope = tab.whole.dir.scope
    /\ stage = "serving" => SameTab(req, tab.whole.dir)

\* httpd merges the containers of a request with each other first and then with
\* the server's configuration: that gives the same tables and options as
\* merging section after section, so modperl_config_dir_merge keeps in a merged
\* configuration all that a later merge needs.
MergeAssociative ==
    container => MergeDir(walk.top, Now) = Dir(MergedTab.dir, Merged.dir)

\* Every module a server's directives name is loaded, before requests are
\* served, in the interpreter that serves that server, whether Perl was started
\* early or not and whichever server started it.
ModulesLoaded ==
    stage = "serving" =>
        \A s \in Servers : perl.mip[s] # NULL =>
            wanted[s] \subseteq perl.loaded[perl.mip[s]]

\* A PerlSwitches directive that is not refused is in the argv its server's own
\* interpreter is started with, unless the switches are inherited.
SwitchesUsed ==
    \A s \in Servers :
        perl.mip[s] = s /\ ~(s = "vhost" /\ Inherit \in OwnOptions)
            => perl.argv[s] = scfg[s].argv
=============================================================================
