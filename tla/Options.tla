------------------------------ MODULE Options ------------------------------
(***************************************************************************)
(* PerlOptions: modperl_options.c and the directive of modperl_cmd.c.      *)
(*                                                                         *)
(* The configuration is read section after section: the main server, then  *)
(* perhaps one <VirtualHost>, then the containers (<Location>, ...) that   *)
(* apply to a request.  Each section has option sets of its own, per       *)
(* server (scfg->flags) and per directory (dcfg->flags), and httpd merges  *)
(* them from left to right.  Option bits are members of a set.  whole is   *)
(* the reference: the options of one section with all directives in it.    *)
(***************************************************************************)
EXTENDS Naturals

CONSTANTS
    UNSET,         \* Mp{Srv,Dir}_f_UNSET: no explicit setting of the options
    None,          \* the option None, whose value is no bit at all
    SrvOptions,    \* the per-server options
    DirOptions,    \* the per-directory options
    Defaults,      \* the per-server options that are on by default
    MaxSections,   \* bound: sections
    MaxDirectives  \* bound: PerlOptions directives

ASSUME OptionsAssumption ==
    /\ UNSET \notin SrvOptions \cup DirOptions \cup Defaults
    /\ MaxSections \in Nat
    /\ MaxDirectives \in Nat

VARIABLES
    base,        \* the options of the sections read so far, merged
    cur,         \* the options of the section being read
    whole,       \* the options if there were a single section
    section,     \* the number of the section being read
    container,   \* the section is a container: parms->path is set
    directives,  \* how many directives have been read
    refused,     \* a directive was refused: httpd does not start
    unsigned     \* history: an option was given without + or -

optionsVars == <<base, cur, whole, section, container, directives, refused,
                 unsigned>>

\* The first character of an option; "set" is neither + nor -.
Signs == {"+", "-", "set"}

-----------------------------------------------------------------------------
(* modperl_options.c                                                       *)

OptionsNew(defaults) ==
    [opts |-> {UNSET} \cup defaults, opts_add |-> {}, opts_remove |-> {},
     opts_seen |-> {}]

Bits(option) == IF option = None THEN {} ELSE {option}

OptionsSet(o, sign, opt) ==
    [opts        |-> IF sign = "-" THEN o.opts \ opt ELSE o.opts \cup opt,
     opts_add    |-> CASE sign = "-" -> o.opts_add \ opt
                       [] sign = "+" -> o.opts_add \cup opt
                       [] OTHER -> o.opts_add,
     opts_remove |-> CASE sign = "-" -> o.opts_remove \cup opt
                       [] sign = "+" -> o.opts_remove \ opt
                       [] OTHER -> o.opts_remove,
     opts_seen   |-> o.opts_seen \cup opt]

\* Mutant: what a section removes stays among what was added before.
MergeKeepsAdded(b, add) ==
    LET added == b.opts_add \cup add.opts_add
        removed == (b.opts_remove \ add.opts_add) \cup add.opts_remove
    IN [opts |-> (b.opts \ removed) \cup added,
        opts_add |-> added, opts_remove |-> removed,
        opts_seen |-> b.opts_seen \cup add.opts_seen]

\* Mutant: the bits a section removes are not taken from the merged options.
MergeKeepsOpts(b, add) ==
    LET added == (b.opts_add \ add.opts_remove) \cup add.opts_add
        removed == (b.opts_remove \ add.opts_add) \cup add.opts_remove
    IN [opts |-> b.opts \cup added,
        opts_add |-> added, opts_remove |-> removed,
        opts_seen |-> b.opts_seen \cup add.opts_seen]

OptionsMerge(b, add) ==
    LET added == (b.opts_add \ add.opts_remove) \cup add.opts_add
        removed == (b.opts_remove \ add.opts_add) \cup add.opts_remove
        seen == b.opts_seen \cup add.opts_seen
    IN
    IF UNSET \in add.opts
    THEN [opts |-> (b.opts \ removed) \cup added,
          opts_add |-> added, opts_remove |-> removed, opts_seen |-> seen]
    ELSE [add EXCEPT !.opts_seen = seen]

-----------------------------------------------------------------------------

\* modperl_config_srv_new and modperl_config_dir_new
NewFlags == [srv |-> OptionsNew(Defaults), dir |-> OptionsNew({})]

OptionsInit ==
    /\ base = NewFlags
    /\ cur = NewFlags
    /\ whole = NewFlags
    /\ section = 1
    /\ container = FALSE
    /\ directives = 0
    /\ refused = FALSE
    /\ unsigned = FALSE

\* MP_CMD_SRV_DECLARE(options): the per-server options outside containers;
\* what is no per-server option may be a per-directory one.
PerlOptions(sign, option) ==
    LET Route(f) ==
            IF ~container /\ option \in SrvOptions \cup {None}
            THEN [f EXCEPT !.srv = OptionsSet(@, sign, Bits(option))]
            ELSE [f EXCEPT !.dir = OptionsSet(@, sign, Bits(option))]
        valid == IF container THEN DirOptions ELSE SrvOptions \cup DirOptions
    IN
    /\ ~refused
    /\ directives < MaxDirectives
    /\ directives' = directives + 1
    /\ IF option \in valid \cup {None}
       THEN /\ cur' = Route(cur)
            /\ whole' = Route(whole)
            /\ UNCHANGED refused
       ELSE /\ refused' = TRUE
            /\ UNCHANGED <<cur, whole>>
    /\ unsigned' = (unsigned \/ sign = "set")
    /\ UNCHANGED <<base, section, container>>

\* What applies in the section being read: modperl_config_srv_merge and
\* modperl_config_dir_merge.  The main server is not merged with anything, and
\* a container has no server configuration.
Merged ==
    IF section = 1 THEN cur
    ELSE [srv |-> IF container THEN base.srv
                  ELSE OptionsMerge(base.srv, cur.srv),
          dir |-> OptionsMerge(base.dir, cur.dir)]

\* The next section starts; a <VirtualHost> can only follow the main server.
NextSection(isContainer) ==
    /\ ~refused
    /\ section < MaxSections
    /\ ~isContainer => section = 1
    /\ section' = section + 1
    /\ container' = isContainer
    /\ base' = Merged
    /\ cur' = NewFlags
    /\ UNCHANGED <<whole, directives, refused, unsigned>>

OptionsNext ==
    \/ \E sign \in Signs, option \in SrvOptions \cup DirOptions \cup {None} :
          PerlOptions(sign, option)
    \/ \E isContainer \in BOOLEAN : NextSection(isContainer)

OptionsSpec == OptionsInit /\ [][OptionsNext]_optionsVars

-----------------------------------------------------------------------------
(* Properties.                                                             *)

OptionsType ==
    [opts : SUBSET (SrvOptions \cup DirOptions \cup Defaults \cup {UNSET}),
     opts_add : SUBSET (SrvOptions \cup DirOptions),
     opts_remove : SUBSET (SrvOptions \cup DirOptions),
     opts_seen : SUBSET (SrvOptions \cup DirOptions)]

FlagsType == [srv : OptionsType, dir : OptionsType]

\* The option sets are sets of option bits, the rest has its type.
OptionsTypeOK ==
    /\ base \in FlagsType
    /\ cur \in FlagsType
    /\ whole \in FlagsType
    /\ section \in Nat \ {0}
    /\ container \in BOOLEAN
    /\ directives \in Nat
    /\ refused \in BOOLEAN
    /\ unsigned \in BOOLEAN

\* modperl_options_merge: "preserve the invariant (opts_add & opts_remove) ==
\* 0", in every section and in what the sections are merged to.
AddRemoveDisjoint ==
    \A f \in {base, cur, Merged} :
        /\ f.srv.opts_add \cap f.srv.opts_remove = {}
        /\ f.dir.opts_add \cap f.dir.opts_remove = {}

\* Splitting +/- directives over sections does not change what they say: the
\* merged options are those of a single section with all the directives in
\* the order they are merged in, what has been seen included.
OptionsReplay == ~unsigned => Merged = whole

=============================================================================
