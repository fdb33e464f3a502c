--------------------------- MODULE ConfigProofs ---------------------------
(***************************************************************************)
(* Proofs about Config, for any options, keys, values, modules, switches   *)
(* and number of sections and directives: splitting directives over        *)
(* sections does not change what they say, in whatever order httpd merges  *)
(* the sections, and what the directives of a server ask for is there in   *)
(* the interpreter that serves it, whenever Perl was started.              *)
(***************************************************************************)
EXTENDS Config, Induction

-----------------------------------------------------------------------------
(* PerlOptions: the options stay coherent and merging loses nothing.       *)

\* Options given with + and - only: an option that was last added is on, one
\* that was last removed is off, and UNSET stays.
Coherent(o) ==
    /\ o \in OptionsType
    /\ UNSET \in o.opts
    /\ o.opts_add \cap o.opts_remove = {}
    /\ o.opts_add \subseteq o.opts
    /\ o.opts_remove \cap o.opts = {}

\* Any options: what is added and what is removed are disjoint.
Disjoint(o) ==
    /\ o \in OptionsType
    /\ o.opts_add \cap o.opts_remove = {}

-----------------------------------------------------------------------------
(* modperl_options.c                                                       *)

\* A new set of options is coherent.
LEMMA NewCoherent ==
    ASSUME NEW d \in SUBSET Defaults
    PROVE  Coherent(OptionsNew(d)) /\ Disjoint(OptionsNew(d))
BY OptionsAssumption DEF OptionsNew, Coherent, Disjoint, OptionsType

\* Setting an option keeps the option sets disjoint.
LEMMA SetDisjoint ==
    ASSUME NEW o, Disjoint(o), NEW sign \in Signs,
           NEW x \in SUBSET (SrvOptions \cup DirOptions)
    PROVE  Disjoint(OptionsSet(o, sign, x))
BY OptionsAssumption DEF OptionsSet, Disjoint, OptionsType

\* Adding or removing an option keeps them coherent.
LEMMA SetCoherent ==
    ASSUME NEW o, Coherent(o), NEW sign \in {"+", "-"},
           NEW x \in SUBSET (SrvOptions \cup DirOptions)
    PROVE  Coherent(OptionsSet(o, sign, x))
BY OptionsAssumption DEF OptionsSet, Coherent, OptionsType

\* So does merging, for which nothing is assumed about explicit settings.
LEMMA MergeDisjoint ==
    ASSUME NEW b, Disjoint(b), NEW c, Disjoint(c)
    PROVE  Disjoint(OptionsMerge(b, c))
BY DEF OptionsMerge, Disjoint, OptionsType

\* Merging coherent options gives coherent options.
LEMMA MergeCoherent ==
    ASSUME NEW b, Coherent(b), NEW c, Coherent(c)
    PROVE  Coherent(OptionsMerge(b, c))
BY OptionsAssumption DEF OptionsMerge, Coherent, OptionsType

\* Merging with a section that says nothing changes nothing.
LEMMA MergeNew ==
    ASSUME NEW b, Coherent(b), NEW d
    PROVE  OptionsMerge(b, OptionsNew(d)) = b
BY DEF OptionsMerge, OptionsNew, Coherent, OptionsType

\* Setting an option in a section is setting it after the merge.
LEMMA MergeSet ==
    ASSUME NEW b, Coherent(b), NEW c, Coherent(c), NEW sign \in {"+", "-"},
           NEW x, x \in SUBSET (SrvOptions \cup DirOptions)
    PROVE  OptionsMerge(b, OptionsSet(c, sign, x)) =
               OptionsSet(OptionsMerge(b, c), sign, x)
<1> DEFINE L == OptionsMerge(b, OptionsSet(c, sign, x))
           R == OptionsSet(OptionsMerge(b, c), sign, x)
<1>1. UNSET \in OptionsSet(c, sign, x).opts
  BY SetCoherent DEF Coherent
<1>2. L.opts_add = R.opts_add
  BY <1>1 DEF OptionsMerge, OptionsSet, Coherent, OptionsType
<1>3. L.opts_remove = R.opts_remove
  BY <1>1 DEF OptionsMerge, OptionsSet, Coherent, OptionsType
<1>4. L.opts = R.opts
  <2>1. CASE sign = "+"
    BY <1>1, <2>1 DEF OptionsMerge, OptionsSet, Coherent, OptionsType
  <2>2. CASE sign = "-"
    BY <1>1, <2>2 DEF OptionsMerge, OptionsSet, Coherent, OptionsType
  <2> QED
    BY <2>1, <2>2
<1>5. L.opts_seen = R.opts_seen
  BY <1>1 DEF OptionsMerge, OptionsSet, Coherent, OptionsType
<1>6. L = [opts |-> L.opts, opts_add |-> L.opts_add,
           opts_remove |-> L.opts_remove, opts_seen |-> L.opts_seen]
  BY <1>1 DEF OptionsMerge
<1>7. R = [opts |-> R.opts, opts_add |-> R.opts_add,
           opts_remove |-> R.opts_remove, opts_seen |-> R.opts_seen]
  BY DEF OptionsSet
<1> QED
  BY <1>2, <1>3, <1>4, <1>5, <1>6, <1>7

-----------------------------------------------------------------------------
(* The specification.                                                      *)

DisjointFlags(f) ==
    /\ f \in FlagsType
    /\ Disjoint(f.srv)
    /\ Disjoint(f.dir)

CoherentFlags(f) ==
    /\ f \in FlagsType
    /\ Coherent(f.srv)
    /\ Coherent(f.dir)

\* What is true of the options whatever the signs.
DisjointInv ==
    /\ OptionsTypeOK
    /\ DisjointFlags(base)
    /\ DisjointFlags(cur)
    /\ DisjointFlags(whole)

\* With + and - only, the options are coherent, which is what makes merging
\* the same as giving every option in one section.
ReplayInv ==
    /\ DisjointInv
    /\ container => section # 1
    /\ ~unsigned => /\ CoherentFlags(base)
                    /\ CoherentFlags(cur)
                    /\ Merged = whole

\* The bits of an option, of None too, are a set of options.
LEMMA BitsType ==
    ASSUME NEW option \in SrvOptions \cup DirOptions \cup {None}
    PROVE  Bits(option) \in SUBSET (SrvOptions \cup DirOptions)
BY DEF Bits

\* A new section is coherent.
LEMMA NewFlagsGood == DisjointFlags(NewFlags) /\ CoherentFlags(NewFlags)
BY NewCoherent DEF NewFlags, DisjointFlags, CoherentFlags, FlagsType, Disjoint

\* What the sections are merged to is disjoint.
LEMMA MergedDisjoint ==
    ASSUME DisjointInv
    PROVE  DisjointFlags(Merged)
BY MergeDisjoint DEF DisjointInv, DisjointFlags, Merged, FlagsType, Disjoint

\* With + and - only it is coherent.
LEMMA MergedCoherent ==
    ASSUME CoherentFlags(base), CoherentFlags(cur)
    PROVE  CoherentFlags(Merged)
BY MergeCoherent DEF CoherentFlags, Merged, FlagsType, Coherent

\* A directive is taken for the per-server or for the per-directory options.
SetIn(f, where, sign, option) ==
    IF where = "srv"
    THEN [f EXCEPT !.srv = OptionsSet(@, sign, Bits(option))]
    ELSE [f EXCEPT !.dir = OptionsSet(@, sign, Bits(option))]

\* A PerlOptions directive is refused or sets options in one of two places,
\* the same in the section and in the reference.
LEMMA DirectiveCases ==
    ASSUME NEW sign, NEW option, PerlOptions(sign, option)
    PROVE  \/ cur' = cur /\ whole' = whole
           \/ /\ ~container
              /\ cur' = SetIn(cur, "srv", sign, option)
              /\ whole' = SetIn(whole, "srv", sign, option)
           \/ /\ cur' = SetIn(cur, "dir", sign, option)
              /\ whole' = SetIn(whole, "dir", sign, option)
BY DEF PerlOptions, SetIn

\* Either way the options stay disjoint.
LEMMA SetInDisjoint ==
    ASSUME NEW f, DisjointFlags(f), NEW where \in {"srv", "dir"},
           NEW sign \in Signs,
           NEW option \in SrvOptions \cup DirOptions \cup {None}
    PROVE  DisjointFlags(SetIn(f, where, sign, option))
BY BitsType, SetDisjoint DEF DisjointFlags, SetIn, FlagsType, Disjoint

\* With + and - they stay coherent.
LEMMA SetInCoherent ==
    ASSUME NEW f, CoherentFlags(f), NEW where \in {"srv", "dir"},
           NEW sign \in {"+", "-"},
           NEW option \in SrvOptions \cup DirOptions \cup {None}
    PROVE  CoherentFlags(SetIn(f, where, sign, option))
BY BitsType, SetCoherent DEF CoherentFlags, SetIn, FlagsType, Coherent

\* Before any directive the invariant holds.
LEMMA DisjointAtInit ==
    ASSUME OptionsInit
    PROVE  DisjointInv
<1>1. DisjointFlags(base) /\ DisjointFlags(cur) /\ DisjointFlags(whole)
  BY NewFlagsGood DEF OptionsInit
<1>2. section \in Nat \ {0} /\ directives \in Nat
  BY DEF OptionsInit
<1>3. container \in BOOLEAN /\ refused \in BOOLEAN /\ unsigned \in BOOLEAN
  BY DEF OptionsInit
<1> QED
  BY <1>1, <1>2, <1>3 DEF DisjointInv, OptionsTypeOK, DisjointFlags

\* No directive and no merge makes the added and removed options overlap.
LEMMA DisjointStep ==
    ASSUME DisjointInv, [OptionsNext]_optionsVars
    PROVE  DisjointInv'
<1>1. CASE UNCHANGED optionsVars
  BY <1>1 DEF DisjointInv, OptionsTypeOK, optionsVars
<1>2. ASSUME NEW sign \in Signs,
             NEW option \in SrvOptions \cup DirOptions \cup {None},
             PerlOptions(sign, option)
      PROVE  DisjointInv'
  <2>1. DisjointFlags(cur') /\ DisjointFlags(whole')
    BY <1>2, DirectiveCases, SetInDisjoint DEF DisjointInv
  <2>2. base' = base /\ section' = section /\ container' = container
    BY <1>2 DEF PerlOptions
  <2>4. directives' \in Nat
    <3>1. directives \in Nat /\ directives' = directives + 1
      BY <1>2 DEF PerlOptions, DisjointInv, OptionsTypeOK
    <3> QED
      BY <3>1
  <2>5. refused' \in BOOLEAN
    <3>1. refused' = refused \/ refused' = TRUE
      BY <1>2 DEF PerlOptions
    <3> QED
      BY <3>1 DEF DisjointInv, OptionsTypeOK
  <2>3. unsigned' \in BOOLEAN
    BY <1>2, Zenon DEF PerlOptions
  <2> QED
    BY <2>1, <2>2, <2>3, <2>4, <2>5
    DEF DisjointInv, OptionsTypeOK, DisjointFlags
<1>3. ASSUME NEW isContainer \in BOOLEAN, NextSection(isContainer)
      PROVE  DisjointInv'
  <2>1. DisjointFlags(base')
    BY <1>3, MergedDisjoint DEF NextSection
  <2>2. DisjointFlags(cur')
    BY <1>3, NewFlagsGood DEF NextSection
  <2> QED
    BY <1>3, <2>1, <2>2
    DEF NextSection, DisjointInv, OptionsTypeOK, DisjointFlags
<1> QED
  BY <1>1, <1>2, <1>3 DEF OptionsNext

\* modperl_options_merge keeps the invariant its comment states, whatever is
\* configured in whatever sections, options without a sign included.
THEOREM OptionsIntegrity ==
    OptionsSpec => [](OptionsTypeOK /\ AddRemoveDisjoint)
<1>1. OptionsInit => DisjointInv
  BY DisjointAtInit
<1>2. DisjointInv /\ [OptionsNext]_optionsVars => DisjointInv'
  BY DisjointStep
<1>3. DisjointInv => OptionsTypeOK /\ AddRemoveDisjoint
  BY MergedDisjoint DEF DisjointInv, AddRemoveDisjoint, DisjointFlags, Disjoint
<1> QED
  BY <1>1, <1>2, <1>3, PTL DEF OptionsSpec

-----------------------------------------------------------------------------

\* Every step keeps the merged options those of the single section.
LEMMA ReplayStep ==
    ASSUME ReplayInv, [OptionsNext]_optionsVars
    PROVE  ReplayInv'
<1>d. DisjointInv'
  BY DisjointStep DEF ReplayInv
<1>t. section \in Nat \ {0} /\ base \in FlagsType /\ cur \in FlagsType
  BY DEF ReplayInv, DisjointInv, OptionsTypeOK
<1>1. CASE UNCHANGED optionsVars
  BY <1>1, <1>d DEF ReplayInv, optionsVars, Merged
<1>2. ASSUME NEW sign \in Signs,
             NEW option \in SrvOptions \cup DirOptions \cup {None},
             PerlOptions(sign, option)
      PROVE  ReplayInv'
  <2>2. base' = base /\ section' = section /\ container' = container
    BY <1>2 DEF PerlOptions
  <2>3. (container => section # 1)'
    BY <2>2 DEF ReplayInv
  <2>4. ASSUME ~unsigned'
        PROVE  CoherentFlags(base') /\ CoherentFlags(cur') /\ Merged' = whole'
    <3>u. ~unsigned /\ sign # "set"
      BY <1>2, <2>4 DEF PerlOptions
    <3>s. sign \in {"+", "-"}
      BY <3>u DEF Signs
    <3>c. CoherentFlags(base) /\ CoherentFlags(cur) /\ Merged = whole
      BY <3>u DEF ReplayInv
    <3>1. CoherentFlags(cur')
      BY <1>2, <3>s, <3>c, DirectiveCases, SetInCoherent
    <3>b. Bits(option) \in SUBSET (SrvOptions \cup DirOptions)
      BY BitsType
    <3>2. CASE cur' = cur /\ whole' = whole
      BY <2>2, <3>1, <3>2, <3>c DEF Merged
    <3>3. CASE /\ ~container
               /\ cur' = SetIn(cur, "srv", sign, option)
               /\ whole' = SetIn(whole, "srv", sign, option)
      <4>1. OptionsMerge(base.srv, OptionsSet(cur.srv, sign, Bits(option)))
            = OptionsSet(OptionsMerge(base.srv, cur.srv), sign, Bits(option))
        BY <3>s, <3>b, <3>c, MergeSet DEF CoherentFlags
      <4>2. Merged' = whole'
        BY <1>t, <2>2, <3>3, <3>c, <4>1 DEF Merged, SetIn, FlagsType
      <4> QED
        BY <2>2, <3>1, <3>c, <4>2
    <3>4. CASE /\ cur' = SetIn(cur, "dir", sign, option)
               /\ whole' = SetIn(whole, "dir", sign, option)
      <4>1. OptionsMerge(base.dir, OptionsSet(cur.dir, sign, Bits(option)))
            = OptionsSet(OptionsMerge(base.dir, cur.dir), sign, Bits(option))
        BY <3>s, <3>b, <3>c, MergeSet DEF CoherentFlags
      <4>2. Merged' = whole'
        BY <1>t, <2>2, <3>4, <3>c, <4>1 DEF Merged, SetIn, FlagsType
      <4> QED
        BY <2>2, <3>1, <3>c, <4>2
    <3> QED
      BY <1>2, <3>2, <3>3, <3>4, DirectiveCases
  <2> QED
    BY <1>d, <2>3, <2>4 DEF ReplayInv
<1>3. ASSUME NEW isContainer \in BOOLEAN, NextSection(isContainer)
      PROVE  ReplayInv'
  <2>2. base' = Merged /\ cur' = NewFlags /\ whole' = whole
    BY <1>3 DEF NextSection
  <2>6. section' # 1
    <3>1. section' = section + 1
      BY <1>3 DEF NextSection
    <3>2. section \in Nat /\ section # 0
      BY <1>t
    <3> QED
      BY <3>1, <3>2
  <2>7. ASSUME ~unsigned'
        PROVE  CoherentFlags(base') /\ CoherentFlags(cur') /\ Merged' = whole'
    <3>u. ~unsigned
      BY <1>3, <2>7 DEF NextSection
    <3>c. CoherentFlags(base) /\ CoherentFlags(cur) /\ Merged = whole
      BY <3>u DEF ReplayInv
    <3>1. CoherentFlags(base') /\ CoherentFlags(cur')
      BY <2>2, <3>c, MergedCoherent, NewFlagsGood
    <3>3. OptionsMerge(base'.srv, NewFlags.srv) = base'.srv
      BY <3>1, MergeNew DEF NewFlags, CoherentFlags
    <3>4. OptionsMerge(base'.dir, NewFlags.dir) = base'.dir
      BY <3>1, MergeNew DEF NewFlags, CoherentFlags
    <3>5. Merged' = base'
      BY <2>2, <2>6, <3>1, <3>3, <3>4 DEF Merged, CoherentFlags, FlagsType
    <3> QED
      BY <2>2, <3>1, <3>5, <3>c
  <2> QED
    BY <1>d, <2>6, <2>7 DEF ReplayInv
<1> QED
  BY <1>1, <1>2, <1>3 DEF OptionsNext

\* Splitting + and - options over any number of sections says the same as
\* giving them all in one.
THEOREM MergeIsReplay == OptionsSpec => []OptionsReplay
<1>1. OptionsInit => ReplayInv
  <2> SUFFICES ASSUME OptionsInit PROVE ReplayInv
    OBVIOUS
  <2>1. DisjointInv
    BY DisjointAtInit
  <2> QED
    BY <2>1, NewFlagsGood DEF OptionsInit, ReplayInv, Merged
<1>2. ReplayInv /\ [OptionsNext]_optionsVars => ReplayInv'
  BY ReplayStep
<1>3. ReplayInv => OptionsReplay
  BY DEF ReplayInv, OptionsReplay
<1> QED
  BY <1>1, <1>2, <1>3, PTL DEF OptionsSpec

-----------------------------------------------------------------------------
(* Tables: sequences of entries, whose first component is the key.         *)

\* What an empty sequence has, and with a sequence every one that is longer by
\* one element, every sequence has.
LEMMA AppendInduct ==
    ASSUME NEW E, NEW T, <<>> \in T,
           \A s \in Seq(E), e \in E : s \in T => Append(s, e) \in T
    PROVE  \A s \in Seq(E) : s \in T
<1> DEFINE U == {n \in Nat : \A s \in Seq(E) : Len(s) = n => s \in T}
<1>1. 0 \in U
  BY \A s \in Seq(E) : Len(s) = 0 => s = <<>>
<1>2. ASSUME NEW n \in U PROVE n + 1 \in U
  <2>1. SUFFICES ASSUME NEW s \in Seq(E), Len(s) = n + 1 PROVE s \in T
    BY <1>2
  <2>2. n \in Nat /\ \A u \in Seq(E) : Len(u) = n => u \in T
    BY <1>2
  <2> DEFINE u == SubSeq(s, 1, n)
  <2>3. u \in Seq(E) /\ Len(u) = n /\ s[n + 1] \in E
    BY <2>1, <2>2
  <2>4. s = Append(u, s[n + 1])
    BY <2>1, <2>2
  <2> HIDE DEF u
  <2> QED BY <2>2, <2>3, <2>4
<1> HIDE DEF U
<1>3. U \in SUBSET Nat
  BY DEF U
<1>4. U = Nat
  BY <1>1, <1>2, <1>3, Induct
<1> QED BY <1>4 DEF U

\* The loop of apr_table_unset: after i entries F[i] has been kept.
WithoutLoop(F, t, K, E) ==
    /\ F[0] = <<>>
    /\ \A i \in 1 .. Len(t) :
         F[i] = IF t[i][1] \in K THEN F[i - 1] ELSE Append(F[i - 1], t[i])
    /\ \A i \in 0 .. Len(t) : F[i] \in Seq(E)
    /\ Without(t, K) = F[Len(t)]

\* Without is computed by its loop.
LEMMA WithoutLoops ==
    ASSUME NEW E, NEW t \in Seq(E), NEW K
    PROVE  \E F : WithoutLoop(F, t, K, E)
<1> DEFINE n == Len(t)
           Body(g, j) == IF j = 0 THEN <<>>
                         ELSE IF t[j][1] \in K THEN g[j - 1]
                         ELSE Append(g[j - 1], t[j])
           F == CHOOSE g : g = [j \in 0 .. n |-> Body(g, j)]
           st == [p \in (Nat \ {0}) \X Seq(E) |->
                    IF p[1] \in 1 .. n
                    THEN IF t[p[1]][1] \in K THEN p[2]
                         ELSE Append(p[2], t[p[1]])
                    ELSE p[2]]
<1>1. n \in Nat /\ \A j \in 1 .. n : t[j] \in E
  OBVIOUS
<1>2. st \in [(Nat \ {0}) \X Seq(E) -> Seq(E)]
  <2>1. ASSUME NEW i \in Nat \ {0}, NEW s \in Seq(E)
        PROVE  (IF i \in 1 .. n
                THEN IF t[i][1] \in K THEN s ELSE Append(s, t[i])
                ELSE s) \in Seq(E)
    BY <1>1
  <2> QED BY <2>1
<1>3. \E g : IsLoop(g, n, Seq(E), <<>>, st)
  <2>1. << >> \in Seq(E)
    OBVIOUS
  <2> HIDE DEF st, n
  <2> QED BY <1>1, <1>2, <2>1, LoopExists
<1>4. PICK g : IsLoop(g, n, Seq(E), <<>>, st)
  BY <1>3
<1>5. g = [j \in 0 .. n |-> Body(g, j)]
  <2>1. ASSUME NEW j \in 1 .. n PROVE g[j] = Body(g, j)
    <3>1. g[j] = st[<<j, g[j - 1]>>] /\ g[j - 1] \in Seq(E)
      <4> HIDE DEF n, st
      <4> QED BY <1>1, <1>4 DEF IsLoop
    <3>2. <<j, g[j - 1]>> \in (Nat \ {0}) \X Seq(E)
      BY <3>1, <1>1
    <3> QED BY <3>1, <3>2, <1>1
  <2>2. g[0] = Body(g, 0) /\ DOMAIN g = 0 .. n /\ g = [j \in DOMAIN g |-> g[j]]
    BY <1>4 DEF IsLoop
  <2>3. ASSUME NEW j \in 0 .. n PROVE g[j] = Body(g, j)
    <3>1. j = 0 \/ j \in 1 .. n
      BY <1>1
    <3> HIDE DEF Body, n
    <3> QED BY <2>1, <2>2, <3>1
  <2> HIDE DEF Body, n
  <2> QED BY <2>2, <2>3
<1>6. F = [j \in 0 .. n |-> Body(F, j)]
  <2> HIDE DEF Body, n
  <2> QED BY <1>5, Zenon
<1>7. ASSUME NEW j \in 0 .. n PROVE F[j] = Body(F, j)
  <2> HIDE DEF F, Body, n
  <2> QED BY <1>6
<1>8. F[0] = <<>>
  <2>1. 0 \in 0 .. n
    BY <1>1
  <2>2. F[0] = Body(F, 0)
    BY ONLY <1>7, <2>1
  <2> HIDE DEF F
  <2> QED BY <2>2
<1>9. ASSUME NEW j \in 1 .. n PROVE F[j] = Body(F, j) /\ j # 0
  <2>1. j \in 0 .. n /\ j # 0
    BY <1>1
  <2> QED BY ONLY <1>7, <2>1
<1>10. \A j \in 0 .. n : F[j] \in Seq(E)
  <2> DEFINE T == {j \in Nat : F[j] \in Seq(E)}
  <2> HIDE DEF F
  <2>1. ASSUME NEW j \in 1 .. n, j - 1 \in T PROVE j \in T
    <3>1. F[j] = Body(F, j) /\ j # 0 /\ F[j - 1] \in Seq(E) /\ t[j] \in E
      <4> HIDE DEF Body, n
      <4> QED BY <1>1, <1>9, <2>1 DEF T
    <3>2. Append(F[j - 1], t[j]) \in Seq(E)
      BY <3>1
    <3>3. F[j] \in Seq(E) /\ j \in Nat
      BY <1>1, <3>1, <3>2
    <3> QED BY <3>3
  <2>2. 0 \in T
    <3>1. <<>> \in Seq(E)
      OBVIOUS
    <3> QED BY <1>8, <3>1
  <2> HIDE DEF T, n
  <2>3. \A j \in 0 .. n : j \in T
    BY <1>1, <2>1, <2>2, Upto
  <2> QED BY <2>3 DEF T
<1>11. Without(t, K) = F[n]
  BY DEF Without
<1>12. WithoutLoop(F, t, K, E)
  <2> HIDE DEF F
  <2> QED BY <1>8, <1>9, <1>10, <1>11 DEF WithoutLoop
<1> HIDE DEF F
<1> QED BY <1>12

\* Unsetting keys in an empty table, and in one that is longer by one entry.
LEMMA WithoutEmpty ==
    ASSUME NEW K
    PROVE  Without(<<>>, K) = <<>>
<1>1. <<>> \in Seq({})
  OBVIOUS
<1>2. PICK F : WithoutLoop(F, <<>>, K, {})
  BY <1>1, WithoutLoops
<1> QED BY <1>2 DEF WithoutLoop

\* What is left of a table is a table.
LEMMA WithoutType ==
    ASSUME NEW E, NEW K, NEW t \in Seq(E)
    PROVE  Without(t, K) \in Seq(E)
<1>1. PICK F : WithoutLoop(F, t, K, E)
  BY WithoutLoops
<1> QED BY <1>1 DEF WithoutLoop

\* The loop goes on with the next entry.
LEMMA WithoutAppend ==
    ASSUME NEW E, NEW K, NEW t \in Seq(E), NEW e \in E
    PROVE  /\ e[1] \in K => Without(Append(t, e), K) = Without(t, K)
           /\ e[1] \notin K =>
                 Without(Append(t, e), K) = Append(Without(t, K), e)
<1> DEFINE u == Append(t, e)
           n == Len(t)
<1>1. u \in Seq(E) /\ Len(u) = n + 1 /\ n \in Nat /\ u[n + 1] = e
  OBVIOUS
<1>2. \A i \in 1 .. n : u[i] = t[i]
  OBVIOUS
<1> HIDE DEF u
<1>3. PICK F : WithoutLoop(F, t, K, E)
  BY WithoutLoops
<1>4. PICK G : WithoutLoop(G, u, K, E)
  BY <1>1, WithoutLoops
<1> DEFINE T == {i \in Nat : G[i] = F[i]}
<1>5. 0 \in T
  BY <1>3, <1>4 DEF WithoutLoop
<1>6. ASSUME NEW i \in 1 .. n, i - 1 \in T PROVE i \in T
  <2>1. i \in 1 .. Len(t) /\ i \in 1 .. Len(u) /\ u[i] = t[i]
    BY <1>1, <1>2
  <2>2. G[i - 1] = F[i - 1]
    BY <1>6
  <2> QED BY <1>3, <1>4, <2>1, <2>2 DEF WithoutLoop
<1> HIDE DEF T
<1>7. \A i \in 0 .. n : i \in T
  BY <1>1, <1>5, <1>6, Upto
<1>8. G[n] = F[n]
  BY <1>1, <1>7 DEF T
<1>9. n + 1 \in 1 .. Len(u) /\ (n + 1) - 1 = n
  BY <1>1
<1>10. G[n + 1] = IF e[1] \in K THEN G[n] ELSE Append(G[n], e)
  BY <1>1, <1>4, <1>9 DEF WithoutLoop
<1> QED BY <1>1, <1>3, <1>4, <1>8, <1>10 DEF WithoutLoop, u

\* An entry is appended to two tables put together.
LEMMA AppendConcat ==
    ASSUME NEW E, NEW a \in Seq(E), NEW b \in Seq(E), NEW e \in E
    PROVE  a \o Append(b, e) = Append(a \o b, e)
OBVIOUS

\* Unsetting keys in two tables, one after the other.
LEMMA WithoutConcat ==
    ASSUME NEW E, NEW K, NEW t \in Seq(E), NEW u \in Seq(E)
    PROVE  Without(t \o u, K) = Without(t, K) \o Without(u, K)
<1> DEFINE T == {s \in Seq(E) : Without(t \o s, K) = Without(t, K) \o Without(s, K)}
<1>1. \A s \in Seq(E) : Without(s, K) \in Seq(E)
  BY WithoutType
<1>2. <<>> \in T
  <2>1. <<>> \in Seq(E) /\ t \o <<>> = t
    OBVIOUS
  <2>2. Without(<<>>, K) = <<>>
    BY WithoutEmpty
  <2>3. Without(t, K) \o <<>> = Without(t, K)
    BY <1>1
  <2> QED BY <2>1, <2>2, <2>3
<1>3. ASSUME NEW s \in Seq(E), NEW e \in E, s \in T PROVE Append(s, e) \in T
  <2>1. /\ t \o s \in Seq(E) /\ Append(s, e) \in Seq(E)
        /\ t \o Append(s, e) = Append(t \o s, e)
    OBVIOUS
  <2>2. Without(t \o s, K) = Without(t, K) \o Without(s, K)
    BY <1>3
  <2>3. CASE e[1] \in K
    <3>1. Without(Append(t \o s, e), K) = Without(t \o s, K)
      BY <2>1, <2>3, WithoutAppend
    <3>2. Without(Append(s, e), K) = Without(s, K)
      BY <2>3, WithoutAppend
    <3> QED BY <2>1, <2>2, <3>1, <3>2
  <2>4. CASE e[1] \notin K
    <3>1. Without(Append(t \o s, e), K) = Append(Without(t \o s, K), e)
      BY <2>1, <2>4, WithoutAppend, Zenon
    <3>2. Without(Append(s, e), K) = Append(Without(s, K), e)
      BY <2>4, WithoutAppend
    <3>3. Without(t, K) \in Seq(E) /\ Without(s, K) \in Seq(E)
      BY <1>1
    <3>4. Without(t, K) \o Append(Without(s, K), e) =
             Append(Without(t, K) \o Without(s, K), e)
      BY ONLY <3>3, e \in E, AppendConcat
    <3> QED BY <2>1, <2>2, <3>1, <3>2, <3>4
  <2> QED BY <2>3, <2>4
<1> HIDE DEF T
<1>4. \A s \in Seq(E) : s \in T
  BY <1>2, <1>3, AppendInduct
<1> QED BY <1>4 DEF T

\* Unsetting keys twice.
LEMMA WithoutTwice ==
    ASSUME NEW E, NEW K, NEW L, NEW t \in Seq(E)
    PROVE  Without(Without(t, K), L) = Without(t, K \cup L)
<1> DEFINE T == {s \in Seq(E) : Without(Without(s, K), L) = Without(s, K \cup L)}
<1>1. <<>> \in T
  <2>1. /\ <<>> \in Seq(E) /\ Without(<<>>, K) = <<>> /\ Without(<<>>, L) = <<>>
        /\ Without(<<>>, K \cup L) = <<>>
    BY WithoutEmpty
  <2> QED BY <2>1
<1>2. ASSUME NEW s \in Seq(E), NEW e \in E, s \in T PROVE Append(s, e) \in T
  <2> DEFINE a == Without(s, K)
             b == Without(s, K \cup L)
  <2>1. a \in Seq(E) /\ Append(s, e) \in Seq(E)
    BY WithoutType
  <2>2. Without(a, L) = b
    BY <1>2
  <2>3. /\ e[1] \in K => Without(Append(s, e), K) = a
        /\ e[1] \notin K => Without(Append(s, e), K) = Append(a, e)
    BY WithoutAppend, Zenon
  <2>4. /\ e[1] \in K \cup L => Without(Append(s, e), K \cup L) = b
        /\ e[1] \notin K \cup L =>
              Without(Append(s, e), K \cup L) = Append(b, e)
    BY WithoutAppend, Zenon
  <2> HIDE DEF a, b
  <2>5. /\ e[1] \in L => Without(Append(a, e), L) = Without(a, L)
        /\ e[1] \notin L => Without(Append(a, e), L) = Append(Without(a, L), e)
    BY <2>1, WithoutAppend, Zenon
  <2>6. Without(Without(Append(s, e), K), L) = Without(Append(s, e), K \cup L)
    BY <2>2, <2>3, <2>4, <2>5
  <2> QED BY <2>1, <2>6
<1> HIDE DEF T
<1>3. \A s \in Seq(E) : s \in T
  BY <1>1, <1>2, AppendInduct
<1> QED BY <1>3 DEF T

\* Unsetting all the keys of a table leaves nothing.
LEMMA WithoutAll ==
    ASSUME NEW E, NEW K, NEW t \in Seq(E), \A i \in 1 .. Len(t) : t[i][1] \in K
    PROVE  Without(t, K) = <<>>
<1>1. PICK F : WithoutLoop(F, t, K, E)
  BY WithoutLoops
<1> DEFINE T == {i \in Nat : F[i] = <<>>}
           n == Len(t)
<1>2. n \in Nat /\ 0 \in T
  BY <1>1 DEF WithoutLoop
<1>3. ASSUME NEW i \in 1 .. n, i - 1 \in T PROVE i \in T
  <2>1. F[i] = F[i - 1] /\ i \in Nat
    BY <1>1, <1>2 DEF WithoutLoop
  <2> QED BY <1>3, <2>1
<1> HIDE DEF T
<1>4. \A i \in 0 .. n : i \in T
  BY <1>2, <1>3, Upto
<1> QED BY <1>1, <1>2, <1>4 DEF WithoutLoop, T

\* Merging the variables of three sections, from either side.
LEMMA MergeVarsAssociative ==
    ASSUME NEW E, NEW b \in Seq(E), NEW a \in Seq(E), NEW c \in Seq(E),
           NEW K, NEW L
    PROVE  MergeVars(MergeVars(b, K, a), L, c) =
             MergeVars(b, K \cup L, MergeVars(a, L, c))
<1> DEFINE x == Without(b, K)
           y == Without(a, L)
           z == Without(b, K \cup L)
<1>1. x \in Seq(E) /\ y \in Seq(E) /\ z \in Seq(E)
  BY WithoutType
<1>2. Without(x, L) = z
  BY WithoutTwice
<1> HIDE DEF x, y, z
<1>3. Without(x \o a, L) = z \o y
  BY <1>1, <1>2, WithoutConcat DEF y
<1>4. (z \o y) \o c = z \o (y \o c)
  BY ONLY <1>1, c \in Seq(E), SMTT(30)
<1> QED BY <1>3, <1>4 DEF MergeVars, x, y, z

-----------------------------------------------------------------------------
(* PerlSetVar and PerlAddVar.                                              *)

\* Some entry of the first i has the key k.
Has(t, k, i) == \E j \in 1 .. i : t[j][1] = k

\* The loop of apr_table_setn.
SetLoop(F, t, k, v, E) ==
    /\ F[0] = <<>>
    /\ \A i \in 1 .. Len(t) :
         F[i] = IF t[i][1] # k THEN Append(F[i - 1], t[i])
                ELSE IF Has(t, k, i - 1) THEN F[i - 1]
                ELSE Append(F[i - 1], <<k, v>>)
    /\ \A i \in 0 .. Len(t) : F[i] \in Seq(E)
    /\ TableSet(t, k, v) = IF Has(t, k, Len(t)) THEN F[Len(t)]
                           ELSE Append(t, <<k, v>>)

\* TableSet is computed by its loop.
LEMMA SetLoops ==
    ASSUME NEW E, NEW t \in Seq(E), NEW k, NEW v, <<k, v>> \in E
    PROVE  \E F : SetLoop(F, t, k, v, E)
<1> DEFINE n == Len(t)
           Body(g, j) == IF j = 0 THEN <<>>
                         ELSE IF t[j][1] # k THEN Append(g[j - 1], t[j])
                         ELSE IF \E i \in 1 .. j - 1 : t[i][1] = k THEN g[j - 1]
                         ELSE Append(g[j - 1], <<k, v>>)
           F == CHOOSE g : g = [j \in 0 .. n |-> Body(g, j)]
           st == [p \in (Nat \ {0}) \X Seq(E) |->
                    IF p[1] \in 1 .. n
                    THEN IF t[p[1]][1] # k THEN Append(p[2], t[p[1]])
                         ELSE IF \E i \in 1 .. p[1] - 1 : t[i][1] = k THEN p[2]
                         ELSE Append(p[2], <<k, v>>)
                    ELSE p[2]]
<1>1. n \in Nat /\ \A j \in 1 .. n : t[j] \in E
  OBVIOUS
<1>2. st \in [(Nat \ {0}) \X Seq(E) -> Seq(E)]
  <2>1. ASSUME NEW i \in Nat \ {0}, NEW s \in Seq(E)
        PROVE  (IF i \in 1 .. n
                THEN IF t[i][1] # k THEN Append(s, t[i])
                     ELSE IF \E j \in 1 .. i - 1 : t[j][1] = k THEN s
                     ELSE Append(s, <<k, v>>)
                ELSE s) \in Seq(E)
    BY <1>1
  <2> QED BY <2>1
<1>3. \E g : IsLoop(g, n, Seq(E), <<>>, st)
  <2>1. << >> \in Seq(E)
    OBVIOUS
  <2> HIDE DEF st, n
  <2> QED BY <1>1, <1>2, <2>1, LoopExists
<1>4. PICK g : IsLoop(g, n, Seq(E), <<>>, st)
  BY <1>3
<1>5. g = [j \in 0 .. n |-> Body(g, j)]
  <2>1. ASSUME NEW j \in 1 .. n PROVE g[j] = Body(g, j)
    <3>1. g[j] = st[<<j, g[j - 1]>>] /\ g[j - 1] \in Seq(E)
      <4> HIDE DEF n, st
      <4> QED BY <1>1, <1>4 DEF IsLoop
    <3>2. <<j, g[j - 1]>> \in (Nat \ {0}) \X Seq(E)
      BY <3>1, <1>1
    <3> QED BY <3>1, <3>2, <1>1
  <2>2. g[0] = Body(g, 0) /\ DOMAIN g = 0 .. n /\ g = [j \in DOMAIN g |-> g[j]]
    BY <1>4 DEF IsLoop
  <2>3. ASSUME NEW j \in 0 .. n PROVE g[j] = Body(g, j)
    <3>1. j = 0 \/ j \in 1 .. n
      BY <1>1
    <3> HIDE DEF Body, n
    <3> QED BY <2>1, <2>2, <3>1
  <2> HIDE DEF Body, n
  <2> QED BY <2>2, <2>3
<1>6. F = [j \in 0 .. n |-> Body(F, j)]
  <2> HIDE DEF Body, n
  <2> QED BY <1>5, Zenon
<1>7. ASSUME NEW j \in 0 .. n PROVE F[j] = Body(F, j)
  <2> HIDE DEF F, Body, n
  <2> QED BY <1>6
<1>8. F[0] = <<>>
  <2>1. 0 \in 0 .. n
    BY <1>1
  <2>2. F[0] = Body(F, 0)
    BY ONLY <1>7, <2>1
  <2> HIDE DEF F
  <2> QED BY <2>2
<1>9. ASSUME NEW j \in 1 .. n PROVE F[j] = Body(F, j) /\ j # 0
  <2>1. j \in 0 .. n /\ j # 0
    BY <1>1
  <2> QED BY ONLY <1>7, <2>1
<1>10. \A j \in 0 .. n : F[j] \in Seq(E)
  <2> DEFINE T == {j \in Nat : F[j] \in Seq(E)}
  <2> HIDE DEF F
  <2>1. ASSUME NEW j \in 1 .. n, j - 1 \in T PROVE j \in T
    <3>1. F[j] = Body(F, j) /\ j # 0 /\ F[j - 1] \in Seq(E) /\ t[j] \in E
      <4> HIDE DEF Body, n
      <4> QED BY <1>1, <1>9, <2>1 DEF T
    <3>2. Append(F[j - 1], t[j]) \in Seq(E) /\ Append(F[j - 1], <<k, v>>) \in Seq(E)
      BY <3>1
    <3>3. F[j] \in Seq(E) /\ j \in Nat
      BY <1>1, <3>1, <3>2
    <3> QED BY <3>3
  <2>2. 0 \in T
    <3>1. <<>> \in Seq(E)
      OBVIOUS
    <3> QED BY <1>8, <3>1
  <2> HIDE DEF T, n
  <2>3. \A j \in 0 .. n : j \in T
    BY <1>1, <2>1, <2>2, Upto
  <2> QED BY <2>3 DEF T
<1>11. TableSet(t, k, v) = IF Has(t, k, n) THEN F[n] ELSE Append(t, <<k, v>>)
  BY DEF TableSet, Has
<1>12. SetLoop(F, t, k, v, E)
  <2> HIDE DEF F
  <2> QED BY <1>8, <1>9, <1>10, <1>11 DEF SetLoop, Has
<1> HIDE DEF F
<1> QED BY <1>12

\* The entries of one key.
Only(s, k) == Without(s, Keys \ {k})

\* An empty table says nothing about a key.
LEMMA OnlyEmpty ==
    ASSUME NEW k
    PROVE  Only(<<>>, k) = <<>>
BY WithoutEmpty DEF Only

\* What a table says about a key is a table.
LEMMA OnlyType ==
    ASSUME NEW s \in Seq(Entry), NEW k
    PROVE  Only(s, k) \in Seq(Entry)
BY WithoutType DEF Only

\* A new entry adds to what the table says about its key.
LEMMA OnlyAppend ==
    ASSUME NEW s \in Seq(Entry), NEW e \in Entry, NEW k \in Keys
    PROVE  /\ e[1] = k => Only(Append(s, e), k) = Append(Only(s, k), e)
           /\ e[1] # k => Only(Append(s, e), k) = Only(s, k)
<1>1. e[1] \in Keys
  BY DEF Entry
<1>2. (e[1] # k <=> e[1] \in Keys \ {k})
  BY <1>1
<1> QED BY <1>2, WithoutAppend DEF Only

\* u is s with e at its end; e is an entry of k.
Longer(u, s, e) == u = Append(s, e)
Of(e, k) == e[1] = k

\* The same, as the loops need it.
LEMMA OnlyLonger ==
    ASSUME NEW s \in Seq(Entry), NEW e \in Entry, NEW k \in Keys,
           NEW u, Longer(u, s, e)
    PROVE  /\ Of(e, k) => Longer(Only(u, k), Only(s, k), e)
           /\ ~Of(e, k) => Only(u, k) = Only(s, k)
BY OnlyAppend DEF Longer, Of

\* Two tables put together say what one says and then the other.
LEMMA OnlyConcat ==
    ASSUME NEW s \in Seq(Entry), NEW t \in Seq(Entry), NEW k
    PROVE  Only(s \o t, k) = Only(s, k) \o Only(t, k)
BY WithoutConcat DEF Only

\* The entries of a key that was unset, and of one that was not.
LEMMA OnlyWithout ==
    ASSUME NEW s \in Seq(Entry), NEW k \in Keys, NEW K \in SUBSET Keys
    PROVE  Only(Without(s, K), k) = IF k \in K THEN <<>> ELSE Only(s, k)
<1>1. Only(Without(s, K), k) = Without(s, K \cup (Keys \ {k}))
  BY WithoutTwice DEF Only
<1>2. CASE k \in K
  <2>1. K \cup (Keys \ {k}) = Keys
    BY <1>2
  <2>2. \A i \in 1 .. Len(s) : s[i][1] \in Keys
    <3>1. \A i \in 1 .. Len(s) : s[i] \in Entry
      OBVIOUS
    <3> QED BY <3>1 DEF Entry
  <2>3. Without(s, Keys) = <<>>
    BY <2>2, WithoutAll
  <2> QED BY <1>1, <1>2, <2>1, <2>3
<1>3. CASE k \notin K
  <2>1. K \cup (Keys \ {k}) = Keys \ {k}
    BY <1>3
  <2> QED BY <1>1, <1>3, <2>1 DEF Only
<1> QED BY <1>2, <1>3

\* A table without the key.
LEMMA OnlyNone ==
    ASSUME NEW s \in Seq(Entry), NEW k \in Keys, ~Has(s, k, Len(s))
    PROVE  Only(s, k) = <<>>
<1>1. \A i \in 1 .. Len(s) : s[i] \in Entry
  OBVIOUS
<1>2. \A i \in 1 .. Len(s) : s[i][1] \in Keys \ {k}
  BY <1>1 DEF Entry, Has
<1> QED BY <1>2, WithoutAll DEF Only

\* After i entries, apr_table_setn has kept those with other keys, and one with
\* the key if there was any.
LEMMA SetLoopKeeps ==
    ASSUME NEW t \in Seq(Entry), NEW k \in Keys, NEW v \in Vals,
           NEW F, SetLoop(F, t, k, v, Entry), NEW j \in Keys
    PROVE  /\ j # k => Only(F[Len(t)], j) = Only(t, j)
           /\ j = k /\ Has(t, k, Len(t)) => Only(F[Len(t)], j) = <<<<k, v>>>>
<1> DEFINE n == Len(t)
           P(i) == SubSeq(t, 1, i)
           Fact(i) == Only(F[i], j) = IF j # k THEN Only(P(i), j)
                                      ELSE IF Has(t, k, i) THEN <<<<k, v>>>>
                                      ELSE <<>>
           T == {i \in Nat : Fact(i)}
<1>1. n \in Nat /\ P(0) = <<>> /\ P(n) = t
  OBVIOUS
<1>2. <<k, v>> \in Entry
  BY DEF Entry
<1>3. ASSUME NEW i \in 1 .. n
      PROVE  /\ P(i - 1) \in Seq(Entry) /\ t[i] \in Entry
             /\ P(i) = Append(P(i - 1), t[i])
             /\ F[i - 1] \in Seq(Entry)
             /\ i \in Nat /\ i - 1 \in Nat
  <2>1. i - 1 \in 0 .. Len(t) /\ i \in Nat /\ i - 1 \in Nat
    BY <1>1
  <2>2. F[i - 1] \in Seq(Entry)
    BY <2>1 DEF SetLoop
  <2> QED BY <2>1, <2>2
<1>4. ASSUME NEW i \in 1 .. n
      PROVE  /\ t[i][1] = k => Has(t, k, i)
             /\ t[i][1] # k => (Has(t, k, i) <=> Has(t, k, i - 1))
  <2>1. \A m \in 1 .. i : m \in 1 .. i - 1 \/ m = i
    BY <1>1
  <2>2. \A m \in 1 .. i - 1 : m \in 1 .. i
    BY <1>1
  <2>3. i \in 1 .. i
    BY <1>1
  <2> QED BY <2>1, <2>2, <2>3 DEF Has
<1> HIDE DEF n, P
<1>5. Fact(0)
  <2>1. F[0] = <<>> /\ ~Has(t, k, 0)
    BY DEF SetLoop, Has
  <2> QED BY <1>1, <2>1, OnlyEmpty
<1>6. ASSUME NEW i \in 1 .. n, Fact(i - 1) PROVE Fact(i)
  <2> DEFINE f == F[i - 1]
             g == F[i]
             p == P(i - 1)
             q == P(i)
             e == t[i]
             w == <<k, v>>
  <2>0. p \in Seq(Entry) /\ e \in Entry /\ f \in Seq(Entry) /\ w \in Entry
    BY <1>2, <1>3
  <2>1. Longer(q, p, e)
    BY <1>3 DEF Longer
  <2>2. /\ ~Of(e, k) => Longer(g, f, e)
        /\ Of(e, k) /\ Has(t, k, i - 1) => g = f
        /\ Of(e, k) /\ ~Has(t, k, i - 1) => Longer(g, f, w)
    BY <1>6 DEF SetLoop, n, Longer, Of
  <2>3. Of(w, k) /\ (j # k => ~Of(w, j)) /\ ~(j # k /\ Of(e, j) /\ Of(e, k))
    BY DEF Of
  <2>4. /\ j # k => Only(f, j) = Only(p, j)
        /\ j = k /\ Has(t, k, i - 1) => Only(f, k) = <<w>>
        /\ j = k /\ ~Has(t, k, i - 1) => Only(f, k) = <<>>
    BY <1>6
  <2>5. /\ Of(e, k) => Has(t, k, i)
        /\ ~Of(e, k) => (Has(t, k, i) <=> Has(t, k, i - 1))
    BY <1>4 DEF Of
  <2>6. Longer(Only(g, k), <<>>, w) => Only(g, k) = <<w>>
    BY DEF Longer
  <2> HIDE DEF f, g, p, q, e, w
  <2>7. ASSUME j # k PROVE Only(g, j) = Only(q, j)
    <3>1. CASE Of(e, j)
      <4>1. Longer(Only(g, j), Only(f, j), e)
        BY <2>0, <2>2, <2>3, <2>7, <3>1, OnlyLonger, ZenonT(30)
      <4>2. Longer(Only(q, j), Only(p, j), e)
        BY <2>0, <2>1, <3>1, OnlyLonger, ZenonT(30)
      <4> QED BY <2>4, <2>7, <4>1, <4>2 DEF Longer
    <3>2. CASE ~Of(e, j)
      <4>1. Only(q, j) = Only(p, j)
        BY <2>0, <2>1, <3>2, OnlyLonger, ZenonT(30)
      <4>2. CASE ~Of(e, k)
        <5>1. Only(g, j) = Only(f, j)
          BY <2>0, <2>2, <3>2, <4>2, OnlyLonger, ZenonT(30)
        <5> QED BY <2>4, <2>7, <4>1, <5>1
      <4>3. CASE Of(e, k) /\ Has(t, k, i - 1)
        BY <2>2, <2>4, <2>7, <4>1, <4>3
      <4>4. CASE Of(e, k) /\ ~Has(t, k, i - 1)
        <5>1. Longer(g, f, w) /\ ~Of(w, j)
          BY <2>2, <2>3, <2>7, <4>4
        <5>2. Only(g, j) = Only(f, j)
          BY <2>0, <5>1, OnlyLonger, ZenonT(30)
        <5> QED BY <2>4, <2>7, <4>1, <5>2
      <4> QED BY <4>2, <4>3, <4>4
    <3> QED BY <3>1, <3>2
  <2>8. ASSUME j = k
        PROVE  Only(g, k) = IF Has(t, k, i) THEN <<w>> ELSE <<>>
    <3>1. CASE ~Of(e, k)
      <4>1. Only(g, k) = Only(f, k)
        BY <2>0, <2>2, <3>1, OnlyLonger, ZenonT(30)
      <4> QED BY <2>4, <2>5, <2>8, <3>1, <4>1
    <3>2. CASE Of(e, k) /\ Has(t, k, i - 1)
      BY <2>2, <2>4, <2>5, <2>8, <3>2
    <3>3. CASE Of(e, k) /\ ~Has(t, k, i - 1)
      <4>1. Longer(g, f, w)
        BY <2>2, <3>3
      <4>2. Longer(Only(g, k), Only(f, k), w)
        BY <2>0, <2>3, <4>1, OnlyLonger, ZenonT(30)
      <4>3. Only(f, k) = <<>>
        BY <2>4, <2>8, <3>3
      <4> QED BY <2>5, <2>6, <3>3, <4>2, <4>3
    <3> QED BY <3>1, <3>2, <3>3
  <2> QED BY <2>7, <2>8 DEF g, q, w
<1> HIDE DEF Fact
<1>7. 0 \in T /\ \A i \in 1 .. n : i - 1 \in T => i \in T
  BY <1>3, <1>5, <1>6
<1> HIDE DEF T
<1>8. \A i \in 0 .. n : i \in T
  BY <1>1, <1>7, Upto
<1>9. n \in T
  BY <1>1, <1>8
<1> QED BY <1>1, <1>9 DEF T, Fact, n

\* PerlSetVar leaves one value of its key, and those of other keys.
LEMMA TableSetKeeps ==
    ASSUME NEW t \in Seq(Entry), NEW k \in Keys, NEW v \in Vals
    PROVE  /\ TableSet(t, k, v) \in Seq(Entry)
           /\ Only(TableSet(t, k, v), k) = <<<<k, v>>>>
           /\ \A j \in Keys : j # k => Only(TableSet(t, k, v), j) = Only(t, j)
<1>1. <<k, v>> \in Entry /\ <<k, v>>[1] = k
  BY DEF Entry
<1>2. PICK F : SetLoop(F, t, k, v, Entry)
  BY <1>1, SetLoops
<1>3. CASE Has(t, k, Len(t))
  <2>1. TableSet(t, k, v) = F[Len(t)] /\ F[Len(t)] \in Seq(Entry)
    BY <1>2, <1>3 DEF SetLoop
  <2>2. Only(F[Len(t)], k) = <<<<k, v>>>>
    BY <1>2, <1>3, SetLoopKeeps
  <2>3. ASSUME NEW j \in Keys, j # k PROVE Only(F[Len(t)], j) = Only(t, j)
    BY <1>2, <2>3, SetLoopKeeps
  <2> QED BY <2>1, <2>2, <2>3
<1>4. CASE ~Has(t, k, Len(t))
  <2>1. TableSet(t, k, v) = Append(t, <<k, v>>)
    BY <1>2, <1>4 DEF SetLoop
  <2>2. Append(t, <<k, v>>) \in Seq(Entry)
    BY <1>1
  <2>3. Only(Append(t, <<k, v>>), k) = <<<<k, v>>>>
    <3>1. Only(t, k) = <<>>
      BY <1>4, OnlyNone
    <3>2. Only(Append(t, <<k, v>>), k) = Append(Only(t, k), <<k, v>>)
      BY <1>1, OnlyAppend, Zenon
    <3> QED BY <3>1, <3>2
  <2>4. ASSUME NEW j \in Keys, j # k
        PROVE  Only(Append(t, <<k, v>>), j) = Only(t, j)
    BY <1>1, <2>4, OnlyAppend, Zenon
  <2> QED BY <2>1, <2>2, <2>3, <2>4
<1> QED BY <1>3, <1>4

-----------------------------------------------------------------------------
(* What the directives say about a key, and what a merge makes of it.      *)

\* The fields of a table.
LEMMA TabFields ==
    ASSUME NEW t \in TabType
    PROVE  /\ t.vars \in Seq(Entry) /\ t.set \in SUBSET Keys
           /\ t.env \in [Keys -> Vals \cup {NULL}]
           /\ t.scope \in {NULL, "handler", "connection"}
BY DEF TabType

\* A new section has empty tables.
LEMMA NewTabType == NewTab \in TabType
<1>1. <<>> \in Seq(Entry)
  OBVIOUS
<1>2. [k \in Keys |-> NULL] \in [Keys -> Vals \cup {NULL}]
  OBVIOUS
<1> QED BY <1>1, <1>2 DEF NewTab, TabType

\* PerlSetVar leaves one value of its key, and the other keys alone.
LEMMA SetVarEffect ==
    ASSUME NEW t \in TabType, NEW k \in Keys, NEW v \in Vals
    PROVE  /\ SetVar(t, k, v) \in TabType
           /\ SetVar(t, k, v).set = t.set \cup {k}
           /\ SetVar(t, k, v).env = t.env
           /\ SetVar(t, k, v).scope = t.scope
           /\ ValuesOf(SetVar(t, k, v), k) = <<<<k, v>>>>
           /\ \A j \in Keys : j # k => ValuesOf(SetVar(t, k, v), j) = ValuesOf(t, j)
<1> DEFINE x == TableSet(t.vars, k, v)
<1>1. /\ x \in Seq(Entry)
      /\ Only(x, k) = <<<<k, v>>>>
      /\ \A j \in Keys : j # k => Only(x, j) = Only(t.vars, j)
  BY TabFields, TableSetKeeps
<1> DEFINE S == t.set \cup {k}
<1>2. SetVar(t, k, v) = [t EXCEPT !.vars = x, !.set = S]
  BY DEF SetVar
<1>3. S \in SUBSET Keys
  BY TabFields
<1> HIDE DEF x, S
<1>4. [t EXCEPT !.vars = x, !.set = S] \in TabType
  BY <1>1, <1>3 DEF TabType
<1>5. /\ SetVar(t, k, v).set = S
      /\ SetVar(t, k, v).env = t.env
      /\ SetVar(t, k, v).scope = t.scope
      /\ SetVar(t, k, v).vars = x
  BY <1>2 DEF TabType
<1> QED BY <1>1, <1>2, <1>4, <1>5 DEF ValuesOf, Only, S

\* PerlAddVar adds a value to those of its key.
LEMMA AddVarEffect ==
    ASSUME NEW t \in TabType, NEW k \in Keys, NEW v \in Vals
    PROVE  /\ AddVar(t, k, v) \in TabType
           /\ AddVar(t, k, v).set = t.set
           /\ AddVar(t, k, v).env = t.env
           /\ AddVar(t, k, v).scope = t.scope
           /\ ValuesOf(AddVar(t, k, v), k) = Append(ValuesOf(t, k), <<k, v>>)
           /\ \A j \in Keys : j # k => ValuesOf(AddVar(t, k, v), j) = ValuesOf(t, j)
<1> DEFINE x == Append(t.vars, <<k, v>>)
<1>1. t.vars \in Seq(Entry) /\ <<k, v>> \in Entry /\ <<k, v>>[1] = k
  BY TabFields DEF Entry
<1>2. Only(x, k) = Append(Only(t.vars, k), <<k, v>>)
  BY <1>1, OnlyAppend, Zenon
<1>3. ASSUME NEW j \in Keys, j # k PROVE Only(x, j) = Only(t.vars, j)
  BY <1>1, <1>3, OnlyAppend, Zenon
<1>4. AddVar(t, k, v) = [t EXCEPT !.vars = x] /\ x \in Seq(Entry)
  BY <1>1 DEF AddVar
<1> HIDE DEF x
<1>5. /\ AddVar(t, k, v) \in TabType
      /\ AddVar(t, k, v).set = t.set
      /\ AddVar(t, k, v).env = t.env
      /\ AddVar(t, k, v).scope = t.scope
      /\ AddVar(t, k, v).vars = x
  BY <1>4 DEF TabType
<1> QED BY <1>2, <1>3, <1>5 DEF ValuesOf, Only

\* PerlSetEnv changes one key of SetEnv.
LEMMA SetEnvEffect ==
    ASSUME NEW t \in TabType, NEW k \in Keys, NEW v \in Vals
    PROVE  /\ SetEnv(t, k, v) \in TabType
           /\ SetEnv(t, k, v).set = t.set
           /\ SetEnv(t, k, v).env = [t.env EXCEPT ![k] = v]
           /\ SetEnv(t, k, v).scope = t.scope
           /\ SetEnv(t, k, v).vars = t.vars
<1>1. SetEnv(t, k, v) = [t EXCEPT !.env = [t.env EXCEPT ![k] = v]]
  BY DEF SetEnv
<1>2. [t.env EXCEPT ![k] = v] \in [Keys -> Vals \cup {NULL}]
  BY TabFields
<1> QED BY <1>1, <1>2 DEF TabType

\* Merged tables are tables.
LEMMA MergeTabType ==
    ASSUME NEW b \in TabType, NEW a \in TabType
    PROVE  MergeTab(b, a) \in TabType
<1>1. Without(b.vars, a.set) \in Seq(Entry) /\ a.vars \in Seq(Entry)
  BY TabFields, WithoutType
<1>2. MergeVars(b.vars, a.set, a.vars) \in Seq(Entry)
  BY <1>1 DEF MergeVars
<1>3. /\ b.set \cup a.set \in SUBSET Keys
      /\ [k \in Keys |-> IF a.env[k] # NULL THEN a.env[k] ELSE b.env[k]]
           \in [Keys -> Vals \cup {NULL}]
      /\ (IF a.scope # NULL THEN a.scope ELSE b.scope)
           \in {NULL, "handler", "connection"}
  BY TabFields
<1> QED BY <1>2, <1>3 DEF MergeTab, TabType

\* A section's PerlSetVar hides what the sections around it say about the key,
\* and its PerlAddVar adds to it.
LEMMA ValuesMerged ==
    ASSUME NEW b \in TabType, NEW a \in TabType, NEW k \in Keys
    PROVE  ValuesOf(MergeTab(b, a), k) =
             (IF k \in a.set THEN <<>> ELSE ValuesOf(b, k)) \o ValuesOf(a, k)
<1>1. b.vars \in Seq(Entry) /\ a.vars \in Seq(Entry) /\ a.set \in SUBSET Keys
  BY TabFields
<1> DEFINE x == Without(b.vars, a.set)
<1>2. x \in Seq(Entry)
  BY <1>1, WithoutType
<1>3. Only(x, k) = IF k \in a.set THEN <<>> ELSE Only(b.vars, k)
  BY <1>1, OnlyWithout
<1>4. MergeTab(b, a).vars = x \o a.vars
  BY DEF MergeTab, MergeVars
<1> HIDE DEF x
<1>5. Only(x \o a.vars, k) = Only(x, k) \o Only(a.vars, k)
  BY <1>1, <1>2, OnlyConcat
<1> QED BY <1>3, <1>4, <1>5 DEF ValuesOf, Only

\* Three tables may be merged from either side.
LEMMA MergeTabAssociative ==
    ASSUME NEW b \in TabType, NEW a \in TabType, NEW c \in TabType
    PROVE  MergeTab(MergeTab(b, a), c) = MergeTab(b, MergeTab(a, c))
<1> DEFINE L == MergeTab(MergeTab(b, a), c)
           R == MergeTab(b, MergeTab(a, c))
<1>1. b.vars \in Seq(Entry) /\ a.vars \in Seq(Entry) /\ c.vars \in Seq(Entry)
  BY TabFields
<1>2. L.vars = R.vars
  BY <1>1, MergeVarsAssociative DEF MergeTab
<1>3. L.set = R.set
  BY DEF MergeTab
<1>4. L.env = R.env
  BY DEF MergeTab
<1>5. L.scope = R.scope
  BY DEF MergeTab
<1>6. /\ L = [vars |-> L.vars, set |-> L.set, env |-> L.env, scope |-> L.scope]
      /\ R = [vars |-> R.vars, set |-> R.set, env |-> R.env, scope |-> R.scope]
  BY DEF MergeTab
<1> HIDE DEF L, R
<1>7. L = R
  BY <1>2, <1>3, <1>4, <1>5, <1>6
<1> QED BY <1>7 DEF L, R

-----------------------------------------------------------------------------
(* A directive in a section says the same as after the merge.              *)

\* The three directives.
Ops == {"set", "add", "env"}
Do(op, t, k, v) == IF op = "set" THEN SetVar(t, k, v)
                   ELSE IF op = "add" THEN AddVar(t, k, v)
                   ELSE SetEnv(t, k, v)

\* n says what m says, but for what the directive changes.
Says(op, n, m, k, v) ==
    /\ n.env = IF op = "env" THEN [m.env EXCEPT ![k] = v] ELSE m.env
    /\ \A j \in Keys : j # k => ValuesOf(n, j) = ValuesOf(m, j)
    /\ op = "env" => ValuesOf(n, k) = ValuesOf(m, k)
    /\ op = "add" => ValuesOf(n, k) = Append(ValuesOf(m, k), <<k, v>>)
    /\ op = "set" => ValuesOf(n, k) = <<<<k, v>>>>

\* What each of the three directives says.
LEMMA DoSays ==
    ASSUME NEW op \in Ops, NEW t \in TabType, NEW k \in Keys, NEW v \in Vals
    PROVE  /\ Do(op, t, k, v) \in TabType
           /\ Do(op, t, k, v).scope = t.scope
           /\ Do(op, t, k, v).set = IF op = "set" THEN t.set \cup {k} ELSE t.set
           /\ Says(op, Do(op, t, k, v), t, k, v)
<1>1. CASE op = "set"
  BY <1>1, SetVarEffect DEF Do, Says
<1>2. CASE op = "add"
  BY <1>2, AddVarEffect DEF Do, Says
<1>3. CASE op = "env"
  BY <1>3, SetEnvEffect DEF Do, Says, ValuesOf
<1> QED BY <1>1, <1>2, <1>3 DEF Ops

\* The values of a key are entries.
LEMMA ValuesType ==
    ASSUME NEW t \in TabType, NEW k
    PROVE  ValuesOf(t, k) \in Seq(Entry)
BY TabFields, WithoutType DEF ValuesOf

\* The directive in the section that is merged last.
LEMMA MergeSays ==
    ASSUME NEW op \in Ops, NEW b \in TabType, NEW a \in TabType,
           NEW k \in Keys, NEW v \in Vals
    PROVE  Says(op, MergeTab(b, Do(op, a, k, v)), MergeTab(b, a), k, v)
<1> DEFINE c == Do(op, a, k, v)
           m == MergeTab(b, a)
           n == MergeTab(b, c)
<1>1. /\ c \in TabType
      /\ c.set = IF op = "set" THEN a.set \cup {k} ELSE a.set
      /\ Says(op, c, a, k, v)
  BY DoSays
<1> HIDE DEF c
<1>2. n.env = IF op = "env" THEN [m.env EXCEPT ![k] = v] ELSE m.env
  <2>1. /\ n.env = [j \in Keys |-> IF c.env[j] # NULL THEN c.env[j] ELSE b.env[j]]
        /\ m.env = [j \in Keys |-> IF a.env[j] # NULL THEN a.env[j] ELSE b.env[j]]
    BY DEF MergeTab
  <2>2. CASE op # "env"
    BY <1>1, <2>1, <2>2 DEF Says
  <2>3. CASE op = "env"
    <3>1. c.env = [a.env EXCEPT ![k] = v] /\ v # NULL
      BY <1>1, <2>3, ConfigAssumption DEF Says
    <3>2. a.env \in [Keys -> Vals \cup {NULL}]
      BY TabFields
    <3> HIDE DEF m, n
    <3>3. n.env = [m.env EXCEPT ![k] = v]
      BY <2>1, <3>1, <3>2, SMTT(20)
    <3> QED BY <2>3, <3>3
  <2> QED BY <2>2, <2>3
<1>3. ASSUME NEW j \in Keys
      PROVE  /\ ValuesOf(m, j) = (IF j \in a.set THEN <<>> ELSE ValuesOf(b, j))
                                   \o ValuesOf(a, j)
             /\ ValuesOf(n, j) = (IF j \in c.set THEN <<>> ELSE ValuesOf(b, j))
                                   \o ValuesOf(c, j)
  BY <1>1, ValuesMerged
<1> HIDE DEF m, n
<1>4. ASSUME NEW j \in Keys, j # k PROVE ValuesOf(n, j) = ValuesOf(m, j)
  <2>1. ValuesOf(c, j) = ValuesOf(a, j) /\ (j \in c.set <=> j \in a.set)
    BY <1>1, <1>4 DEF Says
  <2> QED BY <1>3, <2>1
<1>5. ASSUME op = "env" PROVE ValuesOf(n, k) = ValuesOf(m, k)
  <2>1. ValuesOf(c, k) = ValuesOf(a, k) /\ (k \in c.set <=> k \in a.set)
    BY <1>1, <1>5 DEF Says
  <2> QED BY <1>3, <2>1
<1>6. ASSUME op = "set" PROVE ValuesOf(n, k) = <<<<k, v>>>>
  <2>1. ValuesOf(c, k) = <<<<k, v>>>> /\ k \in c.set
    BY <1>1, <1>6 DEF Says
  <2>2. ValuesOf(n, k) = <<>> \o <<<<k, v>>>>
    BY <1>3, <2>1
  <2> QED BY <2>2
<1>7. ASSUME op = "add"
      PROVE  ValuesOf(n, k) = Append(ValuesOf(m, k), <<k, v>>)
  <2> DEFINE x == IF k \in a.set THEN <<>> ELSE ValuesOf(b, k)
             y == ValuesOf(a, k)
             e == <<k, v>>
  <2>1. ValuesOf(c, k) = Append(y, e) /\ (k \in c.set <=> k \in a.set)
    BY <1>1, <1>7 DEF Says
  <2>2. ValuesOf(m, k) = x \o y /\ ValuesOf(n, k) = x \o Append(y, e)
    BY <1>3, <2>1
  <2>3. x \in Seq(Entry) /\ y \in Seq(Entry) /\ e \in Entry
    BY ValuesType DEF Entry
  <2> HIDE DEF x, y, e
  <2>4. x \o Append(y, e) = Append(x \o y, e)
    BY ONLY <2>3, AppendConcat
  <2> QED BY <2>2, <2>4 DEF e
<1> QED BY <1>2, <1>4, <1>5, <1>6, <1>7 DEF Says, m, n, c

\* The directive is given twice, in tables that say the same.
LEMMA SaysSame ==
    ASSUME NEW op \in Ops, NEW n, NEW m, NEW x, NEW w, NEW k \in Keys, NEW v,
           Says(op, n, m, k, v), Says(op, x, w, k, v), SameTab(m, w)
    PROVE  SameTab(n, x)
<1>1. n.env = x.env
  BY DEF Says, SameTab
<1>2. ASSUME NEW j \in Keys, j # k PROVE ValuesOf(n, j) = ValuesOf(x, j)
  BY <1>2 DEF Says, SameTab
<1>3. ValuesOf(n, k) = ValuesOf(x, k)
  <2>1. ValuesOf(m, k) = ValuesOf(w, k)
    BY DEF SameTab
  <2> QED BY <2>1 DEF Says, Ops
<1> QED BY <1>1, <1>2, <1>3 DEF SameTab

\* A section without directives changes nothing.
LEMMA MergeNewTab ==
    ASSUME NEW b \in TabType
    PROVE  SameTab(MergeTab(b, NewTab), b) /\ MergeTab(b, NewTab).scope = b.scope
<1>1. NewTab.set = {} /\ NewTab.env = [k \in Keys |-> NULL] /\ NewTab.scope = NULL
  BY DEF NewTab
<1>2. ASSUME NEW k \in Keys PROVE ValuesOf(MergeTab(b, NewTab), k) = ValuesOf(b, k)
  <2>1. ValuesOf(NewTab, k) = <<>>
    BY WithoutEmpty DEF ValuesOf, NewTab
  <2>2. ValuesOf(b, k) \in Seq(Entry)
    BY ValuesType
  <2>4. ValuesOf(MergeTab(b, NewTab), k) =
          (IF k \in NewTab.set THEN <<>> ELSE ValuesOf(b, k)) \o ValuesOf(NewTab, k)
    BY NewTabType, ValuesMerged
  <2>3. ValuesOf(MergeTab(b, NewTab), k) = ValuesOf(b, k) \o <<>>
    BY <1>1, <2>1, <2>4
  <2> QED BY <2>2, <2>3
<1>3. MergeTab(b, NewTab).env = b.env
  BY <1>1, TabFields DEF MergeTab
<1>4. MergeTab(b, NewTab).scope = b.scope
  BY <1>1 DEF MergeTab
<1> QED BY <1>2, <1>3, <1>4 DEF SameTab

-----------------------------------------------------------------------------
(* Interpreters: what is loaded in them and what they were started with.   *)

\* What an interpreter P.mip[s] has loaded for the server s.
LoadedFor(P, s) == IF P.mip[s] = NULL THEN {} ELSE P.loaded[P.mip[s]]

\* With the lists C of the servers and the modules W that they want: those are
\* listed or loaded, and the list is loaded once there is an interpreter.
PerlOK(P, C, W) ==
    /\ P \in PerlType
    /\ P.mip["main"] = IF P.running THEN "main" ELSE NULL
    /\ P.mip["vhost"] # NULL => P.running
    /\ \A s \in Servers : P.mip[s] # NULL => C[s].list \subseteq LoadedFor(P, s)
    /\ \A s \in Servers : W[s] \subseteq C[s].list \cup C[s].post \cup LoadedFor(P, s)

\* The interpreters were started with the switches of their servers.
ArgvOK(P, C) ==
    \A s \in Servers : P.mip[s] = s => P.argv[s] = C[s].argv

\* The state changes of modperl_startup and modperl_init_vhost, field by field.
Becomes(Q, r, mip, loaded, argv) ==
    /\ Q \in PerlType
    /\ Q.running = r /\ Q.mip = mip /\ Q.loaded = loaded /\ Q.argv = argv

\* The fields of the interpreters.
LEMMA PerlFields ==
    ASSUME NEW P \in PerlType
    PROVE  /\ P.running \in BOOLEAN
           /\ P.mip \in [Servers -> {NULL, "main", "vhost"}]
           /\ P.loaded \in [Servers -> SUBSET Modules]
           /\ P.argv \in [Servers -> SUBSET Switches]
BY DEF PerlType

\* There are two servers.
LEMMA ServersAre == "main" \in Servers /\ "vhost" \in Servers
                    /\ \A s \in Servers : s = "main" \/ s = "vhost"
BY DEF Servers

\* modperl_startup of the main server
StartWith(P, c) ==
    [P EXCEPT !.running = TRUE, !.mip["main"] = "main",
              !.loaded["main"] = Apply(@, c), !.argv["main"] = c.argv]

\* modperl_startup of the main server, field by field.
LEMMA StartFields ==
    ASSUME NEW P \in PerlType, NEW c \in ServerType
    PROVE  Becomes(StartWith(P, c), TRUE, [P.mip EXCEPT !["main"] = "main"],
                   [P.loaded EXCEPT !["main"] = P.loaded["main"] \cup c.list],
                   [P.argv EXCEPT !["main"] = c.argv])
<1> DEFINE m == [P.mip EXCEPT !["main"] = "main"]
           l == [P.loaded EXCEPT !["main"] = P.loaded["main"] \cup c.list]
           a == [P.argv EXCEPT !["main"] = c.argv]
<1>1. c.list \in SUBSET Modules /\ c.argv \in SUBSET Switches
  BY DEF ServerType
<1>2. /\ m \in [Servers -> {NULL, "main", "vhost"}]
      /\ l \in [Servers -> SUBSET Modules]
      /\ a \in [Servers -> SUBSET Switches]
  BY <1>1, PerlFields, ServersAre
<1>3. StartWith(P, c) = [P EXCEPT !.running = TRUE, !.mip = m, !.loaded = l,
                                  !.argv = a]
  BY PerlFields, ServersAre DEF StartWith, Apply, PerlType
<1> HIDE DEF m, l, a
<1>4. [P EXCEPT !.running = TRUE, !.mip = m, !.loaded = l, !.argv = a]
        \in PerlType
  BY <1>2 DEF PerlType
<1>5. /\ StartWith(P, c).running = TRUE
      /\ StartWith(P, c).mip = m
      /\ StartWith(P, c).loaded = l
      /\ StartWith(P, c).argv = a
  BY <1>3 DEF PerlType
<1> QED BY <1>3, <1>4, <1>5 DEF Becomes, m, l, a

\* modperl_init_vhost: an interpreter of its own, or the main server's.
LEMMA VhostFields ==
    ASSUME NEW P \in PerlType, NEW c \in ServerType, NEW opts,
           P.mip["vhost"] = NULL
    PROVE  /\ Parent \in opts =>
                Becomes(InitVhost(P, opts, c), P.running,
                        [P.mip EXCEPT !["vhost"] = "vhost"],
                        [P.loaded EXCEPT !["vhost"] = c.list],
                        [P.argv EXCEPT !["vhost"] = c.argv])
           /\ Parent \notin opts =>
                Becomes(InitVhost(P, opts, c), P.running,
                        [P.mip EXCEPT !["vhost"] = "main"],
                        [P.loaded EXCEPT !["main"] = P.loaded["main"] \cup c.list],
                        P.argv)
<1>1. c.list \in SUBSET Modules /\ c.argv \in SUBSET Switches
  BY DEF ServerType
<1>2. ASSUME Parent \in opts
      PROVE  Becomes(InitVhost(P, opts, c), P.running,
                     [P.mip EXCEPT !["vhost"] = "vhost"],
                     [P.loaded EXCEPT !["vhost"] = c.list],
                     [P.argv EXCEPT !["vhost"] = c.argv])
  <2> DEFINE m == [P.mip EXCEPT !["vhost"] = "vhost"]
             l == [P.loaded EXCEPT !["vhost"] = c.list]
             a == [P.argv EXCEPT !["vhost"] = c.argv]
             Q == InitVhost(P, opts, c)
  <2>1. /\ m \in [Servers -> {NULL, "main", "vhost"}]
        /\ l \in [Servers -> SUBSET Modules]
        /\ a \in [Servers -> SUBSET Switches]
    BY <1>1, PerlFields, ServersAre
  <2>2. {} \cup c.list = c.list
    OBVIOUS
  <2>3. Q = [P EXCEPT !.mip = m, !.loaded = l, !.argv = a]
    BY <1>2, <2>2, PerlFields, ServersAre DEF InitVhost, Apply, PerlType
  <2> HIDE DEF m, l, a, Q
  <2>4. [P EXCEPT !.mip = m, !.loaded = l, !.argv = a] \in PerlType
    BY <2>1 DEF PerlType
  <2>5. /\ Q.running = P.running /\ Q.mip = m
        /\ Q.loaded = l /\ Q.argv = a
    BY <2>3 DEF PerlType
  <2>6. Becomes(Q, P.running, m, l, a)
    BY <2>3, <2>4, <2>5 DEF Becomes
  <2> QED BY <2>6 DEF m, l, a, Q
<1>3. ASSUME Parent \notin opts
      PROVE  Becomes(InitVhost(P, opts, c), P.running,
                     [P.mip EXCEPT !["vhost"] = "main"],
                     [P.loaded EXCEPT !["main"] = P.loaded["main"] \cup c.list],
                     P.argv)
  <2> DEFINE m == [P.mip EXCEPT !["vhost"] = "main"]
             l == [P.loaded EXCEPT !["main"] = P.loaded["main"] \cup c.list]
             Q == InitVhost(P, opts, c)
  <2>1. /\ m \in [Servers -> {NULL, "main", "vhost"}]
        /\ l \in [Servers -> SUBSET Modules]
    BY <1>1, PerlFields, ServersAre
  <2>3. Q = [P EXCEPT !.mip = m, !.loaded = l]
    BY <1>3, PerlFields, ServersAre DEF InitVhost, Apply, PerlType
  <2> HIDE DEF m, l, Q
  <2>4. [P EXCEPT !.mip = m, !.loaded = l] \in PerlType
    BY <2>1 DEF PerlType
  <2>5. /\ Q.running = P.running /\ Q.mip = m
        /\ Q.loaded = l /\ Q.argv = P.argv
    BY <2>3 DEF PerlType
  <2>6. Becomes(Q, P.running, m, l, P.argv)
    BY <2>3, <2>4, <2>5 DEF Becomes
  <2> QED BY <2>6 DEF m, l, Q
<1> QED BY <1>2, <1>3

\* Starting the main server's interpreter.
LEMMA StartKeeps ==
    ASSUME NEW P, NEW C \in [Servers -> ServerType], NEW W, PerlOK(P, C, W),
           ~P.running
    PROVE  /\ PerlOK(StartWith(P, C["main"]), C, W)
           /\ StartWith(P, C["main"]).running
           /\ ArgvOK(StartWith(P, C["main"]), C)
<1> DEFINE Q == StartWith(P, C["main"])
           c == C["main"]
<1>1. P \in PerlType /\ c \in ServerType
  BY ServersAre DEF PerlOK
<1>2. P.mip["main"] = NULL /\ P.mip["vhost"] = NULL
  BY DEF PerlOK
<1>3. Becomes(Q, TRUE, [P.mip EXCEPT !["main"] = "main"],
              [P.loaded EXCEPT !["main"] = P.loaded["main"] \cup c.list],
              [P.argv EXCEPT !["main"] = c.argv])
  BY <1>1, StartFields
<1> HIDE DEF Q
<1>4. /\ Q \in PerlType /\ Q.running = TRUE
      /\ Q.mip["main"] = "main" /\ Q.mip["vhost"] = NULL
      /\ c.list \subseteq Q.loaded["main"]
      /\ Q.argv["main"] = c.argv
  BY <1>1, <1>2, <1>3, PerlFields, ServersAre DEF Becomes
<1>5. LoadedFor(P, "main") = {} /\ LoadedFor(P, "vhost") = {}
      /\ c.list \subseteq LoadedFor(Q, "main")
  BY <1>2, <1>4, ConfigAssumption DEF LoadedFor
<1>6. PerlOK(Q, C, W)
  BY <1>2, <1>4, <1>5, ServersAre, ConfigAssumption DEF PerlOK
<1>7. ArgvOK(Q, C)
  BY <1>4, ServersAre, ConfigAssumption DEF ArgvOK
<1> QED BY <1>4, <1>6, <1>7 DEF Q

\* Giving the virtual host an interpreter.
LEMMA VhostKeeps ==
    ASSUME NEW P, NEW C \in [Servers -> ServerType], NEW W, PerlOK(P, C, W),
           P.running, NEW opts, NEW c \in ServerType, c.list = C["vhost"].list
    PROVE  /\ PerlOK(InitVhost(P, opts, c), C, W)
           /\ InitVhost(P, opts, c).running
           /\ InitVhost(P, opts, c).mip["vhost"] # NULL
           /\ ArgvOK(P, C) /\ c.argv = C["vhost"].argv =>
                ArgvOK(InitVhost(P, opts, c), C)
           /\ P.mip["vhost"] = NULL /\ InitVhost(P, opts, c).mip["vhost"] = "vhost"
                => InitVhost(P, opts, c).argv["vhost"] = c.argv
           /\ InitVhost(P, opts, c).argv["main"] = P.argv["main"]
<1> DEFINE Q == InitVhost(P, opts, c)
<1>1. P \in PerlType /\ P.mip["main"] = "main"
  BY DEF PerlOK
<1>2. CASE P.mip["vhost"] # NULL
  <2>1. Q = P
    BY <1>2 DEF InitVhost
  <2> HIDE DEF Q
  <2>2. /\ PerlOK(Q, C, W) /\ Q.running /\ Q.mip["vhost"] # NULL
        /\ (ArgvOK(P, C) => ArgvOK(Q, C))
        /\ Q.argv["main"] = P.argv["main"]
    BY <1>2, <2>1
  <2> QED BY <1>2, <2>2 DEF Q
<1>3. CASE P.mip["vhost"] = NULL /\ Parent \in opts
  <2>1. Becomes(Q, P.running, [P.mip EXCEPT !["vhost"] = "vhost"],
                [P.loaded EXCEPT !["vhost"] = c.list],
                [P.argv EXCEPT !["vhost"] = c.argv])
    BY <1>1, <1>3, VhostFields
  <2> HIDE DEF Q
  <2>2. /\ Q \in PerlType /\ Q.running = P.running
        /\ Q.mip["main"] = "main" /\ Q.mip["vhost"] = "vhost"
        /\ Q.loaded["main"] = P.loaded["main"] /\ Q.loaded["vhost"] = c.list
        /\ Q.argv["main"] = P.argv["main"] /\ Q.argv["vhost"] = c.argv
    BY <1>1, <2>1, PerlFields, ServersAre DEF Becomes
  <2>3. /\ LoadedFor(P, "vhost") = {} /\ LoadedFor(Q, "vhost") = c.list
        /\ LoadedFor(Q, "main") = LoadedFor(P, "main")
    BY <1>1, <1>3, <2>2, ConfigAssumption DEF LoadedFor
  <2>4. PerlOK(Q, C, W)
    BY <1>1, <2>2, <2>3, ServersAre, ConfigAssumption DEF PerlOK
  <2>5. ArgvOK(P, C) /\ c.argv = C["vhost"].argv => ArgvOK(Q, C)
    BY <1>1, <2>2, ServersAre DEF ArgvOK
  <2> QED BY <2>2, <2>4, <2>5, ConfigAssumption DEF Q
<1>4. CASE P.mip["vhost"] = NULL /\ Parent \notin opts
  <2>1. Becomes(Q, P.running, [P.mip EXCEPT !["vhost"] = "main"],
                [P.loaded EXCEPT !["main"] = P.loaded["main"] \cup c.list],
                P.argv)
    BY <1>1, <1>4, VhostFields
  <2> HIDE DEF Q
  <2>2. /\ Q \in PerlType /\ Q.running = P.running
        /\ Q.mip["main"] = "main" /\ Q.mip["vhost"] = "main"
        /\ Q.loaded["main"] = P.loaded["main"] \cup c.list
        /\ Q.argv = P.argv
    BY <1>1, <2>1, PerlFields, ServersAre DEF Becomes
  <2>3. /\ LoadedFor(P, "vhost") = {} /\ c.list \subseteq LoadedFor(Q, "vhost")
        /\ LoadedFor(P, "main") \subseteq LoadedFor(Q, "main")
    BY <1>1, <1>4, <2>2, ConfigAssumption DEF LoadedFor
  <2>4. PerlOK(Q, C, W)
    BY <1>1, <2>2, <2>3, ServersAre, ConfigAssumption DEF PerlOK
  <2>5. ArgvOK(P, C) => ArgvOK(Q, C)
    BY <1>1, <2>2, ServersAre, ConfigAssumption DEF ArgvOK
  <2> QED BY <2>2, <2>4, <2>5, ConfigAssumption DEF Q
<1> QED BY <1>2, <1>3, <1>4

\* A module is loaded at once for the server s, and the server wants it.
LoadIn(P, s, m) == [P EXCEPT !.loaded[P.mip[s]] = @ \cup {m}]
Want(W, s, m) == [W EXCEPT ![s] = @ \cup {m}]

\* PerlModule with Perl running: loaded at once.
LEMMA LoadKeeps ==
    ASSUME NEW P, NEW C, NEW W \in [Servers -> SUBSET Modules], PerlOK(P, C, W),
           NEW s \in Servers, NEW m \in Modules, P.mip[s] # NULL,
           NEW Q, Q = LoadIn(P, s, m), NEW V, V = Want(W, s, m)
    PROVE  /\ PerlOK(Q, C, V)
           /\ ArgvOK(P, C) => ArgvOK(Q, C)
<1> DEFINE i == P.mip[s]
           l == [P.loaded EXCEPT ![i] = P.loaded[i] \cup {m}]
<1>1. P \in PerlType
  BY DEF PerlOK
<1>2. i \in Servers
  BY <1>1, PerlFields DEF Servers
<1> HIDE DEF i
<1>3. Q = [P EXCEPT !.loaded = l]
  BY <1>1, <1>2, PerlFields DEF PerlType, i, LoadIn
<1>4. l \in [Servers -> SUBSET Modules]
  BY <1>1, <1>2, PerlFields
<1>5. /\ \A t \in Servers : P.loaded[t] \subseteq l[t]
      /\ m \in l[i]
  BY <1>1, <1>2, PerlFields
<1> HIDE DEF l
<1>6. [P EXCEPT !.loaded = l] \in PerlType
  BY <1>1, <1>4 DEF PerlType
<1>7. Q.running = P.running /\ Q.mip = P.mip /\ Q.loaded = l /\ Q.argv = P.argv
  BY <1>1, <1>3 DEF PerlType
<1>8. \A t \in Servers : LoadedFor(P, t) \subseteq LoadedFor(Q, t)
  <2>1. \A t \in Servers : P.mip[t] # NULL => P.mip[t] \in Servers
    BY <1>1, PerlFields DEF Servers
  <2> QED BY <1>5, <1>7, <2>1 DEF LoadedFor
<1>9. m \in LoadedFor(Q, s)
  BY <1>5, <1>7 DEF LoadedFor, i
<1>10. /\ V[s] = W[s] \cup {m}
       /\ \A t \in Servers : t # s => V[t] = W[t]
  BY DEF Want
<1>11. PerlOK(Q, C, V)
  BY <1>3, <1>6, <1>7, <1>8, <1>9, <1>10 DEF PerlOK
<1>12. ArgvOK(P, C) => ArgvOK(Q, C)
  BY <1>7 DEF ArgvOK
<1> QED BY <1>11, <1>12

\* D has in the place of C[s] the lists c.
LEMMA ServerUpdate ==
    ASSUME NEW C \in [Servers -> ServerType], NEW s \in Servers,
           NEW c \in ServerType
    PROVE  /\ [C EXCEPT ![s] = c] \in [Servers -> ServerType]
           /\ [C EXCEPT ![s] = c][s] = c
           /\ \A t \in Servers : t # s => [C EXCEPT ![s] = c][t] = C[t]
OBVIOUS

\* The lists C of the server s grow to D, and what it wants is added to them;
\* the list of PerlModule grows only while there is no interpreter P.
Grow(P, C, D, W, V, s) ==
    /\ \A t \in Servers \ {s} : D[t] = C[t] /\ V[t] = W[t]
    /\ C[s].list \subseteq D[s].list /\ C[s].post \subseteq D[s].post
    /\ D[s].list = C[s].list \/ P.mip[s] = NULL
    /\ V[s] \subseteq W[s] \cup D[s].list \cup D[s].post

\* PerlModule before that, and PerlPostConfigRequire: put on a list.
LEMMA ListsKeep ==
    ASSUME NEW P, NEW C, NEW D, NEW W, NEW V, NEW s \in Servers, PerlOK(P, C, W),
           Grow(P, C, D, W, V, s)
    PROVE  PerlOK(P, D, V)
<1>1. \A t \in Servers : P.mip[t] # NULL => D[t].list \subseteq LoadedFor(P, t)
  BY DEF PerlOK, Grow
<1>2. \A t \in Servers : V[t] \subseteq D[t].list \cup D[t].post \cup LoadedFor(P, t)
  <2>1. \A t \in Servers : W[t] \subseteq C[t].list \cup C[t].post \cup LoadedFor(P, t)
    BY DEF PerlOK
  <2>2. V[s] \subseteq D[s].list \cup D[s].post \cup LoadedFor(P, s)
    <3>1. W[s] \subseteq C[s].list \cup C[s].post \cup LoadedFor(P, s)
      BY <2>1
    <3> QED BY <3>1 DEF Grow
  <2>3. ASSUME NEW t \in Servers, t # s
        PROVE  V[t] \subseteq D[t].list \cup D[t].post \cup LoadedFor(P, t)
    BY <2>1, <2>3 DEF Grow
  <2> QED BY <2>2, <2>3
<1> QED BY <1>1, <1>2 DEF PerlOK

-----------------------------------------------------------------------------
(* The invariant of the interpreters, and the steps.                       *)

PerlInv ==
    /\ scfg \in [Servers -> ServerType]
    /\ wanted \in [Servers -> SUBSET Modules]
    /\ server \in Servers
    /\ stage \in {"reading", "started", "serving"}
    /\ PerlOK(perl, scfg, wanted)
    /\ stage = "reading" => ArgvOK(perl, scfg)
    /\ stage # "reading" => SwitchesUsed
    /\ stage = "serving" => ModulesLoaded

\* What the server being read has before a directive loads a module.
LEMMA VhostReady ==
    ASSUME scfg \in [Servers -> ServerType], server \in Servers,
           NEW P, PerlOK(P, scfg, wanted), ArgvOK(P, scfg), P.running
    PROVE  /\ PerlOK(Vhost(P), scfg, wanted)
           /\ ArgvOK(Vhost(P), scfg)
           /\ Vhost(P).running
           /\ Vhost(P).mip[server] # NULL
<1>1. CASE server = "vhost"
  <2>1. Vhost(P) = InitVhost(P, OwnOptions, scfg["vhost"])
    BY <1>1 DEF Vhost
  <2>2. scfg["vhost"] \in ServerType
    BY ServersAre
  <2> QED BY <1>1, <2>1, <2>2, VhostKeeps
<1>2. CASE server = "main"
  <2>1. Vhost(P) = P
    BY <1>2 DEF Vhost
  <2>2. P.mip["main"] = "main"
    BY DEF PerlOK
  <2> QED BY <1>2, <2>1, <2>2, ConfigAssumption
<1> QED BY <1>1, <1>2, ServersAre

\* modperl_run
LEMMA RunReady ==
    ASSUME scfg \in [Servers -> ServerType], server \in Servers,
           PerlOK(perl, scfg, wanted), ArgvOK(perl, scfg)
    PROVE  /\ PerlOK(Run(perl), scfg, wanted)
           /\ ArgvOK(Run(perl), scfg)
           /\ Run(perl).running
<1>1. CASE perl.running
  BY <1>1 DEF Run
<1>2. CASE ~perl.running
  <2> DEFINE P == StartMain(perl)
  <2>1. P = StartWith(perl, scfg["main"])
    BY DEF StartMain, StartWith
  <2>2. PerlOK(P, scfg, wanted) /\ ArgvOK(P, scfg) /\ P.running
    BY <1>2, <2>1, StartKeeps
  <2> HIDE DEF P
  <2>3. Run(perl) = Vhost(P)
    BY <1>2 DEF Run, P
  <2> QED BY <2>2, <2>3, VhostReady
<1> QED BY <1>1, <1>2

\* PerlModule, PerlRequire, PerlLoadModule and PerlConfigRequire.
LEMMA PerlModuleKeeps ==
    ASSUME PerlInv, NEW m \in Modules, NEW early \in BOOLEAN,
           PerlModule(m, early)
    PROVE  PerlInv'
<1> DEFINE P == IF early THEN Run(perl) ELSE perl
           Q == Vhost(P)
<1>1. /\ scfg \in [Servers -> ServerType] /\ server \in Servers
      /\ wanted \in [Servers -> SUBSET Modules]
      /\ stage = "reading" /\ stage' = stage /\ server' = server
      /\ PerlOK(perl, scfg, wanted) /\ ArgvOK(perl, scfg)
  BY DEF PerlInv, PerlModule, Directive
<1>2. PerlOK(P, scfg, wanted) /\ ArgvOK(P, scfg)
  BY <1>1, RunReady
<1>3. P.running => /\ PerlOK(Q, scfg, wanted) /\ ArgvOK(Q, scfg)
                   /\ Q.mip[server] # NULL
  BY <1>1, <1>2, VhostReady
<1>4. /\ wanted' = [wanted EXCEPT ![server] = IF refused' THEN @ ELSE @ \cup {m}]
      /\ ~refused' /\ P.running =>
           perl' = [Q EXCEPT !.loaded[Q.mip[server]] = @ \cup {m}]
      /\ ~(~refused' /\ P.running) => perl' = P
      /\ ~refused' /\ ~P.running =>
           scfg' = [scfg EXCEPT ![server].list = @ \cup {m}]
      /\ ~(~refused' /\ ~P.running) => scfg' = scfg
  BY DEF PerlModule
<1> HIDE DEF P, Q
<1>5. ASSUME scfg' \in [Servers -> ServerType],
             wanted' \in [Servers -> SUBSET Modules],
             PerlOK(perl', scfg', wanted'), ArgvOK(perl', scfg')
      PROVE  PerlInv'
  BY <1>1, <1>5 DEF PerlInv
<1>6. CASE refused'
  <2>1. wanted' = wanted
    BY <1>1, <1>4, <1>6
  <2> QED BY <1>1, <1>2, <1>4, <1>5, <1>6, <2>1
<1>7. CASE ~refused' /\ P.running
  <2>1. wanted' = [wanted EXCEPT ![server] = @ \cup {m}]
    BY <1>4, <1>7
  <2>2. wanted' \in [Servers -> SUBSET Modules]
    BY <1>1, <2>1
  <2>4. /\ PerlOK(Q, scfg, wanted) /\ Q.mip[server] # NULL /\ ArgvOK(Q, scfg)
        /\ perl' = LoadIn(Q, server, m) /\ wanted' = Want(wanted, server, m)
    BY <1>3, <1>4, <1>7, <2>1 DEF LoadIn, Want
  <2>3. PerlOK(perl', scfg, wanted') /\ ArgvOK(perl', scfg)
    BY <1>1, <2>4, LoadKeeps, Zenon
  <2> QED BY <1>1, <1>4, <1>5, <1>7, <2>2, <2>3
<1>8. CASE ~refused' /\ ~P.running
  <2>1. wanted' = [wanted EXCEPT ![server] = @ \cup {m}] /\ perl' = P
    BY <1>4, <1>8
  <2>2. wanted' \in [Servers -> SUBSET Modules]
    BY <1>1, <2>1
  <2> DEFINE c == [scfg[server] EXCEPT !.list = @ \cup {m}]
  <2>3. scfg' = [scfg EXCEPT ![server] = c]
    BY <1>1, <1>4, <1>8
  <2>4. /\ c \in ServerType /\ c.list = scfg[server].list \cup {m}
        /\ c.post = scfg[server].post /\ c.argv = scfg[server].argv
    BY <1>1 DEF ServerType
  <2> HIDE DEF c
  <2>5. /\ scfg' \in [Servers -> ServerType]
        /\ scfg'[server] = c
        /\ \A t \in Servers : t # server => scfg'[t] = scfg[t]
    BY <1>1, <2>3, <2>4, ServerUpdate
  <2>6. P.mip["main"] = NULL /\ P.mip["vhost"] = NULL
    BY <1>2, <1>8 DEF PerlOK
  <2>7. P.mip[server] = NULL
    BY <1>1, <2>6, ServersAre
  <2>8. /\ wanted'[server] = wanted[server] \cup {m}
        /\ \A t \in Servers : t # server => wanted'[t] = wanted[t]
    BY <1>1, <2>1
  <2>9. PerlOK(P, scfg', wanted')
    <3>1. Grow(P, scfg, scfg', wanted, wanted', server)
      BY <2>4, <2>5, <2>7, <2>8 DEF Grow
    <3> QED BY <1>1, <1>2, <3>1, ListsKeep, Zenon
  <2>10. ArgvOK(P, scfg')
    BY <2>6, ServersAre, ConfigAssumption DEF ArgvOK
  <2> QED BY <1>5, <2>1, <2>2, <2>5, <2>9, <2>10
<1> QED BY <1>6, <1>7, <1>8

\* PerlPostConfigRequire
LEMMA PostConfigRequireKeeps ==
    ASSUME PerlInv, NEW m \in Modules, PerlPostConfigRequire(m)
    PROVE  PerlInv'
<1> DEFINE c == [scfg[server] EXCEPT !.post = @ \cup {m}]
<1>1. /\ scfg \in [Servers -> ServerType] /\ server \in Servers
      /\ wanted \in [Servers -> SUBSET Modules]
      /\ stage = "reading" /\ stage' = stage /\ server' = server
      /\ PerlOK(perl, scfg, wanted) /\ ArgvOK(perl, scfg)
      /\ wanted' = [wanted EXCEPT ![server] = @ \cup {m}]
      /\ perl' = perl
  BY DEF PerlInv, PerlPostConfigRequire, Directive
<1>2. scfg' = [scfg EXCEPT ![server] = c]
  BY DEF PerlPostConfigRequire
<1>3. /\ c \in ServerType /\ c.list = scfg[server].list
      /\ c.post = scfg[server].post \cup {m} /\ c.argv = scfg[server].argv
  BY <1>1 DEF ServerType
<1> HIDE DEF c
<1>4. /\ scfg' \in [Servers -> ServerType]
      /\ scfg'[server] = c
      /\ \A t \in Servers : t # server => scfg'[t] = scfg[t]
  BY <1>1, <1>2, <1>3, ServerUpdate
<1>5. /\ wanted' \in [Servers -> SUBSET Modules]
      /\ wanted'[server] = wanted[server] \cup {m}
      /\ \A t \in Servers : t # server => wanted'[t] = wanted[t]
  BY <1>1
<1>6. PerlOK(perl, scfg', wanted')
  <2>1. Grow(perl, scfg, scfg', wanted, wanted', server)
    BY <1>3, <1>4, <1>5 DEF Grow
  <2>2. server \in Servers /\ PerlOK(perl, scfg, wanted)
    BY <1>1
  <2> QED BY <2>1, <2>2, ListsKeep, Zenon
<1>7. ArgvOK(perl, scfg')
  <2>1. \A t \in Servers : scfg'[t].argv = scfg[t].argv
    BY <1>3, <1>4
  <2> QED BY <1>1, <2>1 DEF ArgvOK
<1> QED BY <1>1, <1>4, <1>5, <1>6, <1>7 DEF PerlInv

\* <Perl> sections
LEMMA PerlSectionKeeps ==
    ASSUME PerlInv, PerlSection
    PROVE  PerlInv'
<1>1. /\ scfg \in [Servers -> ServerType] /\ server \in Servers
      /\ wanted \in [Servers -> SUBSET Modules]
      /\ stage = "reading" /\ stage' = stage /\ server' = server
      /\ PerlOK(perl, scfg, wanted) /\ ArgvOK(perl, scfg)
      /\ wanted' = wanted /\ scfg' = scfg
      /\ perl' = perl \/ perl' = Vhost(Run(perl))
  BY DEF PerlInv, PerlSection, Directive
<1>2. PerlOK(perl', scfg, wanted) /\ ArgvOK(perl', scfg)
  BY <1>1, RunReady, VhostReady
<1> QED BY <1>1, <1>2 DEF PerlInv

\* PerlSwitches is refused once the server has its interpreter.
LEMMA PerlSwitchesKeeps ==
    ASSUME PerlInv, NEW x \in Switches, PerlSwitches(x)
    PROVE  PerlInv'
<1> DEFINE c == [scfg[server] EXCEPT !.argv = IF refused' THEN @ ELSE @ \cup {x}]
<1>1. /\ scfg \in [Servers -> ServerType] /\ server \in Servers
      /\ wanted \in [Servers -> SUBSET Modules]
      /\ stage = "reading" /\ stage' = stage /\ server' = server
      /\ PerlOK(perl, scfg, wanted) /\ ArgvOK(perl, scfg)
      /\ wanted' = wanted /\ perl' = perl
  BY DEF PerlInv, PerlSwitches, Directive
<1>2. scfg' = [scfg EXCEPT ![server] = c]
  BY DEF PerlSwitches
<1>3. /\ c \in ServerType /\ c.list = scfg[server].list
      /\ c.post = scfg[server].post
      /\ refused' => c.argv = scfg[server].argv
  <2>1. scfg[server] \in ServerType
    BY <1>1
  <2> DEFINE a == IF refused' THEN scfg[server].argv
                  ELSE scfg[server].argv \cup {x}
  <2>2. c = [scfg[server] EXCEPT !.argv = a] /\ a \in SUBSET Switches
    BY <2>1 DEF ServerType
  <2>3. refused' => a = scfg[server].argv
    OBVIOUS
  <2> HIDE DEF a, c
  <2> QED BY <2>1, <2>2, <2>3 DEF ServerType
<1> HIDE DEF c
<1>4. /\ scfg' \in [Servers -> ServerType]
      /\ scfg'[server] = c
      /\ \A t \in Servers : t # server => scfg'[t] = scfg[t]
  BY <1>1, <1>2, <1>3, ServerUpdate
<1>5. PerlOK(perl, scfg', wanted)
  <2>1. Grow(perl, scfg, scfg', wanted, wanted, server)
    BY <1>3, <1>4 DEF Grow
  <2>2. server \in Servers /\ PerlOK(perl, scfg, wanted)
    BY <1>1
  <2> QED BY <2>1, <2>2, ListsKeep, Zenon
<1>6. ~refused' => perl.mip[server] # server
  <2>1. refused' = IsRunning
    BY DEF PerlSwitches
  <2>2. perl.mip["main"] = IF perl.running THEN "main" ELSE NULL
    BY <1>1 DEF PerlOK
  <2>3. server = "main" \/ server = "vhost"
    BY <1>1, ServersAre
  <2> QED BY <2>1, <2>2, <2>3, ConfigAssumption DEF IsRunning
<1>7. ArgvOK(perl, scfg')
  <2>1. ASSUME NEW t \in Servers, perl.mip[t] = t
        PROVE  scfg'[t].argv = scfg[t].argv
    BY <1>3, <1>4, <1>6, <2>1
  <2> QED BY <1>1, <2>1 DEF ArgvOK
<1> QED BY <1>1, <1>4, <1>5, <1>7 DEF PerlInv

\* The interpreters are started, at the latest when the configuration has been
\* read.
LEMMA StartServersKeeps ==
    ASSUME PerlInv, StartServers
    PROVE  PerlInv'
<1> DEFINE c == [scfg["vhost"] EXCEPT
                   !.argv = IF Inherit \in OwnOptions THEN scfg["main"].argv
                            ELSE @]
<1>1. /\ scfg \in [Servers -> ServerType] /\ server \in Servers
      /\ wanted \in [Servers -> SUBSET Modules]
      /\ stage = "reading" /\ stage' = "started" /\ server' = server
      /\ PerlOK(perl, scfg, wanted) /\ ArgvOK(perl, scfg)
      /\ wanted' = wanted
  BY DEF PerlInv, StartServers
<1>2. scfg["vhost"] \in ServerType /\ scfg["main"] \in ServerType
  BY <1>1, ServersAre
<1>3. /\ c \in ServerType /\ c.list = scfg["vhost"].list
      /\ c.post = scfg["vhost"].post
      /\ Inherit \notin OwnOptions => c.argv = scfg["vhost"].argv
  <2> DEFINE a == IF Inherit \in OwnOptions THEN scfg["main"].argv
                  ELSE scfg["vhost"].argv
  <2>1. c = [scfg["vhost"] EXCEPT !.argv = a] /\ a \in SUBSET Switches
    BY <1>2 DEF ServerType
  <2>2. Inherit \notin OwnOptions => a = scfg["vhost"].argv
    OBVIOUS
  <2> HIDE DEF a, c
  <2> QED BY <1>2, <2>1, <2>2 DEF ServerType
<1>4. /\ perl.running => perl' = Vhost(perl)
      /\ ~perl.running /\ server = "vhost" =>
           perl' = InitVhost(StartMain(perl), Merged.srv.opts, c)
      /\ ~perl.running /\ server # "vhost" => perl' = StartMain(perl)
      /\ scfg' = [scfg EXCEPT !["vhost"] = c]
  BY DEF StartServers
<1> HIDE DEF c
<1>5. OwnOptions' = OwnOptions
  BY DEF StartServers, OwnOptions, optionsVars
<1>6. /\ scfg' \in [Servers -> ServerType]
      /\ scfg'["vhost"] = c /\ scfg'["main"] = scfg["main"]
  BY <1>1, <1>3, <1>4, ServerUpdate, ServersAre
\* The interpreters, with the lists as they were.
<1>7. /\ PerlOK(perl', scfg, wanted)
      /\ perl'.mip["main"] = "main" => perl'.argv["main"] = scfg["main"].argv
      /\ perl'.mip["vhost"] = "vhost" =>
           perl'.argv["vhost"] = scfg["vhost"].argv \/ perl'.argv["vhost"] = c.argv
  <2>1. CASE perl.running
    <3>1. PerlOK(Vhost(perl), scfg, wanted) /\ ArgvOK(Vhost(perl), scfg)
      BY <1>1, <2>1, VhostReady
    <3> QED BY <1>4, <2>1, <3>1, ServersAre DEF ArgvOK
  <2>2. CASE ~perl.running
    <3> DEFINE P == StartMain(perl)
    <3>1. P = StartWith(perl, scfg["main"])
      BY DEF StartMain, StartWith
    <3>2. PerlOK(P, scfg, wanted) /\ ArgvOK(P, scfg) /\ P.running
      BY <1>1, <2>2, <3>1, StartKeeps
    <3> HIDE DEF P
    <3>3. P.mip["main"] = "main" /\ P.mip["vhost"] = NULL
      <4>1. perl \in PerlType /\ perl.mip["vhost"] = NULL
        BY <1>1, <2>2 DEF PerlOK
      <4>2. \E l, a : Becomes(StartWith(perl, scfg["main"]), TRUE,
                              [perl.mip EXCEPT !["main"] = "main"], l, a)
        BY <1>2, <4>1, StartFields
      <4>3. P.mip = [perl.mip EXCEPT !["main"] = "main"]
        BY <3>1, <4>2 DEF Becomes
      <4> QED BY <4>1, <4>3, PerlFields, ServersAre
    <3>4. P.argv["main"] = scfg["main"].argv
      BY <3>2, <3>3, ServersAre DEF ArgvOK
    <3>5. CASE server # "vhost"
      BY <1>4, <2>2, <3>2, <3>3, <3>4, <3>5, ConfigAssumption DEF P
    <3>6. CASE server = "vhost"
      <4> DEFINE Q == InitVhost(P, Merged.srv.opts, c)
      <4>1. /\ PerlOK(Q, scfg, wanted)
            /\ Q.mip["vhost"] = "vhost" => Q.argv["vhost"] = c.argv
            /\ Q.argv["main"] = P.argv["main"]
        BY <1>1, <1>3, <3>2, <3>3, VhostKeeps
      <4>2. perl' = Q
        BY <1>4, <2>2, <3>6 DEF P
      <4> HIDE DEF Q
      <4> QED BY <3>4, <4>1, <4>2
    <3> QED BY <3>5, <3>6
  <2> QED BY <2>1, <2>2
<1>8. PerlOK(perl', scfg', wanted)
  <2>1. Grow(perl', scfg, scfg', wanted, wanted, "vhost")
    BY <1>3, <1>6, ServersAre DEF Grow
  <2> QED BY <1>7, <2>1, ListsKeep, ServersAre, Zenon
<1>9. SwitchesUsed'
  <2>1. SUFFICES ASSUME NEW s \in Servers, perl'.mip[s] = s,
                        ~(s = "vhost" /\ Inherit \in OwnOptions)
                 PROVE  perl'.argv[s] = scfg'[s].argv
    BY <1>5 DEF SwitchesUsed
  <2>2. CASE s = "main"
    BY <1>6, <1>7, <2>1, <2>2
  <2>3. CASE s = "vhost"
    BY <1>3, <1>6, <1>7, <2>1, <2>3
  <2> QED BY <2>2, <2>3, ServersAre
<1> QED BY <1>1, <1>6, <1>8, <1>9 DEF PerlInv

\* modperl_post_config_require
LEMMA PostConfigKeeps ==
    ASSUME PerlInv, PostConfig
    PROVE  PerlInv'
<1> DEFINE In(i) == UNION {scfg[s].post : s \in {t \in Servers : perl.mip[t] = i}}
           l == [i \in Servers |-> perl.loaded[i] \cup In(i)]
<1>1. /\ scfg \in [Servers -> ServerType] /\ server \in Servers
      /\ wanted \in [Servers -> SUBSET Modules]
      /\ stage = "started" /\ stage' = "serving" /\ server' = server
      /\ PerlOK(perl, scfg, wanted) /\ SwitchesUsed
      /\ wanted' = wanted /\ scfg' = scfg
  BY DEF PerlInv, PostConfig
<1>2. perl \in PerlType /\ perl' = [perl EXCEPT !.loaded = l]
  BY <1>1 DEF PostConfig, PerlOK
<1>3. /\ l \in [Servers -> SUBSET Modules]
      /\ \A i \in Servers : perl.loaded[i] \subseteq l[i]
  <2>1. \A s \in Servers : scfg[s].post \in SUBSET Modules
    BY <1>1 DEF ServerType
  <2> QED BY <1>2, <2>1, PerlFields
<1>4. \A s \in Servers : perl.mip[s] # NULL =>
         perl.mip[s] \in Servers /\ scfg[s].post \subseteq l[perl.mip[s]]
  BY <1>2, PerlFields DEF Servers
<1> HIDE DEF l
<1>5. /\ perl' \in PerlType
      /\ perl'.running = perl.running /\ perl'.mip = perl.mip
      /\ perl'.loaded = l /\ perl'.argv = perl.argv
  BY <1>2, <1>3 DEF PerlType
<1>6. \A s \in Servers : LoadedFor(perl, s) \subseteq LoadedFor(perl', s)
  BY <1>3, <1>4, <1>5 DEF LoadedFor
<1>7. PerlOK(perl', scfg, wanted)
  BY <1>1, <1>5, <1>6 DEF PerlOK
<1>8. ModulesLoaded'
  <2>1. SUFFICES ASSUME NEW s \in Servers, perl'.mip[s] # NULL
                 PROVE  wanted[s] \subseteq perl'.loaded[perl'.mip[s]]
    BY <1>1 DEF ModulesLoaded
  <2>2. /\ wanted[s] \subseteq scfg[s].list \cup scfg[s].post \cup LoadedFor(perl', s)
        /\ scfg[s].list \subseteq LoadedFor(perl', s)
    BY <1>7, <2>1 DEF PerlOK
  <2>3. LoadedFor(perl', s) = perl'.loaded[perl'.mip[s]]
    BY <2>1 DEF LoadedFor
  <2>4. scfg[s].post \subseteq perl'.loaded[perl'.mip[s]]
    BY <1>4, <1>5, <2>1
  <2> QED BY <2>2, <2>3, <2>4
<1>9. SwitchesUsed'
  <2>1. OwnOptions' = OwnOptions
    BY DEF PostConfig, OwnOptions, optionsVars
  <2> QED BY <1>1, <1>5, <2>1 DEF SwitchesUsed
<1> QED BY <1>1, <1>7, <1>8, <1>9 DEF PerlInv

\* A step that leaves the servers, their lists and their interpreters alone.
LEMMA OthersKeep ==
    ASSUME PerlInv, UNCHANGED <<scfg, perl, wanted, stage>>, server' \in Servers,
           stage = "reading" \/ OwnOptions' = OwnOptions
    PROVE  PerlInv'
<1>1. stage # "reading" => SwitchesUsed'
  BY DEF PerlInv, SwitchesUsed
<1>2. stage = "serving" => ModulesLoaded'
  BY DEF PerlInv, ModulesLoaded
<1> QED BY <1>1, <1>2 DEF PerlInv

\* Every step keeps the invariant of the interpreters.
LEMMA PerlStep ==
    ASSUME PerlInv, [ConfigNext]_allVars
    PROVE  PerlInv'
<1>s. server \in Servers
  BY DEF PerlInv
<1>1. ASSUME NEW sign, NEW option, ConfigOptions(sign, option) PROVE PerlInv'
  BY <1>1, <1>s, OthersKeep DEF ConfigOptions, configVars
<1>2. ASSUME NEW isContainer, ConfigSection(isContainer) PROVE PerlInv'
  <2>1. server' \in Servers
    BY <1>2, <1>s, ServersAre DEF ConfigSection
  <2> QED BY <1>2, <2>1, OthersKeep DEF ConfigSection
<1>3. ASSUME NEW k, NEW v, \/ PerlSetVar(k, v) \/ PerlAddVar(k, v)
                           \/ PerlSetEnv(k, v) \/ PerlInterpScope(v)
      PROVE  PerlInv'
  BY <1>3, <1>s, OthersKeep
  DEF PerlSetVar, PerlAddVar, PerlSetEnv, PerlInterpScope, Directive
<1>4. ASSUME NEW k, NEW v, NEW valid, AddConfig(k, v, valid) PROVE PerlInv'
  <2>1. OwnOptions' = OwnOptions
    BY <1>4 DEF AddConfig, OwnOptions
  <2> QED BY <1>4, <1>s, <2>1, OthersKeep DEF AddConfig
<1>5. ASSUME NEW m \in Modules,
             \/ PerlModule(m, FALSE) \/ PerlLoadModule(m)
             \/ PerlPostConfigRequire(m)
      PROVE  PerlInv'
  BY <1>5, PerlModuleKeeps, PostConfigRequireKeeps DEF PerlLoadModule
<1>6. CASE PerlSection
  BY <1>6, PerlSectionKeeps
<1>7. ASSUME NEW x \in Switches, PerlSwitches(x) PROVE PerlInv'
  BY <1>7, PerlSwitchesKeeps
<1>8. CASE StartServers
  BY <1>8, StartServersKeeps
<1>9. CASE PostConfig
  BY <1>9, PostConfigKeeps
<1>10. CASE UNCHANGED allVars
  <2>1. UNCHANGED <<scfg, perl, wanted, stage, server, vopts, container, cur>>
    BY <1>10 DEF allVars, configVars, optionsVars
  <2>2. OwnOptions' = OwnOptions
    BY <2>1 DEF OwnOptions
  <2> QED BY <1>s, <2>1, <2>2, OthersKeep
<1> QED BY <1>1, <1>2, <1>3, <1>4, <1>5, <1>6, <1>7, <1>8, <1>9, <1>10
        DEF ConfigNext

\* It holds before the configuration is read.
LEMMA PerlInit ==
    ASSUME ConfigInit
    PROVE  PerlInv
<1>1. /\ perl = NewPerl /\ scfg = [s \in Servers |-> [list |-> {}, post |-> {},
                                                      argv |-> {}]]
      /\ wanted = [s \in Servers |-> {}] /\ server = "main" /\ stage = "reading"
  BY DEF ConfigInit
<1>2. [list |-> {}, post |-> {}, argv |-> {}] \in ServerType
  BY DEF ServerType
<1>3. scfg \in [Servers -> ServerType] /\ wanted \in [Servers -> SUBSET Modules]
  BY <1>1, <1>2
<1>4. /\ perl \in PerlType /\ perl.running = FALSE
      /\ \A s \in Servers : perl.mip[s] = NULL
  BY <1>1 DEF NewPerl, PerlType
<1>5. PerlOK(perl, scfg, wanted)
  BY <1>1, <1>4, ServersAre DEF PerlOK
<1>6. ArgvOK(perl, scfg)
  BY <1>4, ServersAre, ConfigAssumption DEF ArgvOK
<1> QED BY <1>1, <1>3, <1>5, <1>6, ServersAre DEF PerlInv

\* Every module a server's directives name is loaded, before requests are
\* served, in the interpreter that serves it: modperl_config_apply_PerlModule,
\* modperl_cmd_modules and modperl_post_config_require leave none out, whoever
\* started Perl and when.
THEOREM ModulesAreLoaded == ConfigSpec => []ModulesLoaded
<1>1. ConfigInit => PerlInv
  BY PerlInit
<1>2. PerlInv /\ [ConfigNext]_allVars => PerlInv'
  BY PerlStep
<1>3. PerlInv => ModulesLoaded
  BY DEF PerlInv, ModulesLoaded
<1> QED BY <1>1, <1>2, <1>3, PTL DEF ConfigSpec

\* A PerlSwitches directive that is not refused is in the argv that its server's
\* interpreter is started with (modperl_cmd_switches, modperl_startup).
THEOREM SwitchesAreUsed == ConfigSpec => []SwitchesUsed
<1>1. ConfigInit => PerlInv
  BY PerlInit
<1>2. PerlInv /\ [ConfigNext]_allVars => PerlInv'
  BY PerlStep
<1>3. PerlInv => SwitchesUsed
  BY DEF PerlInv, SwitchesUsed, ArgvOK
<1> QED BY <1>1, <1>2, <1>3, PTL DEF ConfigSpec

-----------------------------------------------------------------------------
(* PerlOptions among the other directives.                                 *)

\* A directive that is no PerlOptions.
OtherDirective ==
    /\ UNCHANGED <<base, cur, whole, section, container, unsigned>>
    /\ directives' = directives + 1
    /\ refused' \in BOOLEAN

\* A step is one of PerlOptions, or a directive that leaves options alone.
LEMMA OptionsPart ==
    ASSUME container \in BOOLEAN, refused \in BOOLEAN, PerlInv,
           [ConfigNext]_allVars
    PROVE  [OptionsNext]_optionsVars \/ OtherDirective
<1>1. ASSUME NEW sign \in Signs,
             NEW option \in SrvOptions \cup DirOptions \cup {None},
             ConfigOptions(sign, option)
      PROVE  OptionsNext
  BY <1>1 DEF ConfigOptions, OptionsNext
<1>2. ASSUME NEW isContainer \in BOOLEAN, ConfigSection(isContainer)
      PROVE  OptionsNext
  BY <1>2 DEF ConfigSection, OptionsNext
<1>3. ASSUME NEW k, NEW v, \/ PerlSetVar(k, v) \/ PerlAddVar(k, v)
                           \/ PerlSetEnv(k, v) \/ PerlPostConfigRequire(k)
      PROVE  OtherDirective
  BY <1>3 DEF PerlSetVar, PerlAddVar, PerlSetEnv, PerlPostConfigRequire,
              Directive, OtherDirective
<1>4. ASSUME NEW x, PerlInterpScope(x) PROVE OtherDirective
  <2>1. refused' = (container /\ x = "connection")
    BY <1>4 DEF PerlInterpScope
  <2>2. refused' \in BOOLEAN
    BY <2>1, Zenon
  <2> QED BY <1>4, <2>2 DEF PerlInterpScope, Directive, OtherDirective
<1>5. ASSUME NEW k, NEW v, NEW valid, AddConfig(k, v, valid)
      PROVE  OtherDirective
  BY <1>5 DEF AddConfig, OtherDirective
<1>6. ASSUME NEW m, NEW early, PerlModule(m, early) \/ PerlSection
      PROVE  OtherDirective
  <2>1. refused' = container /\ Directive
    BY <1>6 DEF PerlModule, PerlSection, InContainer
  <2> QED BY <2>1 DEF Directive, OtherDirective
<1>7. ASSUME NEW x, PerlSwitches(x) PROVE OtherDirective
  <2>1. refused' = IsRunning /\ Directive
    BY <1>7 DEF PerlSwitches
  <2>2. perl.running \in BOOLEAN
    BY DEF PerlInv, PerlOK, PerlType
  <2>3. (perl.mip["vhost"] # NULL) \in BOOLEAN
    BY Zenon
  <2>4. IsRunning \in BOOLEAN
    <3>1. CASE server = "vhost"
      BY ONLY <2>3, <3>1 DEF IsRunning
    <3>2. CASE server # "vhost"
      BY ONLY <2>2, <3>2 DEF IsRunning
    <3> QED BY <3>1, <3>2
  <2> QED BY <2>1, <2>4 DEF Directive, OtherDirective
<1>8. CASE StartServers \/ PostConfig \/ UNCHANGED allVars
  BY <1>8 DEF StartServers, PostConfig, allVars
<1> QED BY <1>1, <1>2, <1>3, <1>4, <1>5, <1>6, <1>7, <1>8
        DEF ConfigNext, PerlLoadModule

\* The options stay disjoint and those of a single section.
LEMMA OptionsStep ==
    ASSUME ReplayInv, PerlInv, [ConfigNext]_allVars
    PROVE  ReplayInv'
<1>1. container \in BOOLEAN /\ refused \in BOOLEAN /\ directives \in Nat
  BY DEF ReplayInv, DisjointInv, OptionsTypeOK
<1>2. CASE [OptionsNext]_optionsVars
  BY <1>2, ReplayStep
<1>3. CASE OtherDirective
  <2>1. directives' \in Nat /\ refused' \in BOOLEAN
    BY <1>1, <1>3 DEF OtherDirective
  <2>2. UNCHANGED <<base, cur, whole, section, container, unsigned>>
    BY <1>3 DEF OtherDirective
  <2>3. DisjointInv'
    BY <2>1, <2>2 DEF ReplayInv, DisjointInv, OptionsTypeOK
  <2>4. Merged' = Merged
    BY <2>2 DEF Merged
  <2> QED BY <2>2, <2>3, <2>4 DEF ReplayInv
<1> QED BY <1>1, <1>2, <1>3, OptionsPart

-----------------------------------------------------------------------------
(* Splitting PerlSetVar, PerlAddVar and PerlSetEnv over sections.          *)

\* Tables that say the same, the scope included.
Agree(t, u) == SameTab(t, u) /\ t.scope = u.scope

\* A section's table a after those of the sections around it, b.
After(first, b, a) == IF first THEN a ELSE MergeTab(b, a)

\* A directive that the section and the single section are given keeps them in
\* agreement.
LEMMA DirectiveAgrees ==
    ASSUME NEW op \in Ops, NEW b \in TabType, NEW a \in TabType,
           NEW w \in TabType, NEW k \in Keys, NEW v \in Vals, NEW first,
           Agree(After(first, b, a), w)
    PROVE  Agree(After(first, b, Do(op, a, k, v)), Do(op, w, k, v))
<1>1. /\ Says(op, Do(op, w, k, v), w, k, v) /\ Do(op, w, k, v).scope = w.scope
      /\ Says(op, Do(op, a, k, v), a, k, v) /\ Do(op, a, k, v).scope = a.scope
  <2>1. Says(op, Do(op, w, k, v), w, k, v) /\ Do(op, w, k, v).scope = w.scope
    BY DoSays
  <2>2. Says(op, Do(op, a, k, v), a, k, v) /\ Do(op, a, k, v).scope = a.scope
    BY DoSays
  <2> QED BY <2>1, <2>2
<1>m. Says(op, MergeTab(b, Do(op, a, k, v)), MergeTab(b, a), k, v)
  BY MergeSays
<1>2. MergeTab(b, Do(op, a, k, v)).scope = MergeTab(b, a).scope
  BY <1>1 DEF MergeTab
<1>3. CASE first
  <2>1. SameTab(a, w) /\ a.scope = w.scope
    BY <1>3 DEF Agree, After
  <2>2. SameTab(Do(op, a, k, v), Do(op, w, k, v))
    BY ONLY <1>1, <2>1, SaysSame, op \in Ops, k \in Keys
  <2> QED BY <1>1, <1>3, <2>1, <2>2 DEF Agree, After
<1>4. CASE ~first
  <2>1. SameTab(MergeTab(b, a), w) /\ MergeTab(b, a).scope = w.scope
    BY <1>4 DEF Agree, After
  <2>2. SameTab(MergeTab(b, Do(op, a, k, v)), Do(op, w, k, v))
    BY ONLY <1>1, <1>m, <2>1, SaysSame, op \in Ops, k \in Keys
  <2> QED BY <1>1, <1>2, <1>4, <2>1, <2>2 DEF Agree, After
<1> QED BY <1>3, <1>4

\* PerlInterpScope changes nothing but the scope.
LEMMA SetScopeEffect ==
    ASSUME NEW t \in TabType, NEW x \in {"handler", "connection"}
    PROVE  /\ SetScope(t, x) \in TabType /\ SetScope(t, x).scope = x
           /\ SetScope(t, x).vars = t.vars /\ SetScope(t, x).set = t.set
           /\ SetScope(t, x).env = t.env
BY DEF SetScope, TabType

\* So does PerlInterpScope.
LEMMA ScopeAgrees ==
    ASSUME NEW b \in TabType, NEW a \in TabType, NEW w \in TabType,
           NEW x \in {"handler", "connection"}, NEW first,
           Agree(After(first, b, a), w)
    PROVE  Agree(After(first, b, SetScope(a, x)), SetScope(w, x))
<1> DEFINE c == SetScope(a, x)
           n == MergeTab(b, c)
           m == MergeTab(b, a)
<1>1. c.scope = x /\ c.vars = a.vars /\ c.set = a.set /\ c.env = a.env
  BY SetScopeEffect
<1>2. /\ SetScope(w, x).scope = x /\ SetScope(w, x).vars = w.vars
      /\ SetScope(w, x).env = w.env
  BY SetScopeEffect
<1>n. x # NULL
  BY ConfigAssumption
<1> HIDE DEF c
<1>3. n.vars = m.vars /\ n.env = m.env /\ n.scope = x
  BY <1>1, <1>n DEF MergeTab
<1> HIDE DEF n, m
<1>4. CASE first
  BY <1>1, <1>2, <1>4 DEF Agree, After, SameTab, ValuesOf, c
<1>5. CASE ~first
  BY <1>2, <1>3, <1>5 DEF Agree, After, SameTab, ValuesOf, c, n, m
<1> QED BY <1>4, <1>5


TabsRec == [base : TabsType, cur : TabsType, whole : TabsType]

\* What applies in the section being read is what the single section says; once
\* requests are served, so is what applies to a request.
TablesInv ==
    /\ tab \in TabsRec
    /\ req \in TabType
    /\ stage # "serving" => /\ Agree(MergedTab.srv, tab.whole.srv)
                            /\ Agree(MergedTab.dir, tab.whole.dir)
    /\ stage = "serving" => SameTab(req, tab.whole.dir)

\* The fields of the tables.
LEMMA TabsFields ==
    ASSUME NEW T \in TabsRec
    PROVE  /\ T.base.srv \in TabType /\ T.base.dir \in TabType
           /\ T.cur.srv \in TabType /\ T.cur.dir \in TabType
           /\ T.whole.srv \in TabType /\ T.whole.dir \in TabType
           /\ T.base \in TabsType /\ T.cur \in TabsType /\ T.whole \in TabsType
BY DEF TabsRec, TabsType

\* The section being read and the single section are changed.
Changes(T, U, c, w) == U = [T EXCEPT !.cur = c, !.whole = w]

\* Then the tables of the sections merged so far stay.
LEMMA BothChange ==
    ASSUME NEW T \in TabsRec, NEW c \in TabsType, NEW w \in TabsType, NEW U,
           Changes(T, U, c, w)
    PROVE  U \in TabsRec /\ U.base = T.base /\ U.cur = c /\ U.whole = w
BY DEF TabsRec, Changes

\* What applies, part by part.
LEMMA MergedTabIs ==
    /\ MergedTab.dir = After(section = 1, tab.base.dir, tab.cur.dir)
    /\ container /\ section # 1 => MergedTab.srv = tab.base.srv
    /\ ~container => MergedTab.srv = After(section = 1, tab.base.srv, tab.cur.srv)
BY DEF MergedTab, After

\* What applies in a section has the type of tables.
LEMMA MergedTabType ==
    ASSUME tab \in TabsRec
    PROVE  MergedTab \in TabsType /\ MergedTab.srv \in TabType
           /\ MergedTab.dir \in TabType
<1>1. /\ MergeTab(tab.base.srv, tab.cur.srv) \in TabType
      /\ MergeTab(tab.base.dir, tab.cur.dir) \in TabType
  BY TabsFields, MergeTabType
<1>2. /\ tab.base.srv \in TabType /\ tab.cur \in TabsType
      /\ tab.cur.srv \in TabType /\ tab.cur.dir \in TabType
  BY TabsFields
<1> QED BY <1>1, <1>2 DEF MergedTab, TabsType

\* Directives change both in the same way, and per server only outside
\* containers.
LEMMA ChangeKeeps ==
    ASSUME TablesInv, container => section # 1, stage # "serving",
           UNCHANGED <<section, container, stage, req>>,
           tab' \in TabsRec, tab'.base = tab.base,
           Agree(After(section = 1, tab.base.dir, tab'.cur.dir), tab'.whole.dir),
           container => tab'.whole.srv = tab.whole.srv,
           ~container =>
               Agree(After(section = 1, tab.base.srv, tab'.cur.srv), tab'.whole.srv)
    PROVE  TablesInv'
<1>1. Agree(MergedTab'.dir, tab'.whole.dir)
  BY DEF MergedTab, After
<1>2. CASE container
  <2>1. MergedTab'.srv = tab.base.srv /\ MergedTab.srv = tab.base.srv
    BY <1>2 DEF MergedTab
  <2> QED BY <1>1, <1>2, <2>1 DEF TablesInv
<1>3. CASE ~container
  <2>1. MergedTab'.srv = After(section = 1, tab.base.srv, tab'.cur.srv)
    BY <1>3 DEF MergedTab, After
  <2> QED BY <1>1, <1>3, <2>1 DEF TablesInv
<1> QED BY <1>2, <1>3


\* A section that is given one of the three directives.
Given(op, t, k, v) ==
    [srv |-> IF ~container THEN Do(op, t.srv, k, v) ELSE t.srv,
     dir |-> Do(op, t.dir, k, v)]

\* Each of the three directives keeps the invariant.
LEMMA GivenKeeps ==
    ASSUME TablesInv, container \in BOOLEAN, container => section # 1,
           stage # "serving", UNCHANGED <<section, container, stage, req>>,
           NEW op \in Ops, NEW k \in Keys, NEW v \in Vals,
           tab' = [tab EXCEPT !.cur = Given(op, tab.cur, k, v),
                              !.whole = Given(op, tab.whole, k, v)]
    PROVE  TablesInv'
<1> DEFINE c == Given(op, tab.cur, k, v)
           w == Given(op, tab.whole, k, v)
<1>1. /\ tab \in TabsRec
      /\ Agree(MergedTab.srv, tab.whole.srv) /\ Agree(MergedTab.dir, tab.whole.dir)
  BY DEF TablesInv
<1>2. /\ tab.base.srv \in TabType /\ tab.base.dir \in TabType
      /\ tab.cur.srv \in TabType /\ tab.cur.dir \in TabType
      /\ tab.whole.srv \in TabType /\ tab.whole.dir \in TabType
  BY <1>1, TabsFields
<1>3. /\ Do(op, tab.cur.srv, k, v) \in TabType /\ Do(op, tab.cur.dir, k, v) \in TabType
      /\ Do(op, tab.whole.srv, k, v) \in TabType
      /\ Do(op, tab.whole.dir, k, v) \in TabType
  BY <1>2, DoSays
<1>4. c \in TabsType /\ w \in TabsType
  BY <1>2, <1>3 DEF Given, TabsType
<1>5. /\ c.dir = Do(op, tab.cur.dir, k, v) /\ w.dir = Do(op, tab.whole.dir, k, v)
      /\ container => w.srv = tab.whole.srv
      /\ ~container => /\ c.srv = Do(op, tab.cur.srv, k, v)
                       /\ w.srv = Do(op, tab.whole.srv, k, v)
  BY DEF Given
<1>t. Changes(tab, tab', c, w)
  BY DEF Changes
<1> HIDE DEF c, w
<1>6. tab' \in TabsRec /\ tab'.base = tab.base /\ tab'.cur = c /\ tab'.whole = w
  BY ONLY <1>1, <1>4, <1>t, BothChange
<1>7. Agree(After(section = 1, tab.base.dir, tab'.cur.dir), tab'.whole.dir)
  <2>1. Agree(After(section = 1, tab.base.dir, tab.cur.dir), tab.whole.dir)
    BY <1>1, MergedTabIs
  <2>2. Agree(After(section = 1, tab.base.dir, Do(op, tab.cur.dir, k, v)),
              Do(op, tab.whole.dir, k, v))
    BY ONLY <1>2, <2>1, DirectiveAgrees, op \in Ops, k \in Keys, v \in Vals
  <2> QED BY <1>5, <1>6, <2>2
<1>8. ASSUME ~container
      PROVE  Agree(After(section = 1, tab.base.srv, tab'.cur.srv), tab'.whole.srv)
  <2>1. Agree(After(section = 1, tab.base.srv, tab.cur.srv), tab.whole.srv)
    BY <1>1, <1>8, MergedTabIs
  <2>2. Agree(After(section = 1, tab.base.srv, Do(op, tab.cur.srv, k, v)),
              Do(op, tab.whole.srv, k, v))
    BY ONLY <1>2, <2>1, DirectiveAgrees, op \in Ops, k \in Keys, v \in Vals
  <2> QED BY <1>5, <1>6, <1>8, <2>2
<1>9. container => tab'.whole.srv = tab.whole.srv
  BY <1>5, <1>6
<1> QED BY <1>6, <1>7, <1>8, <1>9, ChangeKeeps

\* PerlInterpScope changes the server's part or the directory's.
LEMMA ScopeKeeps ==
    ASSUME TablesInv, container \in BOOLEAN, container => section # 1,
           NEW x \in {"handler", "connection"}, PerlInterpScope(x)
    PROVE  TablesInv'
<1> DEFINE Both(t) == IF container THEN [t EXCEPT !.dir = SetScope(@, x)]
                      ELSE [t EXCEPT !.srv = SetScope(@, x)]
           c == Both(tab.cur)
           w == Both(tab.whole)
<1>u. /\ UNCHANGED <<section, container, stage, req>> /\ stage # "serving"
      /\ tab' = tab \/ tab' = [tab EXCEPT !.cur = c, !.whole = w]
  BY DEF PerlInterpScope, Directive
<1>1. /\ tab \in TabsRec
      /\ Agree(MergedTab.srv, tab.whole.srv) /\ Agree(MergedTab.dir, tab.whole.dir)
  BY <1>u DEF TablesInv
<1>2. /\ tab.base.srv \in TabType /\ tab.base.dir \in TabType
      /\ tab.cur.srv \in TabType /\ tab.cur.dir \in TabType
      /\ tab.whole.srv \in TabType /\ tab.whole.dir \in TabType
      /\ tab.cur \in TabsType /\ tab.whole \in TabsType
  BY <1>1, TabsFields
<1>3. /\ SetScope(tab.cur.srv, x) \in TabType /\ SetScope(tab.cur.dir, x) \in TabType
      /\ SetScope(tab.whole.srv, x) \in TabType
      /\ SetScope(tab.whole.dir, x) \in TabType
  BY <1>2, SetScopeEffect
<1>4. c \in TabsType /\ w \in TabsType
  BY <1>2, <1>3 DEF TabsType
<1>5. /\ container => /\ c.dir = SetScope(tab.cur.dir, x) /\ w.srv = tab.whole.srv
                      /\ w.dir = SetScope(tab.whole.dir, x)
      /\ ~container => /\ c.srv = SetScope(tab.cur.srv, x) /\ c.dir = tab.cur.dir
                       /\ w.srv = SetScope(tab.whole.srv, x)
                       /\ w.dir = tab.whole.dir
  BY <1>2 DEF TabsType
<1> HIDE DEF c, w
<1>6. CASE tab' = tab
  <2>1. MergedTab' = MergedTab
    BY <1>6, <1>u DEF MergedTab
  <2> QED BY <1>6, <1>u, <2>1 DEF TablesInv
<1>7. CASE tab' = [tab EXCEPT !.cur = c, !.whole = w]
  <2>0. Changes(tab, tab', c, w)
    BY <1>7 DEF Changes
  <2>1. tab' \in TabsRec /\ tab'.base = tab.base /\ tab'.cur = c /\ tab'.whole = w
    BY ONLY <1>1, <1>4, <2>0, BothChange
  <2>2. /\ Agree(After(section = 1, tab.base.dir, tab.cur.dir), tab.whole.dir)
        /\ ~container =>
             Agree(After(section = 1, tab.base.srv, tab.cur.srv), tab.whole.srv)
    BY <1>1, MergedTabIs
  <2>3. Agree(After(section = 1, tab.base.dir, SetScope(tab.cur.dir, x)),
              SetScope(tab.whole.dir, x))
    BY ONLY <1>2, <2>2, ScopeAgrees, x \in {"handler", "connection"}
  <2>4. ~container =>
          Agree(After(section = 1, tab.base.srv, SetScope(tab.cur.srv, x)),
                SetScope(tab.whole.srv, x))
    BY ONLY <1>2, <2>2, ScopeAgrees, x \in {"handler", "connection"}
  <2>5. Agree(After(section = 1, tab.base.dir, tab'.cur.dir), tab'.whole.dir)
    BY <1>5, <2>1, <2>2, <2>3
  <2>6. ~container =>
          Agree(After(section = 1, tab.base.srv, tab'.cur.srv), tab'.whole.srv)
    BY <1>5, <2>1, <2>4
  <2>7. container => tab'.whole.srv = tab.whole.srv
    BY <1>5, <2>1
  <2> QED BY <1>u, <2>1, <2>5, <2>6, <2>7, ChangeKeeps
<1> QED BY <1>u, <1>6, <1>7


\* A new section says nothing yet.
LEMMA SectionKeeps ==
    ASSUME TablesInv, section \in Nat \ {0}, NEW isContainer \in BOOLEAN,
           ConfigSection(isContainer)
    PROVE  TablesInv'
<1> DEFINE m == MergedTab
<1>1. /\ tab \in TabsRec /\ stage = "reading" /\ stage' = stage /\ req' = req
      /\ Agree(m.srv, tab.whole.srv) /\ Agree(m.dir, tab.whole.dir)
      /\ req \in TabType
  BY DEF TablesInv, ConfigSection
<1>2. section' # 1
  <2>1. section' = section + 1
    BY DEF ConfigSection, NextSection
  <2> QED BY <2>1
<1>3. m \in TabsType /\ m.srv \in TabType /\ m.dir \in TabType
  BY <1>1, MergedTabType
<1>4. NewTabs \in TabsType /\ NewTabs.srv = NewTab /\ NewTabs.dir = NewTab
  BY NewTabType DEF NewTabs, TabsType
<1>5. tab' = [tab EXCEPT !.base = m, !.cur = NewTabs]
  BY DEF ConfigSection
<1> HIDE DEF m
<1>6. /\ tab' \in TabsRec /\ tab'.base = m /\ tab'.cur = NewTabs
      /\ tab'.whole = tab.whole
  BY <1>1, <1>3, <1>4, <1>5 DEF TabsRec
<1>7. /\ Agree(MergeTab(m.srv, NewTab), tab.whole.srv)
      /\ Agree(MergeTab(m.dir, NewTab), tab.whole.dir)
  BY <1>1, <1>3, MergeNewTab DEF Agree, SameTab
<1>8. /\ MergedTab'.srv = m.srv \/ MergedTab'.srv = MergeTab(m.srv, NewTab)
      /\ MergedTab'.dir = MergeTab(m.dir, NewTab)
  BY <1>2, <1>4, <1>6 DEF MergedTab
<1> QED BY <1>1, <1>6, <1>7, <1>8 DEF TablesInv

\* What applies to a request is what applies in the last section.
LEMMA ServingKeeps ==
    ASSUME TablesInv, PostConfig
    PROVE  TablesInv'
<1>1. /\ stage = "started" /\ stage' = "serving" /\ tab' = tab
      /\ req' = MergedTab.dir
  BY DEF PostConfig
<1>2. tab \in TabsRec /\ SameTab(MergedTab.dir, tab.whole.dir)
  BY <1>1 DEF TablesInv, Agree
<1>3. MergedTab.dir \in TabType
  BY <1>2, MergedTabType
<1> QED BY <1>1, <1>2, <1>3 DEF TablesInv

\* $r->add_config says what it would say in the single section.
LEMMA AddConfigKeeps ==
    ASSUME TablesInv, NEW k \in Keys, NEW v \in Vals, NEW valid,
           AddConfig(k, v, valid)
    PROVE  TablesInv'
<1> DEFINE new == SetVar(NewTab, k, v)
           w == SetVar(tab.whole.dir, k, v)
<1>1. /\ stage = "serving" /\ stage' = "serving"
      /\ \/ req' = req /\ tab' = tab
         \/ req' = MergeTab(req, new) /\ tab' = [tab EXCEPT !.whole.dir = w]
  BY DEF AddConfig
<1>2. tab \in TabsRec /\ req \in TabType /\ SameTab(req, tab.whole.dir)
  BY <1>1 DEF TablesInv
<1>3. tab.whole.dir \in TabType /\ tab.whole \in TabsType
  BY <1>2, TabsFields
<1>o. "set" \in Ops
  BY DEF Ops
<1>4. new = Do("set", NewTab, k, v) /\ w = Do("set", tab.whole.dir, k, v)
  BY DEF Do
<1>5. new \in TabType /\ w \in TabType /\ Says("set", w, tab.whole.dir, k, v)
  <2>1. Do("set", NewTab, k, v) \in TabType
    BY <1>o, NewTabType, DoSays
  <2>2. /\ Do("set", tab.whole.dir, k, v) \in TabType
        /\ Says("set", Do("set", tab.whole.dir, k, v), tab.whole.dir, k, v)
    BY <1>o, <1>3, DoSays
  <2> HIDE DEF new, w
  <2> QED BY <1>4, <2>1, <2>2
<1>6. Says("set", MergeTab(req, new), MergeTab(req, NewTab), k, v)
  BY <1>o, <1>2, <1>4, NewTabType, MergeSays
<1>7. SameTab(MergeTab(req, NewTab), tab.whole.dir)
  BY <1>2, MergeNewTab DEF SameTab
<1>8. MergeTab(req, new) \in TabType
  BY <1>2, <1>5, MergeTabType
<1> HIDE DEF new, w
<1>9. SameTab(MergeTab(req, new), w)
  BY ONLY <1>o, <1>5, <1>6, <1>7, SaysSame, k \in Keys
<1>10. CASE req' = req /\ tab' = tab
  BY <1>1, <1>2, <1>10 DEF TablesInv
<1>11. CASE req' = MergeTab(req, new) /\ tab' = [tab EXCEPT !.whole.dir = w]
  <2>1. tab' \in TabsRec /\ tab'.whole.dir = w
    BY <1>2, <1>3, <1>5, <1>11 DEF TabsRec, TabsType
  <2> QED BY <1>1, <1>8, <1>9, <1>11, <2>1 DEF TablesInv
<1> QED BY <1>1, <1>10, <1>11


\* Every step keeps what applies what the single section says.
LEMMA TablesStep ==
    ASSUME TablesInv, ReplayInv, [ConfigNext]_allVars
    PROVE  TablesInv'
<1>t. container \in BOOLEAN /\ section \in Nat \ {0} /\ (container => section # 1)
  BY DEF ReplayInv, DisjointInv, OptionsTypeOK
<1>1. ASSUME UNCHANGED <<section, container, tab, req>>,
             stage' = stage \/ (stage = "reading" /\ stage' = "started")
      PROVE  TablesInv'
  <2>1. MergedTab' = MergedTab
    BY <1>1 DEF MergedTab
  <2> QED BY <1>1, <2>1 DEF TablesInv
<1>2. ASSUME NEW sign, NEW option, ConfigOptions(sign, option) PROVE TablesInv'
  <2>1. UNCHANGED <<section, container, tab, req>> /\ stage' = stage
    BY <1>2 DEF ConfigOptions, PerlOptions, configVars
  <2> QED BY <1>1, <2>1
<1>3. ASSUME NEW isContainer \in BOOLEAN, ConfigSection(isContainer)
      PROVE  TablesInv'
  BY <1>t, <1>3, SectionKeeps
<1>4. ASSUME NEW k \in Keys, NEW v \in Vals,
             PerlSetVar(k, v) \/ PerlAddVar(k, v) \/ PerlSetEnv(k, v)
      PROVE  TablesInv'
  <2>1. stage # "serving" /\ UNCHANGED <<section, container, stage, req>>
    BY <1>4 DEF PerlSetVar, PerlAddVar, PerlSetEnv, Directive
  <2>2. \E op \in Ops :
          tab' = [tab EXCEPT !.cur = Given(op, tab.cur, k, v),
                             !.whole = Given(op, tab.whole, k, v)]
    <3>1. CASE PerlSetVar(k, v)
      <4>1. tab' = [tab EXCEPT !.cur = Given("set", tab.cur, k, v),
                               !.whole = Given("set", tab.whole, k, v)]
        BY <3>1 DEF PerlSetVar, Tables, Given, Do
      <4> QED BY <4>1 DEF Ops
    <3>2. CASE PerlAddVar(k, v)
      <4>1. tab' = [tab EXCEPT !.cur = Given("add", tab.cur, k, v),
                               !.whole = Given("add", tab.whole, k, v)]
        BY <3>2 DEF PerlAddVar, Tables, Given, Do
      <4> QED BY <4>1 DEF Ops
    <3>3. CASE PerlSetEnv(k, v)
      <4>1. tab' = [tab EXCEPT !.cur = Given("env", tab.cur, k, v),
                               !.whole = Given("env", tab.whole, k, v)]
        BY <3>3 DEF PerlSetEnv, Tables, Given, Do
      <4> QED BY <4>1 DEF Ops
    <3> QED BY <1>4, <3>1, <3>2, <3>3
  <2> QED BY <1>t, <2>1, <2>2, GivenKeeps
<1>5. ASSUME NEW x \in {"handler", "connection"}, PerlInterpScope(x)
      PROVE  TablesInv'
  BY <1>t, <1>5, ScopeKeeps
<1>6. ASSUME NEW m, \/ PerlModule(m, FALSE) \/ PerlLoadModule(m)
                    \/ PerlPostConfigRequire(m) \/ PerlSection \/ PerlSwitches(m)
      PROVE  TablesInv'
  <2>1. UNCHANGED <<section, container, tab, req>> /\ stage' = stage
    BY <1>6 DEF PerlModule, PerlLoadModule, PerlPostConfigRequire, PerlSection,
                PerlSwitches, Directive
  <2> QED BY <1>1, <2>1
<1>7. CASE StartServers
  BY <1>1, <1>7 DEF StartServers, optionsVars
<1>8. CASE PostConfig
  BY <1>8, ServingKeeps
<1>9. ASSUME NEW k \in Keys, NEW v \in Vals, NEW valid \in BOOLEAN,
             AddConfig(k, v, valid)
      PROVE  TablesInv'
  BY <1>9, AddConfigKeeps
<1>10. CASE UNCHANGED allVars
  <2>1. UNCHANGED <<section, container, tab, req>> /\ stage' = stage
    BY <1>10 DEF allVars, configVars, optionsVars
  <2> QED BY <1>1, <2>1
<1> QED BY <1>2, <1>3, <1>4, <1>5, <1>6, <1>7, <1>8, <1>9, <1>10 DEF ConfigNext

\* Nothing applies before the configuration is read.
LEMMA TablesInit ==
    ASSUME ConfigInit
    PROVE  TablesInv
<1>1. /\ tab = [base |-> NewTabs, cur |-> NewTabs, whole |-> NewTabs]
      /\ req = NewTab /\ stage = "reading" /\ section = 1
  BY DEF ConfigInit, OptionsInit
<1>2. NewTabs \in TabsType
  BY NewTabType DEF NewTabs, TabsType
<1>3. tab \in TabsRec /\ tab.cur = NewTabs /\ tab.whole = NewTabs
  BY <1>1, <1>2 DEF TabsRec
<1>4. MergedTab = NewTabs
  BY <1>1, <1>3 DEF MergedTab
<1> QED BY <1>1, <1>3, <1>4, NewTabType DEF TablesInv, Agree, SameTab

-----------------------------------------------------------------------------
(* The order of merging.                                                   *)

\* Three option sets may be merged from either side, unless a section replaces
\* the others.
LEMMA OptionsMergeAssociative ==
    ASSUME NEW b \in OptionsType, NEW a \in OptionsType, NEW c \in OptionsType,
           UNSET \in a.opts, UNSET \in c.opts
    PROVE  OptionsMerge(OptionsMerge(b, a), c) = OptionsMerge(b, OptionsMerge(a, c))
<1> DEFINE L == OptionsMerge(OptionsMerge(b, a), c)
           d == OptionsMerge(a, c)
           R == OptionsMerge(b, d)
<1>1. UNSET \in d.opts
  BY OptionsAssumption DEF OptionsMerge, OptionsType
<1>2. L.opts_add = R.opts_add
  BY <1>1 DEF OptionsMerge, OptionsType
<1>3. L.opts_remove = R.opts_remove
  BY <1>1 DEF OptionsMerge, OptionsType
<1>4. L.opts = R.opts
  BY <1>1 DEF OptionsMerge, OptionsType
<1>5. L.opts_seen = R.opts_seen
  BY <1>1 DEF OptionsMerge, OptionsType
<1>6. /\ L = [opts |-> L.opts, opts_add |-> L.opts_add,
              opts_remove |-> L.opts_remove, opts_seen |-> L.opts_seen]
      /\ R = [opts |-> R.opts, opts_add |-> R.opts_add,
              opts_remove |-> R.opts_remove, opts_seen |-> R.opts_seen]
  BY <1>1 DEF OptionsMerge
<1> HIDE DEF L, R
<1>7. L = R
  BY <1>2, <1>3, <1>4, <1>5, <1>6
<1> QED BY <1>7 DEF L, R, d

\* Merged options are options, and UNSET stays.
LEMMA OptionsMergeType ==
    ASSUME NEW b \in OptionsType, NEW a \in OptionsType
    PROVE  /\ OptionsMerge(b, a) \in OptionsType
           /\ UNSET \in b.opts /\ UNSET \in a.opts
                => UNSET \in OptionsMerge(b, a).opts
BY OptionsAssumption DEF OptionsMerge, OptionsType

\* The fields of a directory's configuration.
LEMMA DirFields ==
    ASSUME NEW d \in DirType
    PROVE  /\ d.tab \in TabType /\ d.opts \in OptionsType
           /\ d = Dir(d.tab, d.opts)
BY DEF DirType, Dir

\* Merging configurations of directories, field by field.
LEMMA MergeDirType ==
    ASSUME NEW b \in DirType, NEW a \in DirType
    PROVE  /\ MergeDir(b, a) \in DirType
           /\ MergeDir(b, a).tab = MergeTab(b.tab, a.tab)
           /\ MergeDir(b, a).opts = OptionsMerge(b.opts, a.opts)
<1>1. MergeTab(b.tab, a.tab) \in TabType /\ OptionsMerge(b.opts, a.opts) \in OptionsType
  BY DirFields, MergeTabType, OptionsMergeType
<1> QED BY <1>1 DEF MergeDir, Dir, DirType

\* Three of them may be merged from either side.
LEMMA MergeDirAssociative ==
    ASSUME NEW b \in DirType, NEW a \in DirType, NEW c \in DirType,
           UNSET \in a.opts.opts, UNSET \in c.opts.opts
    PROVE  MergeDir(MergeDir(b, a), c) = MergeDir(b, MergeDir(a, c))
<1>1. /\ MergeTab(MergeTab(b.tab, a.tab), c.tab) = MergeTab(b.tab, MergeTab(a.tab, c.tab))
      /\ OptionsMerge(OptionsMerge(b.opts, a.opts), c.opts) =
           OptionsMerge(b.opts, OptionsMerge(a.opts, c.opts))
  BY DirFields, MergeTabAssociative, OptionsMergeAssociative
<1> QED BY <1>1, MergeDirType DEF MergeDir

\* What the containers say, merged with what the servers say, is what the
\* sections merged one after the other say.
WalkInv ==
    /\ walk \in [top : DirType, some : BOOLEAN, now : DirType]
    /\ UNSET \in cur.dir.opts
    /\ walk.some => UNSET \in walk.now.opts.opts
    /\ ~container => ~walk.some
    /\ container => Dir(tab.base.dir, base.dir) =
                      (IF walk.some THEN MergeDir(walk.top, walk.now)
                       ELSE walk.top)


\* The containers read so far have no explicit settings.
LEMMA ThisDirType ==
    ASSUME WalkInv, tab \in TabsRec, cur \in FlagsType
    PROVE  /\ ThisDir \in DirType /\ UNSET \in ThisDir.opts.opts
           /\ Now \in DirType /\ UNSET \in Now.opts.opts
<1>1. ThisDir \in DirType /\ UNSET \in ThisDir.opts.opts
  BY TabsFields DEF WalkInv, ThisDir, Dir, DirType, FlagsType
<1>2. CASE ~walk.some
  BY <1>1, <1>2 DEF Now
<1>3. CASE walk.some
  <2>1. walk.now \in DirType /\ UNSET \in walk.now.opts.opts
    BY <1>3 DEF WalkInv
  <2>2. Now = MergeDir(walk.now, ThisDir)
    BY <1>3 DEF Now
  <2>3. /\ Now \in DirType
        /\ Now.opts = OptionsMerge(walk.now.opts, ThisDir.opts)
    BY <1>1, <2>1, <2>2, MergeDirType
  <2>4. UNSET \in OptionsMerge(walk.now.opts, ThisDir.opts).opts
    BY <1>1, <2>1, DirFields, OptionsMergeType
  <2> QED BY <1>1, <2>3, <2>4
<1> QED BY <1>2, <1>3

\* The invariant is what makes the order of merging irrelevant.
LEMMA WalkAssociative ==
    ASSUME WalkInv, TablesInv, ReplayInv
    PROVE  MergeAssociative
<1> SUFFICES ASSUME container
             PROVE  MergeDir(walk.top, Now) = Dir(MergedTab.dir, Merged.dir)
  BY DEF MergeAssociative
<1> DEFINE b == Dir(tab.base.dir, base.dir)
<1>1. tab \in TabsRec /\ cur \in FlagsType /\ base \in FlagsType /\ section # 1
  BY DEF TablesInv, ReplayInv, DisjointInv, OptionsTypeOK
<1>2. ThisDir \in DirType /\ UNSET \in ThisDir.opts.opts
  BY <1>1, ThisDirType
<1>3. Dir(MergedTab.dir, Merged.dir) = MergeDir(b, ThisDir)
  <2>1. /\ MergedTab.dir = MergeTab(tab.base.dir, tab.cur.dir)
        /\ Merged.dir = OptionsMerge(base.dir, cur.dir)
    BY <1>1 DEF MergedTab, Merged
  <2>2. /\ b.tab = tab.base.dir /\ b.opts = base.dir
        /\ ThisDir.tab = tab.cur.dir /\ ThisDir.opts = cur.dir
    BY DEF ThisDir, Dir
  <2> QED BY <2>1, <2>2 DEF MergeDir
<1> HIDE DEF b
<1>4. b = IF walk.some THEN MergeDir(walk.top, walk.now) ELSE walk.top
  BY DEF WalkInv, b
<1>5. CASE ~walk.some
  BY <1>3, <1>4, <1>5 DEF Now
<1>6. CASE walk.some
  <2>1. /\ walk.top \in DirType /\ walk.now \in DirType
        /\ UNSET \in walk.now.opts.opts
    BY <1>6 DEF WalkInv
  <2>2. MergeDir(MergeDir(walk.top, walk.now), ThisDir) =
          MergeDir(walk.top, MergeDir(walk.now, ThisDir))
    BY ONLY <1>2, <2>1, MergeDirAssociative
  <2> QED BY <1>3, <1>4, <1>6, <2>2 DEF Now
<1> QED BY <1>5, <1>6

\* A new section: what was being read joins the containers, or the servers.
LEMMA WalkSection ==
    ASSUME WalkInv, TablesInv, ReplayInv, NEW isContainer \in BOOLEAN,
           ConfigSection(isContainer)
    PROVE  WalkInv'
<1>1. /\ tab \in TabsRec /\ cur \in FlagsType /\ container \in BOOLEAN
      /\ container => section # 1
  BY DEF TablesInv, ReplayInv, DisjointInv, OptionsTypeOK
<1>2. /\ base' = Merged /\ cur' = NewFlags /\ container' = isContainer
      /\ ~isContainer => section = 1
      /\ tab' = [tab EXCEPT !.base = MergedTab, !.cur = NewTabs]
  BY DEF ConfigSection, NextSection
<1>3. UNSET \in cur'.dir.opts
  BY <1>2 DEF NewFlags, OptionsNew
<1>4. tab'.base = MergedTab
  BY <1>1, <1>2 DEF TabsRec
<1> DEFINE m == Dir(MergedTab.dir, Merged.dir)
<1>5. Dir(tab'.base.dir, base'.dir) = m
  BY <1>2, <1>4
<1>6. walk \in [top : DirType, some : BOOLEAN, now : DirType]
  BY DEF WalkInv
<1>7. CASE container
  <2>1. container' /\ MergeDir(walk.top, Now) = m
    BY <1>1, <1>2, <1>7, WalkAssociative DEF MergeAssociative
  <2>2. Now \in DirType /\ UNSET \in Now.opts.opts
    BY <1>1, ThisDirType
  <2>3. walk' = [walk EXCEPT !.some = TRUE, !.now = Now]
    BY <1>7 DEF ConfigSection
  <2> HIDE DEF m
  <2>4. /\ walk' \in [top : DirType, some : BOOLEAN, now : DirType]
        /\ walk'.top = walk.top /\ walk'.some = TRUE /\ walk'.now = Now
    BY <1>6, <2>2, <2>3
  <2> QED BY <1>3, <1>5, <2>1, <2>2, <2>4 DEF WalkInv
<1>8. CASE ~container
  <2>1. m \in DirType
    <3>1. MergedTab.dir \in TabType
      BY <1>1, MergedTabType
    <3>2. Merged.dir \in OptionsType
      BY MergedDisjoint DEF ReplayInv, DisjointFlags, FlagsType
    <3> QED BY <3>1, <3>2 DEF Dir, DirType
  <2>2. walk' = [walk EXCEPT !.top = m] /\ ~walk.some
    BY <1>8 DEF ConfigSection, WalkInv
  <2> HIDE DEF m
  <2>3. /\ walk' \in [top : DirType, some : BOOLEAN, now : DirType]
        /\ walk'.top = m /\ ~walk'.some
    BY <1>6, <2>1, <2>2
  <2> QED BY <1>3, <1>5, <2>3 DEF WalkInv
<1> QED BY <1>7, <1>8

\* Every step keeps the invariant of merging.
LEMMA WalkStep ==
    ASSUME WalkInv, TablesInv, ReplayInv, [ConfigNext]_allVars
    PROVE  WalkInv'
<1>1. ASSUME UNCHANGED <<walk, base, container>>, tab'.base = tab.base,
             UNSET \in cur'.dir.opts
      PROVE  WalkInv'
  BY <1>1 DEF WalkInv
<1>c. UNSET \in cur.dir.opts /\ tab \in TabsRec /\ cur \in FlagsType
  BY DEF WalkInv, TablesInv, ReplayInv, DisjointInv, OptionsTypeOK
<1>2. ASSUME NEW sign \in Signs,
             NEW option \in SrvOptions \cup DirOptions \cup {None},
             ConfigOptions(sign, option)
      PROVE  WalkInv'
  <2>1. UNCHANGED <<walk, base, container>> /\ tab'.base = tab.base
    BY <1>2 DEF ConfigOptions, PerlOptions, configVars
  <2>2. UNSET \notin Bits(option)
    BY BitsType, OptionsAssumption
  <2>3. UNSET \in OptionsSet(cur.dir, sign, Bits(option)).opts
    BY <1>c, <2>2 DEF OptionsSet
  <2>4. \/ cur'.dir = cur.dir
        \/ cur'.dir = OptionsSet(cur.dir, sign, Bits(option))
    BY <1>c, <1>2, DirectiveCases DEF ConfigOptions, SetIn, FlagsType
  <2> QED BY <1>1, <1>c, <2>1, <2>3, <2>4
<1>3. ASSUME NEW isContainer \in BOOLEAN, ConfigSection(isContainer)
      PROVE  WalkInv'
  BY <1>3, WalkSection
<1>4. ASSUME NEW k, NEW v,
             PerlSetVar(k, v) \/ PerlAddVar(k, v) \/ PerlSetEnv(k, v)
      PROVE  WalkInv'
  <2>1. UNCHANGED <<walk, base, container, cur>>
    BY <1>4 DEF PerlSetVar, PerlAddVar, PerlSetEnv, Directive
  <2>2. tab'.base = tab.base
    BY <1>c, <1>4 DEF PerlSetVar, PerlAddVar, PerlSetEnv, Tables, TabsRec
  <2> QED BY <1>1, <1>c, <2>1, <2>2
<1>5. ASSUME NEW x, PerlInterpScope(x) PROVE WalkInv'
  <2>1. UNCHANGED <<walk, base, container, cur>>
    BY <1>5 DEF PerlInterpScope, Directive
  <2>2. tab'.base = tab.base
    BY <1>c, <1>5 DEF PerlInterpScope, TabsRec
  <2> QED BY <1>1, <1>c, <2>1, <2>2
<1>6. ASSUME NEW m, \/ PerlModule(m, FALSE) \/ PerlLoadModule(m)
                    \/ PerlPostConfigRequire(m) \/ PerlSection \/ PerlSwitches(m)
      PROVE  WalkInv'
  <2>1. UNCHANGED <<walk, base, container, cur, tab>>
    BY <1>6 DEF PerlModule, PerlLoadModule, PerlPostConfigRequire, PerlSection,
                PerlSwitches, Directive
  <2> QED BY <1>1, <1>c, <2>1
<1>7. CASE StartServers \/ PostConfig \/ UNCHANGED allVars
  <2>1. UNCHANGED <<walk, base, container, cur, tab>>
    BY <1>7 DEF StartServers, PostConfig, allVars, configVars, optionsVars
  <2> QED BY <1>1, <1>c, <2>1
<1>8. ASSUME NEW k, NEW v, NEW valid, AddConfig(k, v, valid) PROVE WalkInv'
  <2>1. UNCHANGED <<walk, base, container, cur>>
    BY <1>8 DEF AddConfig
  <2>2. tab'.base = tab.base
    BY <1>c, <1>8 DEF AddConfig, TabsRec
  <2> QED BY <1>1, <1>c, <2>1, <2>2
<1> QED BY <1>2, <1>3, <1>4, <1>5, <1>6, <1>7, <1>8 DEF ConfigNext

\* There are no containers before the configuration is read.
LEMMA WalkInit ==
    ASSUME ConfigInit
    PROVE  WalkInv
<1>1. /\ walk = [top |-> NewDir, some |-> FALSE, now |-> NewDir]
      /\ cur = NewFlags /\ container = FALSE
  BY DEF ConfigInit, OptionsInit
<1>2. NewDir \in DirType
  BY NewTabType, NewCoherent DEF NewDir, Dir, DirType, Disjoint
<1>3. UNSET \in cur.dir.opts
  BY <1>1 DEF NewFlags, OptionsNew
<1> QED BY <1>1, <1>2, <1>3 DEF WalkInv

-----------------------------------------------------------------------------
(* The specification.                                                      *)

\* The invariant of the configuration: the interpreters, the options, the
\* tables and the order of merging.
ConfigInv == PerlInv /\ ReplayInv /\ TablesInv /\ WalkInv

\* The invariant holds before the configuration is read.
LEMMA ConfigInvInit == ConfigInit => ConfigInv
<1> SUFFICES ASSUME ConfigInit PROVE ConfigInv
  OBVIOUS
<1>1. OptionsInit
  BY DEF ConfigInit
<1>2. DisjointInv
  BY <1>1, DisjointAtInit
<1>3. ReplayInv
  BY <1>1, <1>2, NewFlagsGood DEF OptionsInit, ReplayInv, Merged
<1> QED BY <1>3, PerlInit, TablesInit, WalkInit DEF ConfigInv

\* Every step keeps it.
LEMMA ConfigInvStep == ConfigInv /\ [ConfigNext]_allVars => ConfigInv'
BY PerlStep, OptionsStep, TablesStep, WalkStep DEF ConfigInv

\* PerlOptions keeps its guarantees among the other directives: the option sets
\* stay disjoint (the comment of modperl_options_merge), and merging is giving
\* every option in one section.
THEOREM OptionsAmongDirectives ==
    ConfigSpec => [](OptionsTypeOK /\ AddRemoveDisjoint /\ OptionsReplay)
<1>1. ConfigInv => OptionsTypeOK /\ AddRemoveDisjoint /\ OptionsReplay
  BY MergedDisjoint DEF ConfigInv, ReplayInv, DisjointInv, AddRemoveDisjoint,
     OptionsReplay, DisjointFlags, Disjoint
<1> QED BY <1>1, ConfigInvInit, ConfigInvStep, PTL DEF ConfigSpec

\* PerlSetVar, PerlAddVar, PerlSetEnv and PerlInterpScope say in any sections
\* what they say in one: merge_config_add_vars drops exactly the values that a
\* later PerlSetVar replaces, and keeps the order of the others.
THEOREM VarsAreReplayed == ConfigSpec => []VarsReplay
<1>1. ConfigInv => VarsReplay
  BY DEF ConfigInv, TablesInv, VarsReplay, Agree
<1> QED BY <1>1, ConfigInvInit, ConfigInvStep, PTL DEF ConfigSpec

\* httpd may merge the containers of a request with each other first
\* (ap_location_walk): modperl_config_dir_merge gives the same tables and
\* options in either order.
THEOREM MergeIsAssociative == ConfigSpec => []MergeAssociative
<1>1. ConfigInv => MergeAssociative
  BY WalkAssociative DEF ConfigInv
<1> QED BY <1>1, ConfigInvInit, ConfigInvStep, PTL DEF ConfigSpec

\* Every table, option set, list and interpreter keeps its type, and the main
\* server never runs on a virtual host's interpreter (modperl_init_vhost).
THEOREM ConfigTypes == ConfigSpec => []ConfigTypeOK
<1>1. ConfigInv => ConfigTypeOK
  <2> SUFFICES ASSUME ConfigInv PROVE ConfigTypeOK
    OBVIOUS
  <2>1. perl \in PerlType /\ perl.mip["main"] # "vhost"
    BY ConfigAssumption DEF ConfigInv, PerlInv, PerlOK
  <2>2. OptionsTypeOK
    BY DEF ConfigInv, ReplayInv, DisjointInv
  <2> QED BY <2>1, <2>2
          DEF ConfigInv, PerlInv, TablesInv, WalkInv, TabsRec, ConfigTypeOK
<1> QED BY <1>1, ConfigInvInit, ConfigInvStep, PTL DEF ConfigSpec

=============================================================================
