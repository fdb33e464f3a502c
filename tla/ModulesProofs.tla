--------------------------- MODULE ModulesProofs ---------------------------
(***************************************************************************)
(* Proofs about custom directives: what the functions of the pointer table *)
(* do to the set of its entries, and from that what a request finds and    *)
(* what it leaves behind, for any number of threads, interpreters and      *)
(* addresses.                                                              *)
(***************************************************************************)
EXTENDS Modules, SequenceTheorems, FiniteSetTheorems, TLAPS

Texts == Seq(Seq(Args))             \* what directives say
Objs == Texts \cup {UNDEF}          \* objects
Owners == Threads \cup {NULL, "pconf"}
CfgSet == [Addrs -> [owner : Owners, server : BOOLEAN]]
CleanupSet == Interps \X (Addrs \cup {Unselect})
Todos == {<<>>, <<"loc">>, <<"ht">>, <<"ht", "loc">>}

ReqSet ==
    [at : {"none", "walk", "ending"}, interp : Clones \cup {NULL}, todo : Todos,
     now : Addrs \cup {NULL}, ht : Addrs \cup {NULL}, want : Texts, told : Texts,
     died : BOOLEAN, cleanups : Seq(CleanupSet), got : Objs \cup {NULL}]

-----------------------------------------------------------------------------
(* The invariant.                                                          *)

\* A table that exists: its size is even, an entry is in the bucket of its
\* address, an address is there once, and tbl_items counts the entries.
TableOK(T) ==
    /\ T = [max |-> T.max, items |-> T.items, ary |-> T.ary]
    /\ T.max \in Nat /\ T.max % 2 = 1
    /\ T.ary \in [0 .. T.max -> SUBSET (Addrs \X Objs)]
    /\ \A b \in 0 .. T.max : \A e \in T.ary[b] : e[1] % (T.max + 1) = b
    /\ \A b \in 0 .. T.max : \A e, f \in T.ary[b] : e[1] = f[1] => e = f
    /\ IsFiniteSet(Entries(T)) /\ T.items = Cardinality(Entries(T))

\* The object at address a is o, or there is none.
At(E, a, o) == <<a, o>> \in E
Nothing(E, a) == \A e \in E : e[1] # a

\* The object of a section says w; there is none if nothing was said.
Says(E, a, w) == IF w = <<>> THEN Nothing(E, a) ELSE At(E, a, w)

\* The addresses that will be removed from the table.
Pending(C) == {C[k][2] : k \in 1 .. Len(C)} \ {Unselect}

\* The entries without those.
Lasting(E, C) == {e \in E : e[1] \notin Pending(C)}

\* Types of everything but the tables.
TypesOK ==
    /\ threaded \in BOOLEAN /\ stage \in {"start", "config", "serving", "exited"}
    /\ cmd \in [args : 0 .. 3, merge : BOOLEAN]
    /\ cfg \in CfgSet
    /\ conf \in [srv : Addrs \cup {NULL}, dir : Addrs \cup {NULL}, loc : Addrs \cup {NULL}]
    /\ said \in [dir : Texts, loc : Texts]
    /\ idle \subseteq Clones
    /\ req \in [Threads -> ReqSet]
    /\ table = [i \in Interps |-> table[i]]
    /\ \A i \in Interps : table[i] = NoTable \/ TableOK(table[i])

\* The structures cf of the configuration, in f, their objects, in E, and what
\* directives said, sd.
ConfOK(cf, sd, f, E) ==
    /\ cf.srv \in Addrs /\ cf.dir \in Addrs /\ cf.srv # cf.dir
    /\ cf.loc \notin {cf.srv, cf.dir}
    /\ f[cf.srv].owner = "pconf" /\ f[cf.dir].owner = "pconf"
    /\ cf.loc = NULL => sd.loc = <<>>
    /\ cf.loc # NULL => /\ sd.loc # <<>> /\ At(E, cf.loc, sd.loc)
                        /\ f[cf.loc] = [owner |-> "pconf", server |-> TRUE]
    /\ Says(E, cf.dir, sd.dir)
    /\ \A e \in E : e[1] \in Addrs /\ f[e[1]].owner = "pconf"

\* Cleanups for interpreter i: the oldest gives it back, the others remove
\* objects from its table.
Shape(th, i, C) ==
    IF th
    THEN /\ C # <<>> /\ C[1] = <<i, Unselect>>
         /\ \A k \in 2 .. Len(C) : C[k][1] = i /\ C[k][2] \in Addrs
    ELSE \A k \in 1 .. Len(C) : C[k][1] = "parent" /\ C[k][2] \in Addrs

\* The cleanups of a request are about its interpreter.
HoldOK(th, q) ==
    /\ q.at = "none" => q = NoReq
    /\ ~th => q.interp = NULL /\ Shape(th, "parent", q.cleanups)
    /\ th /\ q.cleanups # <<>> => q.interp # NULL /\ Shape(th, q.interp, q.cleanups)
    /\ th /\ q.at = "walk" /\ q.interp # NULL => q.cleanups # <<>>

\* A request that still merges sections: the object of the sections so far, and
\* that of the .htaccess file.
WalkOK(cf, t, q, f, E) ==
    /\ q.got = NULL
    /\ q.now \in Addrs /\ f[q.now].owner \in {t, "pconf"} /\ q.now # cf.srv
    /\ "loc" \in ToSet(q.todo) => cf.loc # NULL
    /\ q.ht = NULL => q.told = <<>>
    /\ q.ht # NULL => /\ q.told # <<>> /\ At(E, q.ht, q.told)
                      /\ f[q.ht] = [owner |-> t, server |-> TRUE]
    /\ ~q.died => Says(E, q.now, q.want)

GotOK(q) ==
    q.got # NULL /\ ~q.died => q.got = IF q.want = <<>> THEN UNDEF ELSE q.want

\* Request q of thread t, with the structures in f and the entries in E, of which
\* those in start were there when serving began.
ReqOK(th, cf, start, t, q, f, E) ==
    /\ HoldOK(th, q)
    /\ \A a \in Pending(q.cleanups) : f[a].owner \in {t, "pconf"}
    /\ Lasting(E, q.cleanups) = start
    /\ q.at = "walk" => WalkOK(cf, t, q, f, E)
    /\ GotOK(q)

Engine(th, q) == IF th THEN q.interp ELSE "parent"

\* The entries that the request finds, in its interpreter or the one it will get.
Seen(th, start, tb, q) ==
    IF q.cleanups = <<>> THEN start ELSE Entries(tb[Engine(th, q)])

\* Before requests are served.
Starting ==
    /\ idle = {}
    /\ \A t \in Threads : req[t] = NoReq
    /\ \A a \in Addrs : cfg[a].owner \in {NULL, "pconf"}
    /\ stage = "start" => \A i \in Interps : table[i] = NoTable
    /\ stage = "start" => \A a \in Addrs : cfg[a] = Free
    /\ stage = "start" => said = [dir |-> <<>>, loc |-> <<>>]
    /\ stage = "config" => ConfOK(conf, said, cfg, Entries(table["parent"]))

\* While they are.
Serving ==
    /\ ConfOK(conf, said, cfg, atStart)
    /\ ~threaded => idle = {} /\ \A t \in Threads \ {First} : req[t] = NoReq
    /\ threaded \/ req[First].cleanups = <<>> => Entries(table["parent"]) = atStart
    /\ \A i \in idle : Entries(table[i]) = atStart
    /\ \A t \in Threads :
         ReqOK(threaded, conf, atStart, t, req[t], cfg,
               Seen(threaded, atStart, table, req[t]))
    /\ \A t \in Threads : Pending(req[t].cleanups) # {} =>
         table[Engine(threaded, req[t])] # NoTable
    /\ \A t \in Threads : threaded /\ req[t].cleanups # <<>> => req[t].interp \notin idle
    /\ \A t, u \in Threads :
         /\ threaded /\ req[t].cleanups # <<>> /\ req[u].cleanups # <<>>
         /\ req[t].interp = req[u].interp
         => t = u

\* The inductive invariant.
MInv == TypesOK /\ IF stage = "serving" THEN Serving ELSE Starting

-----------------------------------------------------------------------------
(* Remainders.                                                             *)

\* Division with remainder.
LEMMA DivMod0 ==
    ASSUME NEW x \in Int, NEW s \in Int, s > 0
    PROVE  x = s * (x \div s) + (x % s)
BY SMTT(30)

\* The same for natural numbers, with the range of the remainder.
LEMMA DivMod ==
    ASSUME NEW x \in Nat, NEW s \in Nat \ {0}
    PROVE  /\ x = s * (x \div s) + (x % s)
           /\ x % s \in 0 .. s - 1 /\ x \div s \in Nat
<1>1. x % s \in 0 .. s - 1  OBVIOUS
<1>2. x \in Int /\ s \in Int /\ s > 0  OBVIOUS
<1>3. x = s * (x \div s) + (x % s)  BY <1>2, DivMod0, Zenon
<1>4. x \div s \in Int  OBVIOUS
<1>5. ASSUME x \div s < 0 PROVE FALSE
  <2>1. s * (x \div s) <= 0 - s  BY <1>4, <1>5
  <2> QED  BY <2>1, <1>1, <1>3
<1>6. x \div s \in Nat  BY ONLY <1>4, <1>5
<1> QED  BY <1>1, <1>3, <1>6, Zenon

\* The remainder is the one number below s that fits.
LEMMA ModUnique ==
    \A x, k, r \in Nat, s \in Nat \ {0} : r < s /\ x = s * k + r => x % s = r
OBVIOUS

\* The bucket in a table twice the size, seen in the smaller one.
LEMMA Twice ==
    ASSUME NEW x \in Nat, NEW s \in Nat \ {0}
    PROVE  (x % (2 * s)) % s = x % s
<1>1. 2 * s \in Nat \ {0}  OBVIOUS
<1> DEFINE y == x % (2 * s)
           k == x \div (2 * s)
           r == y % s
           j == y \div s
<1>2. x = (2 * s) * k + y /\ y \in 0 .. (2 * s) - 1 /\ k \in Nat
    BY <1>1, DivMod, Zenon
<1>3. y \in Nat  BY ONLY <1>1, <1>2
<1>4. y = s * j + r /\ r \in 0 .. s - 1 /\ j \in Nat  BY <1>3, DivMod, Zenon
<1>5. r \in Nat /\ r < s  BY ONLY <1>4, s \in Nat
<1> HIDE DEF y, k, r, j
<1>6. x = s * (2 * k + j) + r  BY <1>2, <1>3, <1>4, <1>5
<1>7. 2 * k + j \in Nat  BY <1>2, <1>4
<1>8. x % s = r  BY <1>5, <1>6, <1>7, ModUnique
<1> QED  BY <1>8 DEF r, y

\* An even address is never in the last bucket of a table of even size, the one
\* that modperl_svptr_table_clone leaves out.
LEMMA EvenMod ==
    ASSUME NEW x \in Nat, NEW m \in Nat, x % 2 = 0, m % 2 = 1
    PROVE  x % (m + 1) # m
<1> SUFFICES ASSUME x % (m + 1) = m PROVE FALSE  OBVIOUS
<1>1. PICK a \in Nat : x = 2 * a  OBVIOUS
<1>2. PICK h \in Nat : m = 2 * h + 1  OBVIOUS
<1> DEFINE k == x \div (m + 1)
<1>3. m + 1 \in Nat \ {0}  OBVIOUS
<1>4. x = (m + 1) * k + m /\ k \in Nat  BY <1>3, DivMod
<1> HIDE DEF k
<1>5. 2 * a = 2 * ((h + 1) * k) + (2 * h + 1)  BY <1>1, <1>2, <1>4
<1>6. (h + 1) * k \in Nat  BY <1>4
<1> QED  BY <1>5, <1>6

-----------------------------------------------------------------------------
(* The pointer table as a set of entries.                                  *)

\* The bucket of an address exists.
LEMMA BucketIn ==
    ASSUME NEW T, T.max \in Nat, NEW a \in Addrs
    PROVE  a \in Nat /\ a % 2 = 0 /\ a % (T.max + 1) \in 0 .. T.max
<1>1. a \in Nat /\ a % 2 = 0  BY ModulesAssumption
<1>2. T.max + 1 \in Nat \ {0} /\ (T.max + 1) - 1 = T.max  OBVIOUS
<1> QED  BY <1>1, <1>2, DivMod

\* The entries of a table are those in the buckets of their addresses.
LEMMA InBucket ==
    ASSUME NEW T, T.max \in Nat, T.ary \in [0 .. T.max -> SUBSET (Addrs \X Objs)],
           \A b \in 0 .. T.max : \A e \in T.ary[b] : e[1] % (T.max + 1) = b
    PROVE  \A e : e \in Entries(T) <=>
              e \in Addrs \X Objs /\ e \in T.ary[e[1] % (T.max + 1)]
<1>1. ASSUME NEW e \in Entries(T)
      PROVE  e \in Addrs \X Objs /\ e \in T.ary[e[1] % (T.max + 1)]
    BY <1>1 DEF Entries
<1>2. ASSUME NEW e \in Addrs \X Objs, e \in T.ary[e[1] % (T.max + 1)]
      PROVE  e \in Entries(T)
  <2>1. e[1] % (T.max + 1) \in DOMAIN T.ary  BY BucketIn
  <2> QED  BY <2>1, <1>2 DEF Entries
<1> QED  BY <1>1, <1>2

\* What is known of the entries of a table.
LEMMA EntryFacts ==
    ASSUME NEW T, TableOK(T)
    PROVE  /\ Entries(T) \subseteq Addrs \X Objs
           /\ \A e, f \in Entries(T) : e[1] = f[1] => e = f
           /\ \A a \in Addrs : With(T, a) = {e \in Entries(T) : e[1] = a}
<1>1. \A e : e \in Entries(T) <=>
         e \in Addrs \X Objs /\ e \in T.ary[e[1] % (T.max + 1)]
    BY InBucket DEF TableOK
<1>2. ASSUME NEW e \in Entries(T), NEW f \in Entries(T), e[1] = f[1] PROVE e = f
  <2>1. e[1] % (T.max + 1) \in 0 .. T.max  BY <1>1, BucketIn DEF TableOK
  <2> QED  BY <2>1, <1>1, <1>2 DEF TableOK
<1>3. ASSUME NEW a \in Addrs PROVE With(T, a) = {e \in Entries(T) : e[1] = a}
  <2>1. a % (T.max + 1) \in 0 .. T.max  BY BucketIn DEF TableOK
  <2>2. T.ary[a % (T.max + 1)] \subseteq Addrs \X Objs  BY <2>1 DEF TableOK
  <2> QED  BY <2>2, <1>1 DEF With
<1>4. Entries(T) \subseteq Addrs \X Objs  BY <1>1
<1> QED  BY <1>2, <1>3, <1>4

\* modperl_svptr_table_fetch finds the object of the address.
LEMMA FetchFacts ==
    ASSUME NEW T, TableOK(T), NEW a \in Addrs
    PROVE  /\ TableFetch(T, a) = NULL <=> Nothing(Entries(T), a)
           /\ \A o : At(Entries(T), a, o) => TableFetch(T, a) = o
           /\ ~Nothing(Entries(T), a) =>
                TableFetch(T, a) \in Objs /\ At(Entries(T), a, TableFetch(T, a))
<1> DEFINE hits == With(T, a)
           c == CHOOSE e \in hits : TRUE
<1>1. hits = {e \in Entries(T) : e[1] = a}  BY EntryFacts
<1>2. NULL \notin Objs  BY ModulesAssumption DEF Objs, Texts
<1>3. CASE hits = {}
  <2>1. TableFetch(T, a) = NULL  BY <1>3 DEF TableFetch
  <2>2. Nothing(Entries(T), a)  BY <1>1, <1>3 DEF Nothing
  <2>3. \A o : ~At(Entries(T), a, o)  BY <1>1, <1>3 DEF At
  <2> QED  BY <2>1, <2>2, <2>3
<1>4. CASE hits # {}
  <2>1. c \in hits  BY <1>4
  <2>2. TableFetch(T, a) = c[2]  BY <1>4 DEF TableFetch
  <2> HIDE DEF c
  <2>3. c \in Entries(T) /\ c[1] = a  BY <2>1, <1>1
  <2>4. c \in Addrs \X Objs  BY <2>3, EntryFacts
  <2>5. c = <<a, c[2]>> /\ c[2] \in Objs  BY <2>3, <2>4
  <2>6. ~Nothing(Entries(T), a)  BY <2>3 DEF Nothing
  <2>7. \A o : At(Entries(T), a, o) => c[2] = o
    <3>1. ASSUME NEW o, <<a, o>> \in Entries(T) PROVE c[2] = o
      <4>1. <<a, o>>[1] = a  OBVIOUS
      <4>2. <<a, o>> = c  BY <3>1, <4>1, <2>3, EntryFacts, Zenon
      <4> QED  BY <4>2
    <3> QED  BY <3>1 DEF At
  <2>8. At(Entries(T), a, c[2])  BY <2>3, <2>5 DEF At
  <2> QED  BY <2>2, <2>5, <2>6, <2>7, <2>8, <1>2, Zenon
<1> QED  BY <1>3, <1>4

\* No table has no entries, and neither has a new one.
LEMMA NewTable ==
    /\ Entries(NoTable) = {}
    /\ TableOK(TableNew) /\ Entries(TableNew) = {}
    /\ \A T : TableOK(T) => T # NoTable
<1>1. Entries(NoTable) = {}  BY DEF Entries, NoTable
<1>2. Entries(TableNew) = {}  BY DEF Entries, TableNew
<1>3. TblMax \in Nat /\ TblMax % 2 = 1  BY ModulesAssumption
<1>4. IsFiniteSet({}) /\ Cardinality({}) = 0  BY FS_EmptySet
<1>5. TableNew.ary \in [0 .. TblMax -> SUBSET (Addrs \X Objs)]  BY DEF TableNew
<1>6. TableOK(TableNew)
    BY <1>2, <1>3, <1>4, <1>5 DEF TableOK, TableNew
<1>7. ASSUME NEW T, TableOK(T) PROVE T # NoTable
  <2>1. T.max % 2 = 1  BY <1>7 DEF TableOK
  <2>2. NoTable.max % 2 = 0  BY DEF NoTable
  <2> QED  BY <2>1, <2>2
<1> QED  BY <1>1, <1>2, <1>6, <1>7

\* A table and what is kept of it.
TableOrNone(T) == T = NoTable \/ TableOK(T)

\* modperl_module_config_table_get creates a table where there is none.
LEMMA TableOfFacts ==
    ASSUME NEW T, TableOrNone(T)
    PROVE  TableOK(TableOf(T)) /\ Entries(TableOf(T)) = Entries(T)
BY NewTable DEF TableOrNone, TableOf

\* modperl_svptr_table_split keeps all entries.
LEMMA SplitFacts ==
    ASSUME NEW T, TableOK(T)
    PROVE  TableOK(TableSplit(T)) /\ Entries(TableSplit(T)) = Entries(T)
<1> DEFINE s == T.max + 1
           m == 2 * s - 1
           A == [b \in 0 .. m |-> {e \in T.ary[b % s] : e[1] % (2 * s) = b}]
           T2 == TableSplit(T)
<1>1. T.max \in Nat /\ T.max % 2 = 1 /\ T.ary \in [0 .. T.max -> SUBSET (Addrs \X Objs)]
    BY DEF TableOK
<1>2. /\ s \in Nat \ {0} /\ 2 * s \in Nat \ {0} /\ m \in Nat /\ m % 2 = 1 /\ m + 1 = 2 * s
      /\ (2 * s) - 1 = m /\ s - 1 = T.max
  <2>1. s \in Nat \ {0} /\ s - 1 = T.max  BY <1>1
  <2> HIDE DEF s
  <2>2. 2 * s \in Nat \ {0} /\ m \in Nat /\ m + 1 = 2 * s /\ (2 * s) - 1 = m  BY <2>1
  <2>3. m = 2 * (s - 1) + 1  BY <2>1
  <2>4. m % 2 = 1  BY <2>1, <2>3, ModUnique
  <2> QED  BY <2>1, <2>2, <2>4
<1>3. T2 = [max |-> m, items |-> T.items, ary |-> A]  BY DEF TableSplit
<1>4. T2.max = m /\ T2.items = T.items /\ T2.ary = A  BY <1>3
<1> HIDE DEF T2
<1>5. \A b \in 0 .. m : b % s \in 0 .. T.max
  <2> SUFFICES ASSUME NEW b \in 0 .. m PROVE b % s \in 0 .. T.max  OBVIOUS
  <2>1. b \in Nat  BY <1>2
  <2> QED  BY <2>1, <1>2, DivMod, Zenon
<1> HIDE DEF m
<1>6. A \in [0 .. m -> SUBSET (Addrs \X Objs)]
  <2>1. ASSUME NEW b \in 0 .. m
        PROVE  {e \in T.ary[b % s] : e[1] % (2 * s) = b} \in SUBSET (Addrs \X Objs)
    <3> HIDE DEF s
    <3> QED  BY <1>1, <1>5, <2>1
  <2> HIDE DEF s
  <2> QED  BY <2>1
<1>7. \A b \in 0 .. m : \A e : e \in A[b] <=> e \in T.ary[b % s] /\ e[1] % (2 * s) = b
    BY Zenon
<1> HIDE DEF A, s
<1>8. \A e \in Addrs \X Objs :
        /\ e[1] % (2 * s) \in 0 .. m /\ e[1] % s \in 0 .. T.max
        /\ (e[1] % (2 * s)) % s = e[1] % s
  <2> SUFFICES ASSUME NEW e \in Addrs \X Objs
               PROVE  /\ e[1] % (2 * s) \in 0 .. m /\ e[1] % s \in 0 .. T.max
                      /\ (e[1] % (2 * s)) % s = e[1] % s
    OBVIOUS
  <2>1. e[1] \in Nat  BY ModulesAssumption
  <2> QED  BY <2>1, <1>2, DivMod, Twice, Zenon
<1>9. \A e : e \in Entries(T) <=> e \in Addrs \X Objs /\ e \in T.ary[e[1] % s]
    BY InBucket, <1>1 DEF TableOK, s
<1>10. \A b \in 0 .. m : \A e \in A[b] : e[1] % (m + 1) = b
    BY <1>2, <1>7, Zenon
<1>11. \A e : e \in Entries(T2) <=> e \in Addrs \X Objs /\ e \in A[e[1] % (2 * s)]
  <2>1. T2.max \in Nat /\ T2.ary \in [0 .. T2.max -> SUBSET (Addrs \X Objs)]
    BY <1>2, <1>4, <1>6
  <2>2. \A b \in 0 .. T2.max : \A e \in T2.ary[b] : e[1] % (T2.max + 1) = b
    BY <1>4, <1>10
  <2> QED  BY <2>1, <2>2, <1>2, <1>4, InBucket
<1>12. Entries(T2) = Entries(T)
  <2>1. ASSUME NEW e \in Addrs \X Objs
        PROVE  e \in A[e[1] % (2 * s)] <=> e \in T.ary[e[1] % s]
    BY <1>7, <1>8, <2>1, Zenon
  <2> QED  BY <2>1, <1>9, <1>11, Zenon
<1>13. \A b \in 0 .. m : \A e, f \in A[b] : e[1] = f[1] => e = f
  <2>1. \A b \in 0 .. T.max : \A e, f \in T.ary[b] : e[1] = f[1] => e = f
    BY DEF TableOK
  <2> QED  BY <2>1, <1>5, <1>7, Zenon
<1>14. IsFiniteSet(Entries(T2)) /\ T2.items = Cardinality(Entries(T2))
    BY <1>4, <1>12 DEF TableOK
<1>15. T2 = [max |-> T2.max, items |-> T2.items, ary |-> T2.ary]  BY <1>3, <1>4
<1>16. TableOK(T2)
    BY ONLY <1>2, <1>4, <1>6, <1>10, <1>13, <1>14, <1>15 DEF TableOK
<1> QED  BY <1>12, <1>16 DEF T2

\* The bucket of address a gets new contents B, and tbl_items a new value.
Put(T, a, B, n) == [T EXCEPT !.ary[a % (T.max + 1)] = B, !.items = n]

\* A bucket gets new contents: the entries are those of the other buckets and
\* the new ones, and the table stays as it must be if they are counted.
LEMMA BucketChanged ==
    ASSUME NEW T, TableOK(T), NEW a \in Addrs, NEW B \in SUBSET (Addrs \X Objs),
           NEW n \in Nat, NEW Q, Q = Put(T, a, B, n),
           \A e \in B : e[1] % (T.max + 1) = a % (T.max + 1),
           \A e, f \in B : e[1] = f[1] => e = f,
           IsFiniteSet(Entries(Q)), n = Cardinality(Entries(Q))
    PROVE  TableOK(Q)
<1> DEFINE k == a % (T.max + 1)
           A == [T.ary EXCEPT ![k] = B]
<1>1. /\ T.max \in Nat /\ T.max % 2 = 1 /\ T.ary \in [0 .. T.max -> SUBSET (Addrs \X Objs)]
      /\ T = [max |-> T.max, items |-> T.items, ary |-> T.ary]
    BY DEF TableOK
<1>2. k \in 0 .. T.max  BY <1>1, BucketIn
<1>3. Q = [max |-> T.max, items |-> n, ary |-> A]  BY <1>1 DEF Put
<1>4. Q.max = T.max /\ Q.items = n /\ Q.ary = A  BY <1>3
<1> HIDE DEF k
<1>5. /\ A \in [0 .. T.max -> SUBSET (Addrs \X Objs)] /\ A[k] = B
      /\ \A b \in 0 .. T.max : b # k => A[b] = T.ary[b]
    BY <1>1, <1>2
<1> HIDE DEF A
<1>6. \A b \in 0 .. T.max : \A e \in A[b] : e[1] % (T.max + 1) = b
  <2>1. \A b \in 0 .. T.max : \A e \in T.ary[b] : e[1] % (T.max + 1) = b  BY DEF TableOK
  <2>2. \A e \in B : e[1] % (T.max + 1) = k  BY DEF k
  <2> QED  BY ONLY <2>1, <2>2, <1>5, Zenon
<1>7. \A b \in 0 .. T.max : \A e, f \in A[b] : e[1] = f[1] => e = f
  <2>1. \A b \in 0 .. T.max : \A e, f \in T.ary[b] : e[1] = f[1] => e = f  BY DEF TableOK
  <2>2. \A e, f \in B : e[1] = f[1] => e = f  OBVIOUS
  <2> QED  BY ONLY <2>1, <2>2, <1>5, Zenon
<1>8. Q = [max |-> Q.max, items |-> Q.items, ary |-> Q.ary]  BY <1>3, <1>4
<1> QED
  BY ONLY <1>1, <1>4, <1>5, <1>6, <1>7, <1>8, IsFiniteSet(Entries(Q)),
          n = Cardinality(Entries(Q)) DEF TableOK

\* The entries after a bucket got new contents.
LEMMA EntriesChanged ==
    ASSUME NEW T, TableOK(T), NEW a \in Addrs, NEW B \in SUBSET (Addrs \X Objs),
           NEW n, NEW Q, Q = Put(T, a, B, n)
    PROVE  \A e : e \in Entries(Q) <=>
              \/ e \in B
              \/ e \in Entries(T) /\ e[1] % (T.max + 1) # a % (T.max + 1)
<1> DEFINE k == a % (T.max + 1)
           A == [T.ary EXCEPT ![k] = B]
<1>1. /\ T.max \in Nat /\ T.ary \in [0 .. T.max -> SUBSET (Addrs \X Objs)]
      /\ T = [max |-> T.max, items |-> T.items, ary |-> T.ary]
      /\ \A b \in 0 .. T.max : \A e \in T.ary[b] : e[1] % (T.max + 1) = b
    BY DEF TableOK
<1>2. k \in 0 .. T.max  BY <1>1, BucketIn
<1>3. Q = [max |-> T.max, items |-> n, ary |-> A]  BY <1>1 DEF Put
<1>4. Q.ary = A  BY <1>3
<1> HIDE DEF k
<1>5. /\ DOMAIN A = 0 .. T.max /\ A[k] = B
      /\ \A b \in 0 .. T.max : b # k => A[b] = T.ary[b]
    BY <1>1, <1>2
<1> HIDE DEF A
<1>6. \A e : e \in Entries(Q) <=> \E b \in 0 .. T.max : e \in A[b]
    BY <1>4, <1>5 DEF Entries
<1>7. \A e : e \in Entries(T) <=> \E b \in 0 .. T.max : e \in T.ary[b]
    BY <1>1 DEF Entries
<1>8. \A e : e \in Entries(Q) <=> e \in B \/ (e \in Entries(T) /\ e[1] % (T.max + 1) # k)
    BY ONLY <1>1, <1>2, <1>5, <1>6, <1>7, ZenonT(30)
<1> QED  BY <1>8 DEF k

\* One more, or one less.
LEMMA Counted ==
    ASSUME NEW S, IsFiniteSet(S), NEW x
    PROVE  /\ Cardinality(S) \in Nat /\ IsFiniteSet(S \cup {x}) /\ IsFiniteSet(S \ {x})
           /\ x \notin S => Cardinality(S \cup {x}) = Cardinality(S) + 1
           /\ x \in S => Cardinality(S \ {x}) = Cardinality(S) - 1 /\ Cardinality(S) # 0
BY FS_AddElement, FS_RemoveElement, FS_CardinalityType, FS_EmptySet

\* modperl_svptr_table_delete removes the entry of the address.
LEMMA DeleteFacts ==
    ASSUME NEW T, TableOK(T), NEW a \in Addrs
    PROVE  /\ TableOK(TableDelete(T, a))
           /\ Entries(TableDelete(T, a)) = {e \in Entries(T) : e[1] # a}
<1> DEFINE old == With(T, a)
           k == a % (T.max + 1)
           B == T.ary[k] \ old
           n == IF old = {} THEN T.items ELSE T.items - 1
           Q == TableDelete(T, a)
<1>1. /\ T.max \in Nat /\ T.ary \in [0 .. T.max -> SUBSET (Addrs \X Objs)]
      /\ T = [max |-> T.max, items |-> T.items, ary |-> T.ary]
      /\ \A b \in 0 .. T.max : \A e \in T.ary[b] : e[1] % (T.max + 1) = b
      /\ \A b \in 0 .. T.max : \A e, f \in T.ary[b] : e[1] = f[1] => e = f
    BY DEF TableOK
<1>0. IsFiniteSet(Entries(T)) /\ T.items = Cardinality(Entries(T))  BY DEF TableOK
<1>2. k \in 0 .. T.max  BY <1>1, BucketIn
<1>3. Q = Put(T, a, B, n)  BY <1>1, <1>2 DEF TableDelete, Put
<1>4. old = {e \in Entries(T) : e[1] = a}  BY EntryFacts
<1> HIDE DEF Q, n, old
<1>5. B \in SUBSET (Addrs \X Objs)  BY <1>1, <1>2
<1>6. \A e : e \in Entries(Q) <=> e \in B \/ (e \in Entries(T) /\ e[1] % (T.max + 1) # k)
  <2> HIDE DEF B
  <2>1. \A e : e \in Entries(Q) <=>
          e \in B \/ (e \in Entries(T) /\ e[1] % (T.max + 1) # a % (T.max + 1))
    BY ONLY TableOK(T), a \in Addrs, <1>3, <1>5, EntriesChanged
  <2> QED  BY <2>1
<1>7. \A e : e \in Entries(T) <=> e \in Addrs \X Objs /\ e \in T.ary[e[1] % (T.max + 1)]
    BY <1>1, InBucket
<1>8. \A e \in T.ary[k] : e \in Addrs \X Objs /\ e[1] % (T.max + 1) = k  BY <1>1, <1>2
<1>9. Entries(Q) = {e \in Entries(T) : e[1] # a}
  <2>1. \A e : e \in Entries(Q) <=> e \in Entries(T) /\ e \notin old
    <3>1. \A e \in old : e[1] % (T.max + 1) = k  BY <1>4
    <3> HIDE DEF k
    <3> QED  BY ONLY <3>1, <1>6, <1>7, <1>8, Zenon
  <2> QED  BY <2>1, <1>4
<1>10. IsFiniteSet(Entries(Q)) /\ n = Cardinality(Entries(Q)) /\ n \in Nat
  <2>1. CASE old = {}
    <3>1. Entries(Q) = Entries(T)  BY <2>1, <1>4, <1>9
    <3>2. Cardinality(Entries(T)) \in Nat  BY ONLY <1>0, FS_CardinalityType
    <3>3. n = T.items  BY <2>1, Zenon DEF n
    <3> QED  BY ONLY <3>1, <3>2, <3>3, <1>0, Zenon
  <2>2. CASE old # {}
    <3>1. PICK x \in old : TRUE  BY <2>2
    <3>2. x \in Entries(T) /\ x[1] = a  BY <1>4, <3>1
    <3>3. Entries(Q) = Entries(T) \ {x}
        BY <3>2, <1>9, EntryFacts
    <3>4. /\ Cardinality(Entries(T) \ {x}) = Cardinality(Entries(T)) - 1
          /\ Cardinality(Entries(T)) # 0 /\ Cardinality(Entries(T)) \in Nat
          /\ IsFiniteSet(Entries(T) \ {x})
        BY ONLY <1>0, <3>2, Counted
    <3>5. n = T.items - 1  BY <2>2, Zenon DEF n
    <3>6. T.items - 1 \in Nat  BY ONLY <1>0, <3>4
    <3> QED  BY ONLY <3>3, <3>4, <3>5, <3>6, <1>0, Zenon
  <2> QED  BY <2>1, <2>2
<1>11. /\ \A e \in B : e[1] % (T.max + 1) = k
       /\ \A e, f \in B : e[1] = f[1] => e = f
    BY <1>1, <1>2, <1>8
<1>12. TableOK(Q)  BY <1>3, <1>5, <1>10, <1>11, BucketChanged
<1> QED  BY <1>9, <1>12 DEF Q

\* The object of address a is now o.
Replaced(E, a, o) == {e \in E : e[1] # a} \cup {<<a, o>>}

\* modperl_svptr_table_store replaces the object of the address, or adds it, and
\* may split the table.
LEMMA StoreFacts ==
    ASSUME NEW T, TableOK(T), NEW a \in Addrs, NEW o \in Objs
    PROVE  /\ TableOK(TableStore(T, a, o))
           /\ Entries(TableStore(T, a, o)) = Replaced(Entries(T), a, o)
<1> DEFINE old == With(T, a)
           k == a % (T.max + 1)
           x == <<a, o>>
           B == (T.ary[k] \ old) \cup {x}
           n == IF old = {} THEN T.items + 1 ELSE T.items
           Q == [T EXCEPT !.ary[k] = (@ \ old) \cup {<<a, o>>},
                          !.items = IF old = {} THEN @ + 1 ELSE @]
<1>1. /\ T.max \in Nat /\ T.ary \in [0 .. T.max -> SUBSET (Addrs \X Objs)]
      /\ T = [max |-> T.max, items |-> T.items, ary |-> T.ary]
      /\ \A b \in 0 .. T.max : \A e \in T.ary[b] : e[1] % (T.max + 1) = b
      /\ \A b \in 0 .. T.max : \A e, f \in T.ary[b] : e[1] = f[1] => e = f
    BY DEF TableOK
<1>0. IsFiniteSet(Entries(T)) /\ T.items = Cardinality(Entries(T))  BY DEF TableOK
<1>2. k \in 0 .. T.max  BY <1>1, BucketIn
<1>3. Q = Put(T, a, B, n)  BY <1>1, <1>2 DEF Put
<1>4. old = {e \in Entries(T) : e[1] = a}  BY EntryFacts
<1>5. x \in Addrs \X Objs /\ x[1] = a  OBVIOUS
<1>14. TableStore(T, a, o) = Q \/ TableStore(T, a, o) = TableSplit(Q)
    BY DEF TableStore
<1> HIDE DEF Q, n, old, x
<1>6. B \in SUBSET (Addrs \X Objs)  BY <1>1, <1>2, <1>5
<1>7. \A e : e \in Entries(Q) <=> e \in B \/ (e \in Entries(T) /\ e[1] % (T.max + 1) # k)
  <2> HIDE DEF B
  <2>1. \A e : e \in Entries(Q) <=>
          e \in B \/ (e \in Entries(T) /\ e[1] % (T.max + 1) # a % (T.max + 1))
    BY ONLY TableOK(T), a \in Addrs, <1>3, <1>6, EntriesChanged
  <2> QED  BY <2>1
<1>8. \A e : e \in Entries(T) <=> e \in Addrs \X Objs /\ e \in T.ary[e[1] % (T.max + 1)]
    BY <1>1, InBucket
<1>9. \A e \in T.ary[k] : e \in Addrs \X Objs /\ e[1] % (T.max + 1) = k  BY <1>1, <1>2
<1>10. Entries(Q) = {e \in Entries(T) : e[1] # a} \cup {x}
  <2>1. \A e : e \in Entries(Q) <=> (e \in Entries(T) /\ e \notin old) \/ e = x
    <3>1. \A e \in old : e[1] % (T.max + 1) = k  BY <1>4
    <3> HIDE DEF k
    <3> QED  BY ONLY <3>1, <1>7, <1>8, <1>9, Zenon
  <2> QED  BY <2>1, <1>4
<1>11. IsFiniteSet(Entries(Q)) /\ n = Cardinality(Entries(Q)) /\ n \in Nat
  <2>1. CASE old = {}
    <3>1. Entries(Q) = Entries(T) \cup {x} /\ x \notin Entries(T)
        BY <2>1, <1>4, <1>5, <1>10
    <3>2. n = T.items + 1  BY <2>1, Zenon DEF n
    <3> QED  BY ONLY <3>1, <3>2, <1>0, Counted
  <2>2. CASE old # {}
    <3>1. PICK y \in old : TRUE  BY <2>2
    <3>2. y \in Entries(T) /\ y[1] = a  BY <1>4, <3>1
    <3>3. Entries(Q) = (Entries(T) \ {y}) \cup {x} /\ x \notin Entries(T) \ {y}
        BY <3>2, <1>5, <1>10, EntryFacts
    <3>4. /\ Cardinality(Entries(T) \ {y}) = Cardinality(Entries(T)) - 1
          /\ Cardinality(Entries(T)) \in Nat /\ IsFiniteSet(Entries(T) \ {y})
        BY ONLY <1>0, <3>2, Counted
    <3>5. /\ Cardinality(Entries(Q)) = Cardinality(Entries(T) \ {y}) + 1
          /\ IsFiniteSet(Entries(Q))
      <4> DEFINE S == Entries(T) \ {y}
      <4>1. IsFiniteSet(S) /\ x \notin S /\ Entries(Q) = S \cup {x}  BY <3>3, <3>4
      <4> HIDE DEF S
      <4>2. Cardinality(Entries(Q)) = Cardinality(S) + 1 /\ IsFiniteSet(Entries(Q))
        BY ONLY <4>1, Counted
      <4> QED  BY <4>2 DEF S
    <3>6. n = T.items  BY <2>2, Zenon DEF n
    <3> QED  BY ONLY <3>4, <3>5, <3>6, <1>0
  <2> QED  BY <2>1, <2>2
<1>12. /\ \A e \in B : e[1] % (T.max + 1) = k
       /\ \A e, f \in B : e[1] = f[1] => e = f
  <2>1. \A e \in T.ary[k] : e \notin old => e[1] # a
    BY <1>4, <1>8, <1>9
  <2>2. \A e, f \in T.ary[k] : e[1] = f[1] => e = f  BY <1>1, <1>2
  <2>3. \A e \in T.ary[k] \ old : e[1] # x[1]  BY <2>1, <1>5
  <2>4. \A e, f \in B : e[1] = f[1] => e = f  BY ONLY <2>2, <2>3, Zenon
  <2>5. x[1] % (T.max + 1) = k  BY <1>5
  <2> QED  BY <2>4, <2>5, <1>9
<1>13. TableOK(Q)  BY <1>3, <1>6, <1>11, <1>12, BucketChanged
<1>15. TableOK(TableSplit(Q)) /\ Entries(TableSplit(Q)) = Entries(Q)
    BY <1>13, SplitFacts
<1>16. Entries(Q) = Replaced(Entries(T), a, o)  BY <1>10 DEF x, Replaced
<1> QED  BY <1>13, <1>14, <1>15, <1>16

\* What is at the address, and at the others.
LEMMA ReplacedFacts ==
    ASSUME NEW E, NEW a, NEW o
    PROVE  /\ At(Replaced(E, a, o), a, o)
           /\ \A e : e[1] # a => (e \in Replaced(E, a, o) <=> e \in E)
           /\ \A b, x : b # a => (At(Replaced(E, a, o), b, x) <=> At(E, b, x))
           /\ \A b : b # a => (Nothing(Replaced(E, a, o), b) <=> Nothing(E, b))
           /\ \A e \in Replaced(E, a, o) : e \in E \/ e[1] = a
BY DEF Replaced, At, Nothing

\* modperl_svptr_table_clone copies every entry, although it stops before the
\* last bucket.
LEMMA CloneFacts ==
    ASSUME NEW T, TableOrNone(T)
    PROVE  TableClone(T) = T
<1>1. CASE T = NoTable  BY <1>1 DEF TableClone
<1>2. CASE TableOK(T)
  <2>1. /\ T.max \in Nat /\ T.max % 2 = 1 /\ T.ary \in [0 .. T.max -> SUBSET (Addrs \X Objs)]
        /\ T = [max |-> T.max, items |-> T.items, ary |-> T.ary]
        /\ \A b \in 0 .. T.max : \A e \in T.ary[b] : e[1] % (T.max + 1) = b
    BY <1>2 DEF TableOK
  <2>2. T.ary[T.max] = {}
    <3>1. SUFFICES ASSUME NEW e \in T.ary[T.max] PROVE FALSE  OBVIOUS
    <3>2. T.max \in 0 .. T.max  BY <2>1
    <3>3. e[1] \in Addrs /\ e[1] % (T.max + 1) = T.max  BY <2>1, <3>1, <3>2
    <3>4. e[1] \in Nat /\ e[1] % 2 = 0  BY <3>3, ModulesAssumption
    <3> QED  BY <3>3, <3>4, <2>1, EvenMod
  <2> DEFINE A == [b \in DOMAIN T.ary |-> IF b < T.max THEN T.ary[b] ELSE {}]
  <2>3. A = T.ary
    <3>1. \A b \in 0 .. T.max : b < T.max \/ b = T.max  BY <2>1
    <3> QED  BY <2>1, <2>2, <3>1
  <2>4. T # NoTable  BY <1>2, NewTable
  <2>5. TableClone(T) = [T EXCEPT !.ary = A]  BY <2>4 DEF TableClone
  <2> HIDE DEF A
  <2> QED  BY <2>1, <2>3, <2>5
<1> QED  BY <1>1, <1>2 DEF TableOrNone

-----------------------------------------------------------------------------
(* Objects and cleanups.                                                   *)

\* Constants that are not confused.
LEMMA Distinct ==
    /\ NULL \notin Addrs /\ NULL \notin Objs /\ UNDEF \in Objs /\ UNDEF \notin Texts
    /\ NULL # UNDEF /\ NULL # "pconf" /\ NULL \notin Threads /\ "pconf" \notin Threads
    /\ NULL \notin Clones /\ "parent" \notin Clones /\ Unselect \notin Addrs
    /\ First \in Threads /\ <<>> \in Texts /\ Texts \subseteq Objs
BY ModulesAssumption DEF Objs, Texts, Unselect

\* The addresses to be removed, when a cleanup is registered.
LEMMA PendingAppend ==
    ASSUME NEW C \in Seq(CleanupSet), NEW i \in Interps,
           NEW a \in Addrs \cup {Unselect}
    PROVE  /\ Append(C, <<i, a>>) \in Seq(CleanupSet)
           /\ Append(C, <<i, a>>) # <<>>
           /\ Pending(Append(C, <<i, a>>)) = Pending(C) \cup ({a} \ {Unselect})
           /\ Pending(<<>>) = {}
<1> DEFINE x == <<i, a>>
           D == Append(C, x)
<1>1. x \in CleanupSet /\ x[2] = a  BY DEF CleanupSet
<1> HIDE DEF x
<1>2. /\ D \in Seq(CleanupSet) /\ Len(D) = Len(C) + 1 /\ Len(C) \in Nat
      /\ D[Len(C) + 1] = x /\ \A k \in 1 .. Len(C) : D[k] = C[k]
    BY <1>1
<1> HIDE DEF D
<1>3. \A b : (\E k \in 1 .. Len(D) : b = D[k][2]) <=>
             (\E k \in 1 .. Len(C) : b = C[k][2]) \/ b = a
  <2>1. 1 .. Len(D) = (1 .. Len(C)) \cup {Len(C) + 1}  BY <1>2
  <2> QED  BY ONLY <1>1, <1>2, <2>1, Zenon
<1>4. Pending(D) = Pending(C) \cup ({a} \ {Unselect})
  <2>1. \A b : b \in Pending(D) <=> b # Unselect /\ \E k \in 1 .. Len(D) : b = D[k][2]
    BY DEF Pending
  <2>2. \A b : b \in Pending(C) <=> b # Unselect /\ \E k \in 1 .. Len(C) : b = C[k][2]
    BY DEF Pending
  <2> QED  BY <1>3, <2>1, <2>2
<1>5. Pending(<<>>) = {}  BY DEF Pending
<1>6. D # <<>>  BY <1>2
<1> QED  BY <1>2, <1>4, <1>5, <1>6 DEF D, x

\* ... and when the newest cleanup is run.
LEMMA PendingFront ==
    ASSUME NEW C \in Seq(CleanupSet), C # <<>>
    PROVE  /\ Front(C) \in Seq(CleanupSet) /\ Last(C) \in CleanupSet
           /\ Last(C) = C[Len(C)] /\ Len(Front(C)) = Len(C) - 1
           /\ Len(C) \in Nat \ {0}
           /\ \A k \in 1 .. Len(C) - 1 : Front(C)[k] = C[k]
           /\ Pending(C) = Pending(Front(C)) \cup ({Last(C)[2]} \ {Unselect})
<1>1. /\ Front(C) \in Seq(CleanupSet) /\ Len(Front(C)) = Len(C) - 1
      /\ \A k \in 1 .. Len(C) - 1 : Front(C)[k] = C[k]
      /\ Len(C) \in Nat \ {0} /\ Last(C) = C[Len(C)] /\ Last(C) \in CleanupSet
  <2>1. Len(C) \in Nat \ {0}  OBVIOUS
  <2>2. Last(C) = C[Len(C)] /\ Last(C) \in CleanupSet  BY DEF Last
  <2>3. /\ Front(C) \in Seq(CleanupSet) /\ Len(Front(C)) = Len(C) - 1
        /\ \A k \in 1 .. Len(C) - 1 : Front(C)[k] = C[k]
    <3> DEFINE n == Len(C) - 1
    <3>1. n \in Nat /\ 1 \in Int /\ n \in Int /\ \A k \in 1 .. n : C[k] \in CleanupSet
      BY <2>1
    <3>2. Front(C) = SubSeq(C, 1, n)  BY DEF Front
    <3> HIDE DEF n
    <3>3. Front(C) \in Seq(CleanupSet)
      BY ONLY <3>1, <3>2, SubSeqProperties
    <3>4. Len(Front(C)) = n
      BY ONLY <3>1, <3>2, SubSeqProperties
    <3>5. \A k \in 1 .. n : Front(C)[k] = C[k]
      BY ONLY <3>1, <3>2
    <3> QED  BY ONLY <3>3, <3>4, <3>5 DEF n
  <2> QED  BY <2>1, <2>2, <2>3
<1> DEFINE D == Front(C)
           x == Last(C)
<1> HIDE DEF D, x
<1>2. \A b : (\E k \in 1 .. Len(C) : b = C[k][2]) <=>
             (\E k \in 1 .. Len(D) : b = D[k][2]) \/ b = x[2]
  <2>1. 1 .. Len(C) = (1 .. Len(D)) \cup {Len(C)}  BY <1>1 DEF D
  <2>2. C[Len(C)] = x /\ \A k \in 1 .. Len(D) : D[k] = C[k]  BY <1>1 DEF D, x
  <2> QED  BY ONLY <2>1, <2>2, Zenon
<1>3. \A b : b \in Pending(D) <=> b # Unselect /\ \E k \in 1 .. Len(D) : b = D[k][2]
    BY DEF Pending
<1>4. \A b : b \in Pending(C) <=> b # Unselect /\ \E k \in 1 .. Len(C) : b = C[k][2]
    BY DEF Pending
<1>5. Pending(C) = Pending(D) \cup ({x[2]} \ {Unselect})  BY <1>2, <1>3, <1>4
<1> QED  BY <1>1, <1>5 DEF D, x

\* A pair of a table and the structures, with the cleanups.
WorldType(W) ==
    /\ W = [t |-> W.t, f |-> W.f, c |-> W.c]
    /\ TableOK(W.t) /\ W.f \in CfgSet /\ W.c \in Seq(CleanupSet)

\* What modperl_module_config_create_obj does.
LEMMA CreateObjFacts ==
    ASSUME NEW W, WorldType(W), NEW i \in Interps, NEW a \in Addrs, NEW V,
           V = CreateObj(W, i, a)
    PROVE  /\ WorldType(V)
           /\ ~Nothing(Entries(W.t), a) => V = W
           /\ Nothing(Entries(W.t), a) =>
                /\ Entries(V.t) = Replaced(Entries(W.t), a, <<>>)
                /\ V.f = [W.f EXCEPT ![a].server = TRUE]
                /\ V.c = Register(W.c, i, a)
<1>1. TableFetch(W.t, a) = NULL <=> Nothing(Entries(W.t), a)
    BY FetchFacts DEF WorldType
<1>2. CASE ~Nothing(Entries(W.t), a)
    BY <1>1, <1>2 DEF CreateObj
<1>3. CASE Nothing(Entries(W.t), a)
  <2> DEFINE T == TableStore(W.t, a, <<>>)
             f == [W.f EXCEPT ![a].server = TRUE]
             c == Register(W.c, i, a)
  <2>1. TableOK(T) /\ Entries(T) = Replaced(Entries(W.t), a, <<>>)
    BY StoreFacts, Distinct DEF WorldType
  <2>3. f \in CfgSet  BY DEF WorldType, CfgSet
  <2>4. c \in Seq(CleanupSet)  BY PendingAppend DEF WorldType, Register
  <2>5. V = [t |-> T, f |-> f, c |-> c]  BY <1>1, <1>3 DEF CreateObj
  <2> HIDE DEF T, f, c
  <2>6. V.t = T /\ V.f = f /\ V.c = c  BY <2>5
  <2>7. WorldType(V)  BY <2>1, <2>3, <2>4, <2>5, <2>6 DEF WorldType
  <2> QED  BY <1>3, <2>1, <2>6, <2>7 DEF f, c
<1> QED  BY <1>2, <1>3

\* What modperl_module_cmd_take123 does for the structure a, whose object said o:
\* other objects are as they were, and that of the server, s, exists.
TookArgs(s, W, V, i, a, o, args) ==
    /\ WorldType(V)
    /\ At(Entries(V.t), a, o \o args)
    /\ \A e : e[1] \notin {a, s} => (e \in Entries(V.t) <=> e \in Entries(W.t))
    /\ ~Nothing(Entries(W.t), s) =>
         \A e : e[1] = s => (e \in Entries(V.t) <=> e \in Entries(W.t))
    /\ \A b \in Addrs \ {a, s} : V.f[b] = W.f[b]
    /\ V.f[s].owner = W.f[s].owner
    /\ V.f[a].owner = W.f[a].owner
    /\ Nothing(Entries(W.t), a) => V.f[a].server = TRUE
    /\ ~Nothing(Entries(W.t), a) => V.f[a] = W.f[a]
    /\ \E X : /\ X = IF Nothing(Entries(W.t), a) THEN Register(W.c, i, a) ELSE W.c
              /\ V.c = IF Nothing(Entries(W.t), s) THEN Register(X, i, s) ELSE X

\* The function does that.
LEMMA Take123Facts ==
    ASSUME NEW W, WorldType(W), NEW i \in Interps, NEW a \in Addrs,
           conf.srv \in Addrs, a # conf.srv, NEW o \in Texts, NEW args \in Texts,
           (Nothing(Entries(W.t), a) /\ o = <<>>) \/ At(Entries(W.t), a, o),
           NEW V, V = Take123(W, i, a, args)
    PROVE  TookArgs(conf.srv, W, V, i, a, o, args)
<1> DEFINE s == conf.srv
           E == Entries(W.t)
           W1 == CreateObj(W, i, a)
           W2 == CreateObj(W1, i, s)
           U == TableStore(W2.t, a, Adds(TableFetch(W2.t, a), args))
<1>1. /\ WorldType(W1)
      /\ ~Nothing(E, a) => W1 = W
      /\ Nothing(E, a) => /\ Entries(W1.t) = Replaced(E, a, <<>>)
                          /\ W1.f = [W.f EXCEPT ![a].server = TRUE]
                          /\ W1.c = Register(W.c, i, a)
  <2>1. W1 = CreateObj(W, i, a)  OBVIOUS
  <2> HIDE DEF W1
  <2> QED  BY ONLY <2>1, WorldType(W), i \in Interps, a \in Addrs, CreateObjFacts
<1>2. /\ WorldType(W2)
      /\ ~Nothing(Entries(W1.t), s) => W2 = W1
      /\ Nothing(Entries(W1.t), s) => /\ Entries(W2.t) = Replaced(Entries(W1.t), s, <<>>)
                                      /\ W2.f = [W1.f EXCEPT ![s].server = TRUE]
                                      /\ W2.c = Register(W1.c, i, s)
  <2>1. W2 = CreateObj(W1, i, s) /\ s \in Addrs  OBVIOUS
  <2> HIDE DEF W1, W2, s
  <2> QED  BY ONLY <1>1, <2>1, i \in Interps, CreateObjFacts
<1>3. V = [W2 EXCEPT !.t = U]  BY DEF Take123
<1>4. s # a /\ s \in Addrs  OBVIOUS
<1> HIDE DEF W1, W2, U, E
<1>5. Nothing(Entries(W1.t), s) <=> Nothing(E, s)
    BY <1>1, <1>4, ReplacedFacts DEF E
<1>6. At(Entries(W1.t), a, o)
  <2>1. CASE Nothing(E, a)
    <3>1. o = <<>>  BY <2>1 DEF E, Nothing, At
    <3>2. At(Entries(W1.t), a, <<>>)  BY <2>1, <1>1, ReplacedFacts
    <3> QED  BY <3>1, <3>2
  <2>2. CASE ~Nothing(E, a)
    <3>1. At(E, a, o)  BY <2>2 DEF E
    <3>2. W1 = W  BY <2>2, <1>1
    <3> QED  BY <3>1, <3>2 DEF E
  <2> QED  BY <2>1, <2>2
<1>7. At(Entries(W2.t), a, o)
    BY <1>2, <1>4, <1>6, ReplacedFacts
<1>8. /\ TableOK(W2.t) /\ W2.f \in CfgSet /\ W2.c \in Seq(CleanupSet)
      /\ W2 = [t |-> W2.t, f |-> W2.f, c |-> W2.c]
    BY <1>2 DEF WorldType
<1>9. TableFetch(W2.t, a) = o  BY <1>7, <1>8, FetchFacts
<1>10. Adds(o, args) = o \o args /\ o \o args \in Texts
  <2>1. o \notin {NULL, UNDEF} /\ args \notin {NULL, UNDEF}  BY Distinct
  <2>2. o \o args \in Texts  BY DEF Texts
  <2> QED  BY <2>1, <2>2 DEF Adds
<1>11. TableOK(U) /\ Entries(U) = Replaced(Entries(W2.t), a, o \o args)
  <2>1. U = TableStore(W2.t, a, o \o args)  BY <1>9, <1>10 DEF U
  <2>2. o \o args \in Objs  BY <1>10, Distinct
  <2> QED  BY ONLY <2>1, <2>2, <1>8, a \in Addrs, StoreFacts
<1>12. V = [t |-> U, f |-> W2.f, c |-> W2.c]  BY <1>3, <1>8
<1>13. V.t = U /\ V.f = W2.f /\ V.c = W2.c  BY <1>12
<1>14. WorldType(V)  BY <1>8, <1>11, <1>12, <1>13 DEF WorldType
<1>15. At(Entries(V.t), a, o \o args)  BY <1>11, <1>13, ReplacedFacts
<1>16. \A e : e[1] \notin {a, s} => (e \in Entries(V.t) <=> e \in E)
  <2>1. \A e : e[1] # a => (e \in Entries(V.t) <=> e \in Entries(W2.t))
    BY <1>11, <1>13, ReplacedFacts
  <2>2. \A e : e[1] # s => (e \in Entries(W2.t) <=> e \in Entries(W1.t))
    BY <1>2, ReplacedFacts
  <2>3. \A e : e[1] # a => (e \in Entries(W1.t) <=> e \in E)
    BY <1>1, ReplacedFacts DEF E
  <2> QED  BY <2>1, <2>2, <2>3, Zenon
<1>17. ~Nothing(E, s) => \A e : e[1] = s => (e \in Entries(V.t) <=> e \in E)
  <2>1. \A e : e[1] # a => (e \in Entries(V.t) <=> e \in Entries(W2.t))
    BY <1>11, <1>13, ReplacedFacts
  <2>2. ~Nothing(E, s) => W2 = W1  BY <1>2, <1>5
  <2>3. \A e : e[1] # a => (e \in Entries(W1.t) <=> e \in E)
    BY <1>1, ReplacedFacts DEF E
  <2> QED  BY <1>4, <2>1, <2>2, <2>3, Zenon
<1>18. /\ \A b \in Addrs \ {a, s} : V.f[b] = W.f[b]
       /\ V.f[s].owner = W.f[s].owner
       /\ V.f[a].owner = W.f[a].owner
       /\ Nothing(E, a) => V.f[a].server = TRUE
       /\ ~Nothing(E, a) => V.f[a] = W.f[a]
  <2>1. W.f \in CfgSet /\ W1.f \in CfgSet  BY <1>1 DEF WorldType
  <2>2. /\ \A b \in Addrs \ {a} : W1.f[b] = W.f[b]
        /\ W1.f[a].owner = W.f[a].owner
        /\ Nothing(E, a) => W1.f[a].server = TRUE
        /\ ~Nothing(E, a) => W1.f[a] = W.f[a]
    BY <1>1, <2>1 DEF CfgSet
  <2>3. /\ \A b \in Addrs \ {s} : V.f[b] = W1.f[b]
        /\ V.f[s].owner = W1.f[s].owner
    BY <1>2, <1>4, <1>13, <2>1 DEF CfgSet
  <2> HIDE DEF s
  <2> QED  BY ONLY <2>2, <2>3, <1>4, a \in Addrs, Zenon
<1>19. \E X : /\ X = IF Nothing(E, a) THEN Register(W.c, i, a) ELSE W.c
              /\ V.c = IF Nothing(E, s) THEN Register(X, i, s) ELSE X
  <2>1. W1.c = IF Nothing(E, a) THEN Register(W.c, i, a) ELSE W.c  BY <1>1
  <2>2. V.c = IF Nothing(E, s) THEN Register(W1.c, i, s) ELSE W1.c  BY <1>2, <1>5, <1>13
  <2> QED  BY <2>1, <2>2
<1> QED  BY <1>14, <1>15, <1>16, <1>17, <1>18, <1>19 DEF s, E, TookArgs

\* What modperl_module_config_merge does, where the later section has an object
\* that says w2.
Merged(W, i, base, add, new, dies, w2, r) ==
    /\ Nothing(Entries(W.t), base) => r.now = add /\ r.W = W
    /\ ~Nothing(Entries(W.t), base) =>
         /\ r.now = new /\ WorldType(r.W)
         /\ r.W.f = [W.f EXCEPT ![new].server = TRUE]
         /\ r.W.c = Register(W.c, i, new)
         /\ \E obj \in Objs :
              /\ Entries(r.W.t) = Replaced(Entries(W.t), new, obj)
              /\ \A w1 \in Texts : At(Entries(W.t), base, w1) /\ ~(dies /\ cmd.merge)
                   => obj = IF cmd.merge THEN w1 \o w2 ELSE w2

\* The function does that.
LEMMA MergeFacts ==
    ASSUME NEW W, WorldType(W), NEW i \in Interps, NEW base \in Addrs,
           NEW add \in Addrs, NEW new \in Addrs, NEW dies \in BOOLEAN,
           cmd.merge \in BOOLEAN, NEW w2 \in Texts, At(Entries(W.t), add, w2),
           NEW r, r = Merge(W, i, base, add, new, dies)
    PROVE  Merged(W, i, base, add, new, dies, w2, r)
<1> DEFINE b == TableFetch(W.t, base)
           a == TableFetch(W.t, add)
           obj == IF ~cmd.merge THEN a ELSE IF dies THEN UNDEF ELSE Adds(b, a)
<1>1. TableOK(W.t) /\ W.f \in CfgSet /\ W.c \in Seq(CleanupSet)  BY DEF WorldType
<1>2. b = NULL <=> Nothing(Entries(W.t), base)  BY <1>1, FetchFacts
<1>3. a = w2  BY <1>1, FetchFacts
<1>4. CASE Nothing(Entries(W.t), base)  BY <1>2, <1>4 DEF Merge, Merged
<1>5. CASE ~Nothing(Entries(W.t), base)
  <2> DEFINE T == TableStore(W.t, new, obj)
             f == [W.f EXCEPT ![new].server = TRUE]
             c == Register(W.c, i, new)
  <2>1. b \in Objs  BY <1>1, <1>5, FetchFacts
  <2>2. \A w1 \in Texts : At(Entries(W.t), base, w1) => b = w1  BY <1>1, FetchFacts
  <2> HIDE DEF a, b
  <2>3. Adds(b, a) \in Objs
    <3>1. CASE b = UNDEF  BY <3>1, Distinct DEF Adds
    <3>2. CASE b \in Texts
      <4>1. b \o a \in Texts  BY <1>3, <3>2 DEF Texts
      <4> QED  BY <4>1, Distinct DEF Adds
    <3> QED  BY <2>1, <3>1, <3>2 DEF Objs
  <2>4. obj \in Objs  BY <2>3, <1>3, Distinct
  <2>5. \A w1 \in Texts : At(Entries(W.t), base, w1) /\ ~(dies /\ cmd.merge)
          => obj = IF cmd.merge THEN w1 \o w2 ELSE w2
    <3> SUFFICES ASSUME NEW w1 \in Texts, At(Entries(W.t), base, w1),
                        ~(dies /\ cmd.merge)
                 PROVE  obj = IF cmd.merge THEN w1 \o w2 ELSE w2
      OBVIOUS
    <3>1. b = w1  BY <2>2
    <3>2. w1 \notin {NULL, UNDEF} /\ w2 \notin {NULL, UNDEF}  BY Distinct
    <3>3. Adds(b, a) = w1 \o w2  BY <1>3, <3>1, <3>2 DEF Adds
    <3> QED  BY <1>3, <3>3
  <2>6. r = [now |-> new, W |-> [t |-> T, f |-> f, c |-> c]]
    <3>1. [W.f EXCEPT ![new] = [owner |-> @.owner, server |-> TRUE]] = f
      BY <1>1 DEF CfgSet
    <3> QED  BY <1>2, <1>5, <3>1 DEF Merge, a, b
  <2> HIDE DEF obj
  <2>7. TableOK(T) /\ Entries(T) = Replaced(Entries(W.t), new, obj)
    BY <1>1, <2>4, StoreFacts
  <2>8. f \in CfgSet  BY <1>1 DEF CfgSet
  <2>9. c \in Seq(CleanupSet)  BY <1>1, PendingAppend DEF Register
  <2> HIDE DEF T, f, c
  <2>10. r.now = new /\ r.W = [t |-> T, f |-> f, c |-> c]  BY <2>6
  <2>11. r.W.t = T /\ r.W.f = f /\ r.W.c = c  BY <2>10
  <2>12. WorldType(r.W)  BY <2>7, <2>8, <2>9, <2>10, <2>11 DEF WorldType
  <2>13. \E o \in Objs :
            /\ Entries(r.W.t) = Replaced(Entries(W.t), new, o)
            /\ \A w1 \in Texts : At(Entries(W.t), base, w1) /\ ~(dies /\ cmd.merge)
                 => o = IF cmd.merge THEN w1 \o w2 ELSE w2
    BY <2>4, <2>5, <2>7, <2>11
  <2> QED  BY <1>5, <2>10, <2>11, <2>12, <2>13 DEF f, c, Merged
<1> QED  BY <1>4, <1>5

-----------------------------------------------------------------------------
(* What a request's step leaves alone.                                     *)

\* Thread t has taken free structures, and the server's object may be there now.
Grown(cf, t, f0, f) ==
    /\ f \in CfgSet
    /\ \A b \in Addrs : \/ f[b] = f0[b]
                        \/ b = cf.srv /\ f[b].owner = f0[b].owner
                        \/ f0[b] = Free /\ f[b].owner = t

\* Table, structures and cleanups that thread t may leave behind in interpreter i.
Kept(th, start, cf, t, i, f0, W) ==
    /\ TableOrNone(W.t) /\ W.c \in Seq(CleanupSet)
    /\ Grown(cf, t, f0, W.f)
    /\ Shape(th, i, W.c)
    /\ \A a \in Pending(W.c) : W.f[a].owner \in {t, "pconf"}
    /\ Lasting(Entries(W.t), W.c) = start
    /\ Pending(W.c) # {} => W.t # NoTable

\* What is pending is an address.
LEMMA PendingAddrs ==
    ASSUME NEW C \in Seq(CleanupSet)
    PROVE  Pending(C) \subseteq Addrs
<1>1. ASSUME NEW k \in 1 .. Len(C) PROVE C[k][2] \in Addrs \cup {Unselect}
    BY DEF CleanupSet
<1> QED  BY <1>1 DEF Pending

\* Without cleanups all entries last.
LEMMA LastingAll == \A E : Lasting(E, <<>>) = E /\ Pending(<<>>) = {}
<1>1. Pending(<<>>) = {}  BY DEF Pending
<1> QED  BY <1>1 DEF Lasting

\* An owned structure stays as it is when others are taken.
LEMMA GrownFacts ==
    ASSUME NEW cf, NEW t \in Threads, NEW f0 \in CfgSet, NEW f, Grown(cf, t, f0, f),
           NEW a \in Addrs, f0[a].owner # NULL
    PROVE  f[a].owner = f0[a].owner /\ (a # cf.srv => f[a] = f0[a])
BY DEF Grown, Free

\* The configuration, when structures are taken.
LEMMA ConfFrame ==
    ASSUME NEW cf, NEW sd, NEW t \in Threads, NEW f0 \in CfgSet, NEW f, NEW E,
           Grown(cf, t, f0, f), ConfOK(cf, sd, f0, E), cf.loc \in Addrs \cup {NULL}
    PROVE  ConfOK(cf, sd, f, E)
<1>1. \A a \in Addrs : f0[a].owner = "pconf" =>
        f[a].owner = "pconf" /\ (a # cf.srv => f[a] = f0[a])
    BY GrownFacts, Distinct
<1>2. cf.loc # NULL => f[cf.loc] = f0[cf.loc]
  <2>1. cf.loc # NULL => cf.loc \in Addrs /\ cf.loc # cf.srv /\ f0[cf.loc].owner = "pconf"
    BY DEF ConfOK
  <2> QED  BY <1>1, <2>1
<1> QED  BY <1>1, <1>2 DEF ConfOK

\* A request, when structures are taken by this thread or another.
LEMMA ReqFrame ==
    ASSUME NEW th, NEW cf, NEW start, NEW t \in Threads, NEW u \in Threads,
           NEW f0 \in CfgSet, NEW f, NEW E, NEW q \in ReqSet,
           Grown(cf, t, f0, f), f0[cf.srv].owner = "pconf",
           ReqOK(th, cf, start, u, q, f0, E)
    PROVE  ReqOK(th, cf, start, u, q, f, E)
<1>1. \A a \in Addrs : f0[a].owner \in {u, "pconf"} =>
        f[a].owner = f0[a].owner /\ (a # cf.srv => f[a] = f0[a])
    BY GrownFacts, Distinct
<1>2. \A a \in Pending(q.cleanups) : f[a].owner \in {u, "pconf"}
    BY <1>1, PendingAddrs DEF ReqOK, ReqSet
<1>3. ASSUME q.at = "walk" PROVE WalkOK(cf, u, q, f, E)
  <2>1. WalkOK(cf, u, q, f0, E)  BY <1>3 DEF ReqOK
  <2>2. f[q.now].owner \in {u, "pconf"}  BY <1>1, <2>1 DEF WalkOK
  <2>3. q.ht # NULL => f[q.ht] = f0[q.ht]
    <3>1. SUFFICES ASSUME q.ht # NULL PROVE f[q.ht] = f0[q.ht]  OBVIOUS
    <3>2. q.ht \in Addrs  BY <3>1 DEF ReqSet
    <3>3. f0[q.ht].owner = u  BY <2>1, <3>1 DEF WalkOK
    <3>4. q.ht # cf.srv  BY <3>3, Distinct
    <3> QED  BY <1>1, <3>2, <3>3, <3>4
  <2> QED  BY <2>1, <2>2, <2>3 DEF WalkOK
<1> QED  BY <1>2, <1>3 DEF ReqOK

\* The interpreter that a thread gets is the one that it had, or was idle.
GetsOK(t, i) ==
    /\ threaded => i \in Clones /\ \A u \in Threads \ {t} :
                     req[u].cleanups # <<>> => req[u].interp # i
    /\ ~threaded => i = "parent" /\ t = First

\* Whatever a step of a request does with its interpreter, if it registers what
\* it adds, the others are not concerned.
LEMMA UsingKeeps ==
    ASSUME MInv, stage = "serving", NEW t \in Threads, NEW i \in Interps, NEW W,
           NEW q \in ReqSet, Using(t, i, W, q), GetsOK(t, i),
           q.at \in {"walk", "ending"}, q.interp = IF threaded THEN i ELSE NULL,
           Kept(threaded, atStart, conf, t, i, cfg, W),
           q.at = "walk" => WalkOK(conf, t, q, W.f, Entries(W.t)), GotOK(q)
    PROVE  MInv'
<1> DEFINE p == [q EXCEPT !.cleanups = W.c]
<1>1. TypesOK /\ Serving  BY DEF MInv
<1>2. /\ idle' = idle \ {i} /\ table' = [table EXCEPT ![i] = W.t] /\ cfg' = W.f
      /\ req' = [req EXCEPT ![t] = p] /\ threaded' = threaded /\ stage' = stage
      /\ cmd' = cmd /\ conf' = conf /\ said' = said /\ atStart' = atStart
    BY DEF Using
<1>3. W.c \in Seq(CleanupSet) /\ W.f \in CfgSet /\ TableOrNone(W.t)  BY DEF Kept, Grown
<1>4. /\ p \in ReqSet /\ p.cleanups = W.c /\ p.at = q.at /\ p.interp = q.interp
      /\ p.todo = q.todo /\ p.now = q.now /\ p.ht = q.ht /\ p.want = q.want
      /\ p.told = q.told /\ p.died = q.died /\ p.got = q.got
    BY <1>3 DEF ReqSet
<1> HIDE DEF p
<1>5. /\ req'[t] = p /\ \A u \in Threads : u # t => req'[u] = req[u]
      /\ req' \in [Threads -> ReqSet]
    BY <1>1, <1>2, <1>4 DEF TypesOK
<1>6. /\ table'[i] = W.t /\ \A j \in Interps : j # i => table'[j] = table[j]
      /\ table' = [j \in Interps |-> table'[j]]
    BY <1>1, <1>2 DEF TypesOK
<1>7. TypesOK'
  <2>1. \A j \in Interps : table'[j] = NoTable \/ TableOK(table'[j])
    BY <1>1, <1>3, <1>6 DEF TypesOK, TableOrNone
  <2> QED  BY <1>1, <1>2, <1>3, <1>5, <1>6, <2>1 DEF TypesOK
<1>8. "parent" \in Interps /\ Clones \subseteq Interps  BY DEF Interps
<1>9. Grown(conf, t, cfg, W.f) /\ cfg \in CfgSet /\ conf.loc \in Addrs \cup {NULL}
    BY <1>1 DEF Kept, TypesOK
<1>10. ConfOK(conf, said, W.f, atStart)
    BY <1>1, <1>9, ConfFrame DEF Serving
<1>11. ~threaded => idle' = {} /\ \A u \in Threads \ {First} : req'[u] = NoReq
    BY <1>1, <1>2, <1>5 DEF Serving, GetsOK
<1>12. W.c = <<>> => Entries(W.t) = atStart
    BY LastingAll DEF Kept
<1>13. threaded => W.c # <<>>  BY DEF Kept, Shape
<1>14. threaded \/ req'[First].cleanups = <<>> => Entries(table'["parent"]) = atStart
  <2>1. CASE threaded
    BY <2>1, <1>1, <1>6, <1>8, Distinct DEF Serving, GetsOK
  <2>2. CASE ~threaded
    BY <2>2, <1>4, <1>5, <1>6, <1>12 DEF GetsOK
  <2> QED  BY <2>1, <2>2
<1>15. \A j \in idle' : Entries(table'[j]) = atStart
  <2>1. \A j \in idle' : j \in idle /\ j \in Interps /\ j # i
    BY <1>1, <1>2, <1>8 DEF TypesOK
  <2> QED  BY <2>1, <1>1, <1>6 DEF Serving
<1>16. ReqOK(threaded, conf, atStart, t, p, W.f, Seen(threaded, atStart, table', p))
  <2>1. Seen(threaded, atStart, table', p) = Entries(W.t)
    <3>1. Engine(threaded, p) = i  BY <1>4 DEF Engine, GetsOK
    <3> QED  BY <3>1, <1>4, <1>6, <1>12 DEF Seen
  <2>2. HoldOK(threaded, p)
    <3>1. Shape(threaded, i, W.c)  BY DEF Kept
    <3>2. i # NULL \/ ~threaded  BY Distinct DEF GetsOK
    <3> QED  BY <3>1, <3>2, <1>4, <1>13 DEF HoldOK, GetsOK
  <2>3. q.at = "walk" => WalkOK(conf, t, p, W.f, Entries(W.t))  BY <1>4 DEF WalkOK
  <2>4. GotOK(p)  BY <1>4 DEF GotOK
  <2> QED  BY <2>1, <2>2, <2>3, <2>4, <1>4 DEF ReqOK, Kept
<1>17. ASSUME NEW u \in Threads, u # t, req[u].cleanups # <<>>
       PROVE  table'[Engine(threaded, req[u])] = table[Engine(threaded, req[u])]
  <2>1. threaded
    <3>1. ~threaded => req[u].cleanups = <<>>
      BY <1>1, <1>17 DEF Serving, GetsOK, NoReq
    <3> QED  BY <3>1, <1>17
  <2>2. req[u].interp \in Clones \cup {NULL} /\ req[u].interp # NULL
    <3>1. HoldOK(threaded, req[u]) /\ req[u] \in ReqSet
      BY <1>1 DEF Serving, ReqOK, TypesOK
    <3> QED  BY <3>1, <2>1, <1>17 DEF HoldOK, ReqSet
  <2>3. req[u].interp # i  BY <2>1, <1>17 DEF GetsOK
  <2> QED  BY <2>1, <2>2, <2>3, <1>6, <1>8 DEF Engine
<1>18. ASSUME NEW u \in Threads, u # t
       PROVE  ReqOK(threaded, conf, atStart, u, req[u], W.f,
                    Seen(threaded, atStart, table', req[u]))
  <2>1. Seen(threaded, atStart, table', req[u]) = Seen(threaded, atStart, table, req[u])
    BY <1>17, <1>18 DEF Seen
  <2>2. ReqOK(threaded, conf, atStart, u, req[u], cfg, Seen(threaded, atStart, table, req[u]))
    BY <1>1 DEF Serving
  <2>3. cfg[conf.srv].owner = "pconf" /\ req[u] \in ReqSet
    BY <1>1 DEF Serving, ConfOK, TypesOK
  <2> QED  BY <2>1, <2>2, <2>3, <1>9, ReqFrame
<1>19. \A u \in Threads :
         ReqOK(threaded, conf, atStart, u, req'[u], W.f, Seen(threaded, atStart, table', req'[u]))
    BY <1>5, <1>16, <1>18
<1>20. \A u \in Threads : Pending(req'[u].cleanups) # {} =>
         table'[Engine(threaded, req'[u])] # NoTable
  <2>1. ASSUME NEW u \in Threads, u # t, Pending(req[u].cleanups) # {}
        PROVE  table'[Engine(threaded, req[u])] # NoTable
    <3>1. req[u].cleanups # <<>>  BY <2>1, LastingAll
    <3> QED  BY <3>1, <2>1, <1>17, <1>1 DEF Serving
  <2>2. Pending(p.cleanups) # {} => table'[Engine(threaded, p)] # NoTable
    <3>1. Engine(threaded, p) = i  BY <1>4 DEF Engine, GetsOK
    <3> QED  BY <3>1, <1>4, <1>6 DEF Kept
  <2> QED  BY <2>1, <2>2, <1>5
<1>21. \A u \in Threads : threaded /\ req'[u].cleanups # <<>> => req'[u].interp \notin idle'
    BY <1>1, <1>2, <1>4, <1>5 DEF Serving
<1>22. \A u, v \in Threads :
         /\ threaded /\ req'[u].cleanups # <<>> /\ req'[v].cleanups # <<>>
         /\ req'[u].interp = req'[v].interp
         => u = v
    BY <1>1, <1>4, <1>5 DEF Serving, GetsOK
<1>23. Serving'
    BY <1>2, <1>10, <1>11, <1>14, <1>15, <1>19, <1>20, <1>21, <1>22 DEF Serving
<1> QED  BY <1>2, <1>7, <1>23 DEF MInv

-----------------------------------------------------------------------------
(* The steps of a request.                                                 *)

\* Two requests that differ in their interpreter and cleanups at most.
SameWalk(p, q) ==
    /\ p.at = q.at /\ p.todo = q.todo /\ p.now = q.now /\ p.ht = q.ht
    /\ p.want = q.want /\ p.told = q.told /\ p.died = q.died /\ p.got = q.got

\* What modperl_interp_pool_select and _set give a request that merges sections.
LEMMA PoolSetFacts ==
    ASSUME MInv, stage = "serving", NEW t \in Threads, req[t].at = "walk",
           NEW i \in PoolSelect(t), NEW q, q = PoolSet(req[t], i)
    PROVE  /\ i \in Interps /\ GetsOK(t, i) /\ q \in ReqSet /\ SameWalk(q, req[t])
           /\ q.interp = IF threaded THEN i ELSE NULL
           /\ Shape(threaded, i, q.cleanups)
           /\ Pending(q.cleanups) = Pending(req[t].cleanups)
           /\ TableOrNone(table[i])
           /\ Pending(q.cleanups) # {} => table[i] # NoTable
           /\ Entries(table[i]) = Seen(threaded, atStart, table, req[t])
<1> DEFINE r == req[t]
<1>1. TypesOK /\ Serving  BY DEF MInv
<1>2. r \in ReqSet /\ HoldOK(threaded, r) /\ threaded \in BOOLEAN
    BY <1>1 DEF Serving, ReqOK, TypesOK
<1>3. r.cleanups \in Seq(CleanupSet) /\ r.interp \in Clones \cup {NULL}  BY <1>2 DEF ReqSet
<1>4. "parent" \in Interps /\ Clones \subseteq Interps  BY DEF Interps
<1> HIDE DEF r
<1>5. CASE ~threaded
  <2>1. i = "parent" /\ q = r  BY <1>5 DEF PoolSelect, PoolSet, r
  <2>2. t = First
    <3>1. r.at # NoReq.at  BY DEF NoReq, r
    <3> QED  BY <3>1, <1>1, <1>5 DEF Serving, r
  <2>3. r.interp = NULL /\ Shape(threaded, i, r.cleanups)
    BY <1>2, <1>5, <2>1 DEF HoldOK
  <2>4. Entries(table[i]) = Seen(threaded, atStart, table, r)
    BY <1>1, <1>5, <2>1, <2>2 DEF Serving, Seen, Engine, r
  <2>5. Pending(r.cleanups) # {} => table[i] # NoTable
    BY <1>1, <1>5, <2>1 DEF Serving, Engine, r
  <2>6. GetsOK(t, i)  BY <1>5, <2>1, <2>2 DEF GetsOK
  <2>7. TableOrNone(table[i])  BY <1>1, <1>4, <2>1 DEF TypesOK, TableOrNone
  <2>8. SameWalk(q, r)  BY <2>1 DEF SameWalk
  <2> QED  BY <1>2, <1>4, <1>5, <2>1, <2>3, <2>4, <2>5, <2>6, <2>7, <2>8 DEF r
<1>6. CASE threaded /\ r.interp # NULL
  <2>1. i = r.interp /\ q = r  BY <1>6 DEF PoolSelect, PoolSet, r
  <2>2. i \in Clones /\ r.cleanups # <<>> /\ Shape(threaded, i, r.cleanups)
    <3>1. r.at = "walk"  BY DEF r
    <3> QED  BY <3>1, <1>2, <1>3, <1>6, <2>1 DEF HoldOK
  <2>3. \A u \in Threads \ {t} : req[u].cleanups # <<>> => req[u].interp # i
    BY <1>1, <1>6, <2>1, <2>2 DEF Serving, r
  <2>4. Entries(table[i]) = Seen(threaded, atStart, table, r)
    BY <1>6, <2>1, <2>2 DEF Seen, Engine
  <2>5. Pending(r.cleanups) # {} => table[i] # NoTable
    BY <1>1, <1>6, <2>1 DEF Serving, Engine, r
  <2>6. GetsOK(t, i)  BY <1>6, <2>2, <2>3 DEF GetsOK
  <2>7. TableOrNone(table[i])  BY <1>1, <1>4, <2>2 DEF TypesOK, TableOrNone
  <2>8. SameWalk(q, r)  BY <2>1 DEF SameWalk
  <2> QED  BY <1>2, <1>4, <1>6, <2>1, <2>2, <2>4, <2>5, <2>6, <2>7, <2>8 DEF r
<1>7. CASE threaded /\ r.interp = NULL
  <2> DEFINE C == Append(r.cleanups, <<i, Unselect>>)
  <2>1. i \in idle  BY <1>7 DEF PoolSelect, r
  <2>2. i \in Clones /\ i \in Interps /\ Unselect \in Addrs \cup {Unselect}
    BY <1>1, <1>4, <2>1 DEF TypesOK
  <2>3. r.cleanups = <<>>  BY <1>2, <1>7 DEF HoldOK
  <2>4. /\ C \in Seq(CleanupSet) /\ Pending(C) = Pending(r.cleanups)
    <3>1. /\ C \in Seq(CleanupSet)
          /\ Pending(C) = Pending(r.cleanups) \cup ({Unselect} \ {Unselect})
      BY <1>3, <2>2, PendingAppend, Zenon
    <3> HIDE DEF C
    <3> QED  BY <3>1
  <2>5. q = [r EXCEPT !.interp = i, !.cleanups = C]  BY <1>7 DEF PoolSet, r
  <2>6. C # <<>> /\ Len(C) = 1 /\ C[1] = <<i, Unselect>>  BY <2>3
  <2> HIDE DEF C
  <2>7. q \in ReqSet /\ q.interp = i /\ q.cleanups = C  BY <1>2, <2>2, <2>4, <2>5 DEF ReqSet
  <2>8. SameWalk(q, r)  BY <1>2, <2>5 DEF SameWalk, ReqSet
  <2>9. Shape(threaded, i, C)  BY <1>7, <2>6 DEF Shape
  <2>10. \A u \in Threads \ {t} : req[u].cleanups # <<>> => req[u].interp # i
    BY <1>1, <1>7, <2>1 DEF Serving
  <2>11. Entries(table[i]) = Seen(threaded, atStart, table, r)
    BY <1>1, <2>1, <2>3 DEF Serving, Seen
  <2>12. Pending(C) = {}  BY <2>3, <2>4, LastingAll
  <2>13. GetsOK(t, i)  BY <1>7, <2>2, <2>10 DEF GetsOK
  <2>14. TableOrNone(table[i])  BY <1>1, <2>2 DEF TypesOK, TableOrNone
  <2> QED  BY <1>7, <2>2, <2>4, <2>7, <2>8, <2>9, <2>11, <2>12, <2>13, <2>14 DEF r
<1> QED  BY <1>2, <1>5, <1>6, <1>7

\* A free structure is not one that the request or the server uses, and no table
\* that the request sees has an object for it.
LEMMA FreshFacts ==
    ASSUME MInv, stage = "serving", NEW t \in Threads, req[t].at = "walk", NEW a \in Alloc
    PROVE  /\ a \in Addrs /\ cfg[a] = Free /\ a # conf.srv /\ a # conf.loc
           /\ a # req[t].now /\ a # req[t].ht
           /\ a \notin Pending(req[t].cleanups)
           /\ Nothing(Seen(threaded, atStart, table, req[t]), a)
           /\ Nothing(atStart, a)
<1> DEFINE r == req[t]
           E == Seen(threaded, atStart, table, r)
<1>1. /\ TypesOK /\ ConfOK(conf, said, cfg, atStart) /\ r \in ReqSet
      /\ ReqOK(threaded, conf, atStart, t, r, cfg, E)
    BY DEF MInv, Serving, TypesOK
<1>2. WalkOK(conf, t, r, cfg, E)  BY <1>1 DEF ReqOK
<1> HIDE DEF E, r
<1>3. a \in Addrs /\ cfg[a] = Free  BY DEF Alloc, Lowest
<1>4. cfg[a].owner = NULL /\ cfg[a].owner \notin {t, "pconf"}  BY <1>3, Distinct DEF Free
<1>5. a # conf.srv /\ a # conf.loc
    BY <1>1, <1>3, <1>4, Distinct DEF ConfOK
<1>6. a # r.now /\ a # r.ht
    BY <1>2, <1>3, <1>4, Distinct DEF WalkOK
<1>7. a \notin Pending(r.cleanups)  BY <1>1, <1>4 DEF ReqOK
<1>8. Nothing(atStart, a)  BY <1>1, <1>4 DEF ConfOK, Nothing
<1>9. Nothing(E, a)
  <2>1. \A e \in E : e[1] \in Pending(r.cleanups) \/ e \in atStart
    BY <1>1 DEF ReqOK, Lasting
  <2> QED  BY <2>1, <1>7, <1>8 DEF Nothing
<1> QED  BY <1>3, <1>5, <1>6, <1>7, <1>8, <1>9 DEF E, r

\* The world of a request before it changes anything is one that it may leave.
LEMMA WorldFacts ==
    ASSUME MInv, stage = "serving", NEW t \in Threads, req[t].at = "walk",
           NEW i \in PoolSelect(t), NEW q, q = PoolSet(req[t], i),
           NEW W, W = World(i, q)
    PROVE  /\ WorldType(W) /\ W.f = cfg /\ W.c = q.cleanups
           /\ Entries(W.t) = Seen(threaded, atStart, table, req[t])
           /\ Kept(threaded, atStart, conf, t, i, cfg, W)
           /\ WalkOK(conf, t, q, cfg, Entries(W.t))
           /\ ConfOK(conf, said, cfg, atStart)
           /\ \A e \in atStart : e \in Entries(W.t)
<1> DEFINE T == TableOf(table[i])
           E == Seen(threaded, atStart, table, req[t])
<1>1. /\ i \in Interps /\ GetsOK(t, i) /\ q \in ReqSet /\ SameWalk(q, req[t])
      /\ q.interp = IF threaded THEN i ELSE NULL
      /\ Shape(threaded, i, q.cleanups)
      /\ Pending(q.cleanups) = Pending(req[t].cleanups)
      /\ TableOrNone(table[i])
      /\ Pending(q.cleanups) # {} => table[i] # NoTable
      /\ Entries(table[i]) = E
    BY PoolSetFacts
<1>2. /\ cfg \in CfgSet /\ ConfOK(conf, said, cfg, atStart)
      /\ ReqOK(threaded, conf, atStart, t, req[t], cfg, E)
    BY DEF MInv, Serving, TypesOK
<1>3. TableOK(T) /\ Entries(T) = E  BY <1>1, TableOfFacts
<1>4. W = [t |-> T, f |-> cfg, c |-> q.cleanups]  BY DEF World
<1> HIDE DEF T, E
<1>5. W.t = T /\ W.f = cfg /\ W.c = q.cleanups  BY <1>4
<1>6. q.cleanups \in Seq(CleanupSet)  BY <1>1 DEF ReqSet
<1>7. WorldType(W)  BY <1>2, <1>3, <1>4, <1>5, <1>6 DEF WorldType
<1>8. T # NoTable  BY <1>3, NewTable
<1>9. Grown(conf, t, cfg, cfg)  BY <1>2 DEF Grown
<1>10. /\ Lasting(E, q.cleanups) = atStart
       /\ \A a \in Pending(q.cleanups) : cfg[a].owner \in {t, "pconf"}
    BY <1>1, <1>2 DEF ReqOK, Lasting
<1>11. Kept(threaded, atStart, conf, t, i, cfg, W)
    BY <1>1, <1>3, <1>5, <1>6, <1>8, <1>9, <1>10 DEF Kept, TableOrNone
<1>12. WalkOK(conf, t, q, cfg, E)
  <2>1. WalkOK(conf, t, req[t], cfg, E)  BY <1>2 DEF ReqOK
  <2> QED  BY <1>1, <2>1 DEF WalkOK, SameWalk
<1>13. \A e \in atStart : e \in E  BY <1>10 DEF Lasting
<1> QED  BY <1>2, <1>3, <1>5, <1>7, <1>11, <1>12, <1>13 DEF E

\* get_config gives the handler what the sections say.
LEMMA HandlerKeeps ==
    ASSUME MInv, stage = "serving", NEW t \in Threads, Handler(t)
    PROVE  MInv'
<1>1. req[t].at = "walk"  BY DEF Handler
<1>2. PICK i \in PoolSelect(t) :
         Using(t, i, [t |-> table[i], f |-> cfg, c |-> PoolSet(req[t], i).cleanups],
               [PoolSet(req[t], i) EXCEPT !.at = "ending",
                                          !.got = GetObj(table[i], PoolSet(req[t], i).now)])
    BY DEF Handler
<1> DEFINE q == PoolSet(req[t], i)
           g == GetObj(table[i], q.now)
           q2 == [q EXCEPT !.at = "ending", !.got = g]
           W == [t |-> table[i], f |-> cfg, c |-> q.cleanups]
           V == World(i, q)
<1>3. /\ i \in Interps /\ GetsOK(t, i) /\ q \in ReqSet /\ SameWalk(q, req[t])
      /\ q.interp = IF threaded THEN i ELSE NULL
      /\ Shape(threaded, i, q.cleanups)
      /\ TableOrNone(table[i])
      /\ Pending(q.cleanups) # {} => table[i] # NoTable
      /\ Entries(table[i]) = Seen(threaded, atStart, table, req[t])
    BY <1>1, PoolSetFacts
<1>4. /\ V.f = cfg /\ V.c = q.cleanups
      /\ Entries(V.t) = Seen(threaded, atStart, table, req[t])
      /\ Kept(threaded, atStart, conf, t, i, cfg, V)
      /\ WalkOK(conf, t, q, cfg, Entries(V.t))
  <2> HIDE DEF V
  <2>1. V = World(i, q)  BY DEF V
  <2> QED  BY <1>1, <2>1, WorldFacts
<1>5. Using(t, i, W, q2)  BY <1>2
<1>6. W.t = table[i] /\ W.f = cfg /\ W.c = q.cleanups  OBVIOUS
<1> HIDE DEF W, V, q
<1>7. Kept(threaded, atStart, conf, t, i, cfg, W)
    BY <1>3, <1>4, <1>6 DEF Kept
<1>8. q.now \in Addrs /\ ~q.died => Says(Entries(table[i]), q.now, q.want)
    BY <1>3, <1>4 DEF WalkOK
<1>9. q.now \in Addrs  BY <1>4 DEF WalkOK
<1>10. g \in Objs /\ (~q.died => g = IF q.want = <<>> THEN UNDEF ELSE q.want)
  <2>1. CASE table[i] = NoTable
    <3>1. g = UNDEF  BY <2>1 DEF GetObj
    <3>2. \A w : ~At(Entries(table[i]), q.now, w)  BY <2>1, NewTable DEF At
    <3> QED  BY <1>8, <1>9, <3>1, <3>2, Distinct DEF Says
  <2>2. CASE TableOK(table[i]) /\ table[i] # NoTable
    <3> DEFINE T == table[i]
    <3>1. /\ TableFetch(T, q.now) = NULL <=> Nothing(Entries(T), q.now)
          /\ \A o : At(Entries(T), q.now, o) => TableFetch(T, q.now) = o
          /\ ~Nothing(Entries(T), q.now) => TableFetch(T, q.now) \in Objs
      BY <2>2, <1>9, FetchFacts
    <3>2. g = IF TableFetch(T, q.now) = NULL THEN UNDEF ELSE TableFetch(T, q.now)
      BY <2>2 DEF GetObj
    <3>3. q.want \in Texts  BY <1>3 DEF ReqSet
    <3> HIDE DEF T, g
    <3>4. g \in Objs  BY <3>1, <3>2, Distinct
    <3>5. ~q.died => Says(Entries(T), q.now, q.want)  BY <1>8, <1>9 DEF T
    <3>6. ASSUME ~q.died, q.want = <<>> PROVE g = UNDEF
      BY <3>1, <3>2, <3>5, <3>6 DEF Says
    <3>7. ASSUME ~q.died, q.want # <<>> PROVE g = q.want
      <4>1. TableFetch(T, q.now) = q.want  BY <3>1, <3>5, <3>7 DEF Says
      <4> QED  BY <4>1, <3>2, <3>3, Distinct
    <3> QED  BY <3>4, <3>6, <3>7
  <2> QED  BY <1>3, <2>1, <2>2 DEF TableOrNone
<1> HIDE DEF g
<1>11. /\ q2 \in ReqSet /\ q2.at = "ending" /\ q2.interp = q.interp /\ q2.got = g
       /\ q2.want = q.want /\ q2.died = q.died
    BY <1>3, <1>10 DEF ReqSet
<1> HIDE DEF q2
<1>12. GotOK(q2)  BY <1>10, <1>11 DEF GotOK
<1> QED  BY <1>3, <1>5, <1>7, <1>11, <1>12, UsingKeeps

\* A failing DIR_CREATE leaves no object behind.
LEMMA HtErrorKeeps ==
    ASSUME MInv, stage = "serving", NEW t \in Threads, HtError(t)
    PROVE  MInv'
<1>1. req[t].at = "walk"  BY DEF HtError
<1>2. PICK i \in PoolSelect(t), a \in Alloc :
         Using(t, i, [World(i, PoolSet(req[t], i)) EXCEPT
                        !.f[a] = [owner |-> t, server |-> TRUE]],
               [PoolSet(req[t], i) EXCEPT !.at = "ending"])
    BY DEF HtError
<1> DEFINE q == PoolSet(req[t], i)
           q2 == [q EXCEPT !.at = "ending"]
           W == World(i, q)
           V == [W EXCEPT !.f[a] = [owner |-> t, server |-> TRUE]]
<1>3. /\ i \in Interps /\ GetsOK(t, i) /\ q \in ReqSet /\ SameWalk(q, req[t])
      /\ q.interp = IF threaded THEN i ELSE NULL
      /\ Pending(q.cleanups) = Pending(req[t].cleanups)
    BY <1>1, PoolSetFacts
<1>4. /\ WorldType(W) /\ W.f = cfg /\ W.c = q.cleanups
      /\ Kept(threaded, atStart, conf, t, i, cfg, W)
      /\ WalkOK(conf, t, q, cfg, Entries(W.t))
  <2> HIDE DEF W
  <2>1. W = World(i, q)  BY DEF W
  <2> QED  BY <1>1, <2>1, WorldFacts
<1>5. a \in Addrs /\ cfg[a] = Free /\ a \notin Pending(req[t].cleanups)
    BY <1>1, FreshFacts
<1>6. Using(t, i, V, q2)  BY <1>2
<1> HIDE DEF W, q
<1>7. /\ V.t = W.t /\ V.c = W.c /\ V.f = [cfg EXCEPT ![a] = [owner |-> t, server |-> TRUE]]
    BY <1>4 DEF WorldType
<1> HIDE DEF V
<1>8. cfg \in CfgSet  BY <1>4 DEF WorldType
<1>9. V.f \in CfgSet /\ V.f[a].owner = t /\ \A b \in Addrs : b # a => V.f[b] = cfg[b]
    BY <1>5, <1>7, <1>8 DEF CfgSet, Owners
<1>10. Grown(conf, t, cfg, V.f)  BY <1>5, <1>9 DEF Grown
<1>11. \A b \in Pending(W.c) : V.f[b].owner \in {t, "pconf"}
  <2>1. Pending(W.c) \subseteq Addrs  BY <1>4, PendingAddrs DEF WorldType
  <2> QED  BY <2>1, <1>4, <1>9 DEF Kept
<1>12. Kept(threaded, atStart, conf, t, i, cfg, V)
    BY <1>4, <1>7, <1>10, <1>11 DEF Kept
<1>13. q2 \in ReqSet /\ q2.at = "ending" /\ q2.interp = q.interp /\ q2.got = q.got
    BY <1>3 DEF ReqSet
<1> HIDE DEF q2
<1>14. GotOK(q2)  BY <1>4, <1>13 DEF GotOK, WalkOK
<1> QED  BY <1>3, <1>6, <1>12, <1>13, <1>14, UsingKeeps

\* One more cleanup for the same interpreter.
LEMMA ShapeAppend ==
    ASSUME NEW th \in BOOLEAN, NEW i \in Interps, NEW C \in Seq(CleanupSet),
           Shape(th, i, C), ~th => i = "parent", NEW a \in Addrs
    PROVE  Shape(th, i, Append(C, <<i, a>>))
<1> DEFINE x == <<i, a>>
           D == Append(C, x)
<1>1. x[1] = i /\ x[2] = a /\ x \in CleanupSet  BY DEF CleanupSet
<1> HIDE DEF x
<1>2. /\ Len(D) = Len(C) + 1 /\ Len(C) \in Nat /\ D[Len(C) + 1] = x
      /\ \A k \in 1 .. Len(C) : D[k] = C[k]
    BY <1>1
<1> HIDE DEF D
<1>3. \A k \in 1 .. Len(D) : k \in 1 .. Len(C) \/ D[k] = x  BY <1>2
<1>4. CASE th
  <2>1. C # <<>> /\ C[1] = <<i, Unselect>>
        /\ \A k \in 2 .. Len(C) : C[k][1] = i /\ C[k][2] \in Addrs
    BY <1>4 DEF Shape
  <2>2. Len(C) > 0 /\ 1 \in 1 .. Len(C)  BY <2>1
  <2>3. D[1] = <<i, Unselect>> /\ D # <<>>  BY <1>2, <2>1, <2>2
  <2>4. ASSUME NEW k \in 2 .. Len(D) PROVE D[k][1] = i /\ D[k][2] \in Addrs
    <3>1. CASE k \in 2 .. Len(C)  BY <3>1, <2>1, <1>2
    <3>2. CASE k = Len(C) + 1  BY <3>2, <1>1, <1>2
    <3> QED  BY <3>1, <3>2, <1>2
  <2> QED  BY <1>4, <2>3, <2>4 DEF Shape, D, x
<1>5. CASE ~th
  <2>1. i = "parent" /\ \A k \in 1 .. Len(C) : C[k][1] = "parent" /\ C[k][2] \in Addrs
    BY <1>5 DEF Shape
  <2>2. \A k \in 1 .. Len(D) : D[k][1] = "parent" /\ D[k][2] \in Addrs
    BY <2>1, <1>1, <1>2, <1>3
  <2> QED  BY <1>5, <2>2 DEF Shape, D, x
<1> QED  BY <1>4, <1>5

\* A list of cleanups for interpreter i.
Fits(th, i, C) ==
    /\ th \in BOOLEAN /\ i \in Interps /\ C \in Seq(CleanupSet)
    /\ Shape(th, i, C) /\ (~th => i = "parent")

\* The list with one more.
Reg(C, i, a) == Append(C, <<i, a>>)

\* What registering a cleanup does to the list.
Added(th, i, C, a, D) == Fits(th, i, D) /\ Pending(D) = Pending(C) \cup {a}

\* It does that.
LEMMA MoreCleanups ==
    ASSUME NEW th, NEW i, NEW C, Fits(th, i, C), NEW a \in Addrs
    PROVE  Added(th, i, C, a, Reg(C, i, a))
<1> DEFINE D == Reg(C, i, a)
<1>0. /\ th \in BOOLEAN /\ i \in Interps /\ C \in Seq(CleanupSet)
      /\ Shape(th, i, C) /\ (~th => i = "parent")
    BY DEF Fits
<1>1. a # Unselect /\ a \in Addrs \cup {Unselect}  BY Distinct
<1>2. D \in Seq(CleanupSet) /\ Pending(D) = Pending(C) \cup ({a} \ {Unselect})
    BY <1>0, <1>1, PendingAppend, Zenon DEF Reg
<1>3. Shape(th, i, D)  BY <1>0, ShapeAppend DEF Reg
<1> HIDE DEF D
<1>4. {a} \ {Unselect} = {a}  BY <1>1
<1>5. Fits(th, i, D)  BY <1>0, <1>2, <1>3 DEF Fits
<1> QED  BY <1>2, <1>4, <1>5 DEF Added, D

\* The sections that are still to be merged.
LEMMA TodoFacts ==
    ASSUME NEW s \in Todos, s # <<>>
    PROVE  /\ Tail(s) \in Todos
           /\ "loc" \in ToSet(Tail(s)) => "loc" \in ToSet(s)
           /\ Head(s) = "loc" => "loc" \in ToSet(s)
<1>1. CASE s = <<"loc">>  BY <1>1 DEF Todos, ToSet
<1>2. CASE s = <<"ht">>  BY <1>2 DEF Todos, ToSet
<1>3. CASE s = <<"ht", "loc">>  BY <1>3 DEF Todos, ToSet
<1> QED  BY <1>1, <1>2, <1>3 DEF Todos

\* What a directive says.
LEMMA GivenFacts ==
    ASSUME TypesOK, NEW v \in Args
    PROVE  Given(v) \in Texts /\ Given(v) # <<>>
<1> DEFINE g == [n \in 1 .. cmd.args |-> v]
<1>1. g \in Seq(Args)
  <2>1. cmd.args \in Nat  BY DEF TypesOK
  <2> QED  BY <2>1
<1> HIDE DEF g
<1>2. <<g>> \in Seq(Seq(Args)) /\ <<g>> # <<>>  BY <1>1
<1> QED  BY <1>2 DEF Given, g, Texts

\* A directive in an .htaccess file: its object is seen by this request alone,
\* and will be removed.
LEMMA HtDirectiveKeeps ==
    ASSUME MInv, stage = "serving", NEW t \in Threads, NEW v \in Args, HtDirective(t, v)
    PROVE  MInv'
<1>1. req[t].at = "walk" /\ req[t].told = <<>>  BY Zenon DEF HtDirective
<1>2. PICK i \in PoolSelect(t), a \in Alloc :
         Using(t, i, Take123([World(i, PoolSet(req[t], i)) EXCEPT !.f[a].owner = t],
                             i, a, Given(v)),
               [PoolSet(req[t], i) EXCEPT !.ht = a, !.told = Given(v)])
    BY DEF HtDirective
<1> DEFINE q == PoolSet(req[t], i)
           g == Given(v)
           q2 == [q EXCEPT !.ht = a, !.told = g]
           W == World(i, q)
           W1 == [W EXCEPT !.f[a].owner = t]
           V == Take123(W1, i, a, g)
           s == conf.srv
<1>3. /\ i \in Interps /\ GetsOK(t, i) /\ q \in ReqSet /\ SameWalk(q, req[t])
      /\ q.interp = IF threaded THEN i ELSE NULL
      /\ Pending(q.cleanups) = Pending(req[t].cleanups)
    BY <1>1, PoolSetFacts
<1>4. /\ WorldType(W) /\ W.f = cfg /\ W.c = q.cleanups
      /\ Entries(W.t) = Seen(threaded, atStart, table, req[t])
      /\ Kept(threaded, atStart, conf, t, i, cfg, W)
      /\ WalkOK(conf, t, q, cfg, Entries(W.t))
      /\ ConfOK(conf, said, cfg, atStart)
      /\ \A e \in atStart : e \in Entries(W.t)
  <2> HIDE DEF W
  <2>1. W = World(i, q)  BY DEF W
  <2> QED  BY <1>1, <2>1, WorldFacts
<1>5. /\ a \in Addrs /\ cfg[a] = Free /\ a \notin Pending(req[t].cleanups) /\ a # s
      /\ a # req[t].now /\ Nothing(Entries(W.t), a) /\ Nothing(atStart, a)
    BY <1>1, <1>4, FreshFacts
<1>6. Using(t, i, V, q2)  BY <1>2
<1>7. g \in Texts /\ g # <<>>  BY GivenFacts DEF MInv
<1>8. s \in Addrs /\ threaded \in BOOLEAN /\ cfg[s].owner = "pconf" /\ cfg \in CfgSet
    BY <1>4 DEF ConfOK, MInv, TypesOK
<1> HIDE DEF W, q, g
<1>9. /\ WorldType(W1) /\ W1.t = W.t /\ W1.c = W.c /\ W1.f = [cfg EXCEPT ![a].owner = t]
  <2> DEFINE f == [cfg EXCEPT ![a].owner = t]
  <2>1. W1 = [t |-> W.t, f |-> f, c |-> W.c]  BY <1>4 DEF WorldType
  <2>2. f \in CfgSet  BY <1>5, <1>8 DEF CfgSet, Owners
  <2> HIDE DEF f, W1
  <2>3. W1.t = W.t /\ W1.f = f /\ W1.c = W.c  BY <2>1
  <2> QED  BY <1>4, <2>1, <2>2, <2>3 DEF WorldType, f
<1> HIDE DEF W1
<1>10. /\ W1.f[a].owner = t /\ \A b \in Addrs : b # a => W1.f[b] = cfg[b]
    BY <1>5, <1>8, <1>9 DEF CfgSet
<1>11. V = Take123(W1, i, a, g)  OBVIOUS
<1> HIDE DEF V
<1> DEFINE E == Entries(W.t)
           F == Entries(V.t)
<1>12. /\ WorldType(V)
       /\ At(F, a, <<>> \o g)
       /\ \A e : e[1] \notin {a, s} => (e \in F <=> e \in E)
       /\ ~Nothing(E, s) => \A e : e[1] = s => (e \in F <=> e \in E)
       /\ \A b \in Addrs \ {a, s} : V.f[b] = W1.f[b]
       /\ V.f[s].owner = W1.f[s].owner
       /\ V.f[a].owner = W1.f[a].owner
       /\ V.f[a].server = TRUE
       /\ \E X : /\ X = Register(W.c, i, a)
                 /\ V.c = IF Nothing(E, s) THEN Register(X, i, s) ELSE X
  <2>1. <<>> \in Texts  BY Distinct
  <2>2. Nothing(Entries(W1.t), a)  BY <1>5, <1>9
  <2>3. TookArgs(s, W1, V, i, a, <<>>, g)
    BY <1>3, <1>5, <1>7, <1>8, <1>9, <1>11, <2>1, <2>2, Take123Facts
  <2> QED  BY ONLY <2>2, <2>3, <1>9, Zenon DEF TookArgs
<1>13. At(F, a, g)
  <2>1. <<>> \o g = g  BY <1>7 DEF Texts
  <2> QED  BY <1>12, <2>1
<1> DEFINE X == Reg(W.c, i, a)
           Y == Reg(X, i, s)
<1>14. V.c = IF Nothing(E, s) THEN Y ELSE X
    BY <1>12 DEF Register, Reg
<1> HIDE DEF E, F, s, Y
<1>15. Fits(threaded, i, W.c)
    BY <1>3, <1>4, <1>8 DEF WorldType, Kept, GetsOK, Fits
<1>16. Added(threaded, i, W.c, a, X)
  <2>1. a \in Addrs  BY <1>5
  <2> QED  BY ONLY <1>15, <2>1, MoreCleanups
<1> HIDE DEF X
<1>17. /\ Fits(threaded, i, V.c)
       /\ Pending(V.c) = Pending(W.c) \cup {a} \cup (IF Nothing(E, s) THEN {s} ELSE {})
  <2>1. Fits(threaded, i, X) /\ Pending(X) = Pending(W.c) \cup {a}  BY <1>16 DEF Added
  <2>2. s \in Addrs  BY <1>8
  <2>3. Added(threaded, i, X, s, Y)
    BY ONLY <2>1, <2>2, MoreCleanups DEF Y
  <2>4. Fits(threaded, i, Y) /\ Pending(Y) = Pending(X) \cup {s}  BY <2>3 DEF Added
  <2> QED  BY <1>14, <2>1, <2>4
<1>18. Lasting(F, V.c) = atStart
  <2>1. Lasting(E, W.c) = atStart  BY <1>4 DEF Kept, E
  <2>2. ASSUME NEW e \in Lasting(F, V.c) PROVE e \in atStart
    <3>1. e \in F /\ e[1] \notin Pending(V.c)  BY DEF Lasting
    <3>2. e[1] \notin Pending(W.c) /\ e[1] # a /\ (Nothing(E, s) => e[1] # s)
      BY <3>1, <1>17
    <3>3. e \in E  BY <3>1, <3>2, <1>12, Zenon
    <3> QED  BY <3>2, <3>3, <2>1 DEF Lasting
  <2>3. ASSUME NEW e \in atStart PROVE e \in Lasting(F, V.c)
    <3>1. e \in E /\ e[1] \notin Pending(W.c)  BY <2>1, <2>3 DEF Lasting
    <3>2. e[1] # a  BY <1>5, <2>3 DEF Nothing
    <3>3. e[1] = s => ~Nothing(E, s)  BY <3>1 DEF Nothing
    <3>4. e \in F  BY <3>1, <3>2, <3>3, <1>12, Zenon
    <3>5. e[1] \notin Pending(V.c)  BY <3>1, <3>2, <3>3, <1>17
    <3> QED  BY <3>4, <3>5 DEF Lasting
  <2> QED  BY <2>2, <2>3
<1>19. V.f \in CfgSet /\ V.f[a].owner = t /\ V.f[s].owner = "pconf"
       /\ \A b \in Addrs \ {a, s} : V.f[b] = cfg[b]
    BY <1>5, <1>8, <1>10, <1>12 DEF WorldType
<1>20. Grown(conf, t, cfg, V.f)
  <2>1. \A b \in Addrs : b = a \/ b = s \/ b \in Addrs \ {a, s}  OBVIOUS
  <2> QED  BY <1>5, <1>8, <1>19, <2>1 DEF Grown, s
<1>21. \A b \in Pending(V.c) : V.f[b].owner \in {t, "pconf"}
  <2>1. Pending(W.c) \subseteq Addrs  BY <1>15, PendingAddrs DEF Fits
  <2>2. \A b \in Pending(W.c) : cfg[b].owner \in {t, "pconf"}  BY <1>4 DEF Kept
  <2>3. \A b \in Pending(V.c) : b = a \/ b = s \/ b \in Pending(W.c)  BY <1>17
  <2> QED  BY <1>19, <2>1, <2>2, <2>3
<1>22. TableOK(V.t) /\ V.t # NoTable  BY <1>12, NewTable DEF WorldType
<1>23. Kept(threaded, atStart, conf, t, i, cfg, V)
    BY <1>17, <1>18, <1>20, <1>21, <1>22 DEF Kept, TableOrNone, Fits, F
<1>24. /\ q2 \in ReqSet /\ q2.at = q.at /\ q2.interp = q.interp /\ q2.todo = q.todo
       /\ q2.now = q.now /\ q2.ht = a /\ q2.told = g /\ q2.want = q.want
       /\ q2.died = q.died /\ q2.got = q.got
    BY <1>3, <1>5, <1>7 DEF ReqSet
<1> HIDE DEF q2
<1>25. WalkOK(conf, t, q2, V.f, F)
  <2>1. q.now = req[t].now  BY <1>3 DEF SameWalk
  <2>2. /\ q.now \in Addrs /\ cfg[q.now].owner \in {t, "pconf"} /\ q.now # s /\ q.now # a
    BY <1>4, <1>5, <2>1 DEF WalkOK, s
  <2>3. V.f[q.now].owner \in {t, "pconf"}  BY <2>2, <1>19
  <2>4. V.f[a] = [owner |-> t, server |-> TRUE]
    BY <1>5, <1>12, <1>19 DEF CfgSet
  <2>5. Says(E, q.now, q.want) => Says(F, q.now, q.want)
    <3>1. Nothing(E, q.now) => Nothing(F, q.now)  BY <2>2, <1>12 DEF Nothing
    <3>2. <<q.now, q.want>>[1] = q.now  OBVIOUS
    <3>3. At(E, q.now, q.want) => At(F, q.now, q.want)  BY <2>2, <3>2, <1>12 DEF At
    <3> QED  BY <3>1, <3>3 DEF Says
  <2> HIDE DEF E, F
  <2>6. a # NULL  BY <1>5, Distinct
  <2>7. WalkOK(conf, t, q, cfg, E)  BY <1>4 DEF E
  <2> QED  BY <1>7, <1>13, <1>24, <2>2, <2>3, <2>4, <2>5, <2>6, <2>7 DEF WalkOK
<1>26. GotOK(q2)  BY <1>4, <1>24 DEF GotOK, WalkOK
<1>27. q.at = "walk"  BY <1>1, <1>3 DEF SameWalk
<1> QED  BY <1>3, <1>6, <1>23, <1>24, <1>25, <1>26, <1>27, UsingKeeps DEF F

\* A step that only changes how far the request has come.
LEMMA OwnStep ==
    ASSUME MInv, stage = "serving", NEW t \in Threads, threaded \/ t = First,
           NEW q \in ReqSet, req' = [req EXCEPT ![t] = q],
           q.cleanups = req[t].cleanups, q.interp = req[t].interp,
           UNCHANGED <<threaded, stage, cmd, cfg, conf, said, table, atStart, idle>>,
           ReqOK(threaded, conf, atStart, t, q, cfg, Seen(threaded, atStart, table, q))
    PROVE  MInv'
<1>1. TypesOK /\ Serving  BY DEF MInv
<1>2. /\ idle' = idle /\ table' = table /\ cfg' = cfg /\ threaded' = threaded
      /\ stage' = stage /\ cmd' = cmd /\ conf' = conf /\ said' = said
      /\ atStart' = atStart
    OBVIOUS
<1>3. /\ req'[t] = q /\ \A u \in Threads : u # t => req'[u] = req[u]
      /\ req' \in [Threads -> ReqSet]
    BY <1>1 DEF TypesOK
<1>4. \A u \in Threads : req'[u].cleanups = req[u].cleanups /\ req'[u].interp = req[u].interp
    BY <1>3
<1>5. \A u \in Threads :
        ReqOK(threaded, conf, atStart, u, req'[u], cfg, Seen(threaded, atStart, table, req'[u]))
    BY <1>1, <1>3 DEF Serving
<1>6. ~threaded => idle = {} /\ \A u \in Threads \ {First} : req'[u] = NoReq
    BY <1>1, <1>3 DEF Serving
<1>7. TypesOK'  BY <1>1, <1>2, <1>3 DEF TypesOK
<1>8. threaded \/ req'[First].cleanups = <<>> => Entries(table["parent"]) = atStart
  <2>1. First \in Threads  BY Distinct
  <2> QED  BY <1>1, <1>4, <2>1 DEF Serving
<1>9. \A u \in Threads : Pending(req'[u].cleanups) # {} =>
        table[Engine(threaded, req'[u])] # NoTable
  <2>1. \A u \in Threads : Engine(threaded, req'[u]) = Engine(threaded, req[u])
    BY <1>4 DEF Engine
  <2> QED  BY <1>1, <1>4, <2>1 DEF Serving
<1>10. \A u \in Threads : threaded /\ req'[u].cleanups # <<>> => req'[u].interp \notin idle
    BY <1>1, <1>4 DEF Serving
<1>11. \A u, v \in Threads :
         /\ threaded /\ req'[u].cleanups # <<>> /\ req'[v].cleanups # <<>>
         /\ req'[u].interp = req'[v].interp
         => u = v
    BY <1>1, <1>4 DEF Serving
<1>12. Serving'  BY <1>1, <1>2, <1>5, <1>6, <1>8, <1>9, <1>10, <1>11 DEF Serving
<1> QED  BY <1>2, <1>7, <1>12 DEF MInv

\* No request, and what is known of it.
LEMMA NoReqFacts == NoReq \in ReqSet /\ NoReq.cleanups = <<>> /\ NoReq.at = "none"
BY Distinct DEF NoReq, ReqSet, Todos

\* A request starts with what was said for all directories.
LEMMA BeginKeeps ==
    ASSUME MInv, NEW t \in Threads, Begin(t)
    PROVE  MInv'
<1>1. stage = "serving" /\ req[t] = NoReq /\ (threaded \/ t = First)  BY DEF Begin
<1>2. PICK todo \in Todos :
        /\ "loc" \in ToSet(todo) => conf.loc # NULL
        /\ req' = [req EXCEPT ![t] = [NoReq EXCEPT !.at = "walk", !.todo = todo,
                                                   !.now = conf.dir, !.want = said.dir]]
    BY DEF Begin, Todos
<1> DEFINE q == [NoReq EXCEPT !.at = "walk", !.todo = todo, !.now = conf.dir,
                              !.want = said.dir]
<1>3. TypesOK /\ ConfOK(conf, said, cfg, atStart)  BY <1>1 DEF MInv, Serving
<1>4. /\ conf.dir \in Addrs /\ conf.dir # conf.srv /\ cfg[conf.dir].owner = "pconf"
      /\ Says(atStart, conf.dir, said.dir) /\ said.dir \in Texts
    BY <1>3 DEF ConfOK, TypesOK
<1>5. /\ q.at = "walk" /\ q.todo = todo /\ q.now = conf.dir /\ q.want = said.dir
      /\ q.interp = NULL /\ q.ht = NULL /\ q.told = <<>> /\ q.died = FALSE
      /\ q.cleanups = <<>> /\ q.got = NULL
    BY DEF NoReq
<1>7. q \in ReqSet
  <2>1. NoReq \in ReqSet  BY NoReqFacts
  <2> QED  BY <1>4, <2>1 DEF ReqSet
<1> HIDE DEF q
<1>8. Seen(threaded, atStart, table, q) = atStart  BY <1>5 DEF Seen
<1>9. WalkOK(conf, t, q, cfg, atStart)  BY <1>2, <1>4, <1>5 DEF WalkOK
<1>10. HoldOK(threaded, q)
  <2>1. ~threaded => Shape(threaded, "parent", <<>>)  BY DEF Shape
  <2> QED  BY <1>5, <2>1 DEF HoldOK
<1>11. ReqOK(threaded, conf, atStart, t, q, cfg, atStart)
    BY <1>5, <1>9, <1>10, LastingAll DEF ReqOK, GotOK
<1>12. q.cleanups = req[t].cleanups /\ q.interp = req[t].interp  BY <1>1, <1>5 DEF NoReq
<1>13. req' = [req EXCEPT ![t] = q]  BY <1>2 DEF q
<1>14. UNCHANGED <<threaded, stage, cmd, cfg, conf, said, table, atStart, idle>>
    BY DEF Begin
<1> QED  BY <1>1, <1>7, <1>8, <1>11, <1>12, <1>13, <1>14, OwnStep

\* What the sections say once another has been merged, which says something.
LEMMA CombinedFacts ==
    ASSUME TypesOK, NEW w \in Texts, NEW w2 \in Texts
    PROVE  /\ Combined(w, w2) \in Texts
           /\ w2 = <<>> => Combined(w, w2) = w
           /\ w2 # <<>> => /\ Combined(w, w2) # <<>> /\ Combined(<<>>, w2) = w2
                           /\ Combined(w, w2) = IF cmd.merge THEN w \o w2 ELSE w2
<1>1. w \o w2 \in Texts /\ <<>> \o w2 = w2 /\ (w2 # <<>> => w \o w2 # <<>>)
    BY DEF Texts
<1> QED  BY <1>1 DEF Combined

\* What is left behind after a merge, and how far the request has come.
Taken(r, new, t) ==
    [r.W EXCEPT !.f = IF r.now = new THEN [r.W.f EXCEPT ![new].owner = t] ELSE r.W.f]
Advance(q, now, w, d) ==
    [q EXCEPT !.now = now, !.todo = Tail(@), !.want = w, !.died = d]

\* A section with an object is merged: the new object, if one is made, will be
\* removed, and it says what the sections said.
LEMMA MergeUsing ==
    ASSUME MInv, stage = "serving", NEW t \in Threads, req[t].at = "walk",
           req[t].todo # <<>>, NEW i \in PoolSelect(t), NEW new \in Alloc,
           NEW dies \in BOOLEAN, NEW q, q = PoolSet(req[t], i),
           NEW W, W = World(i, q), NEW add \in Addrs, add # conf.srv,
           cfg[add].owner \in {t, "pconf"}, NEW w2 \in Texts, w2 # <<>>,
           At(Entries(W.t), add, w2), NEW r, r = Merge(W, i, q.now, add, new, dies),
           NEW V, V = Taken(r, new, t),
           NEW d, d = (q.died \/ (dies /\ cmd.merge)),
           NEW w, w = Combined(q.want, w2),
           NEW q2, q2 = Advance(q, r.now, w, d),
           Using(t, i, V, q2)
    PROVE  MInv'
<1> DEFINE E == Entries(W.t)
           F == Entries(V.t)
<1>1. /\ i \in Interps /\ GetsOK(t, i) /\ q \in ReqSet /\ SameWalk(q, req[t])
      /\ q.interp = IF threaded THEN i ELSE NULL
      /\ Pending(q.cleanups) = Pending(req[t].cleanups)
    BY PoolSetFacts
<1>2. /\ WorldType(W) /\ W.f = cfg /\ W.c = q.cleanups
      /\ E = Seen(threaded, atStart, table, req[t])
      /\ Kept(threaded, atStart, conf, t, i, cfg, W)
      /\ WalkOK(conf, t, q, cfg, E)
  <2> QED  BY WorldFacts
<1>3. /\ new \in Addrs /\ cfg[new] = Free /\ new \notin Pending(W.c) /\ new # conf.srv
      /\ new # q.now /\ new # q.ht /\ Nothing(E, new) /\ Nothing(atStart, new)
    BY <1>1, <1>2, FreshFacts DEF SameWalk
<1>4. TypesOK /\ cmd.merge \in BOOLEAN /\ cfg \in CfgSet /\ threaded \in BOOLEAN
    BY DEF MInv, TypesOK
<1>5. q.now \in Addrs /\ q.want \in Texts  BY <1>1, <1>2 DEF WalkOK, ReqSet
<1>6. Merged(W, i, q.now, add, new, dies, w2, r)
  <2>1. new \in Addrs  BY <1>3
  <2> QED  BY <1>1, <1>2, <1>4, <1>5, <2>1, MergeFacts
<1>7. add # new
  <2>1. cfg[new].owner = NULL  BY ONLY <1>3 DEF Free
  <2>2. NULL \notin {t, "pconf"}  BY Distinct
  <2> QED  BY ONLY <2>1, <2>2, cfg[add].owner \in {t, "pconf"}
<1>8. ~q.died => Says(E, q.now, q.want)  BY <1>2 DEF WalkOK
<1>9. /\ Combined(q.want, w2) \in Texts /\ Combined(q.want, w2) # <<>>
      /\ Combined(<<>>, w2) = w2
      /\ Combined(q.want, w2) = IF cmd.merge THEN q.want \o w2 ELSE w2
    BY <1>4, <1>5, CombinedFacts
<1>10. r.now \in Addrs  BY ONLY <1>3, <1>6, add \in Addrs DEF Merged
<1>11. q.todo \in Todos /\ q.todo # <<>> /\ Tail(q.todo) \in Todos
       /\ ("loc" \in ToSet(Tail(q.todo)) => "loc" \in ToSet(q.todo))
    BY <1>1, TodoFacts DEF SameWalk, ReqSet
<1>12. q.died \in BOOLEAN /\ d \in BOOLEAN  BY <1>1, <1>4 DEF ReqSet
<1>14. ~d => ~q.died /\ ~(dies /\ cmd.merge)  OBVIOUS
<1> HIDE DEF E, F
<1>15. /\ q2 \in ReqSet /\ q2.at = q.at /\ q2.interp = q.interp /\ q2.todo = Tail(q.todo)
       /\ q2.now = r.now /\ q2.ht = q.ht /\ q2.told = q.told /\ q2.want = w
       /\ q2.died = d /\ q2.got = q.got
  <2>1. w \in Texts  BY <1>9
  <2>2. q2 = [q EXCEPT !.now = r.now, !.todo = Tail(@), !.want = w, !.died = d]
    BY DEF Advance
  <2> QED  BY ONLY <1>1, <1>10, <1>11, <1>12, <2>1, <2>2 DEF ReqSet
<1>16. q.at = "walk"  BY ONLY <1>1, req[t].at = "walk" DEF SameWalk
<1>17. GotOK(q2)
  <2>1. q2.got = NULL  BY ONLY <1>2, <1>15 DEF WalkOK
  <2> QED  BY ONLY <2>1 DEF GotOK
<1>18. CASE Nothing(E, q.now)
  <2>1. V = W
    <3>1. r.W = W /\ r.now # new  BY ONLY <1>6, <1>7, <1>18 DEF Merged, E
    <3>2. W = [t |-> W.t, f |-> W.f, c |-> W.c]  BY ONLY <1>2 DEF WorldType
    <3>3. V = [W EXCEPT !.f = W.f]  BY ONLY <3>1, V = Taken(r, new, t) DEF Taken
    <3> QED  BY ONLY <3>2, <3>3
  <2>2. ~d => Says(E, add, w)
    <3>1. SUFFICES ASSUME ~d PROVE Says(E, add, w)  OBVIOUS
    <3>2. ~q.died  BY <3>1, <1>14, <1>12
    <3>3. q.want = <<>>  BY <1>8, <1>18, <3>2 DEF Says, At, Nothing
    <3>4. w = w2  BY <1>9, <3>3
    <3> QED  BY <3>4 DEF Says, E
  <2>3. WalkOK(conf, t, q2, cfg, E)
    <3>1. r.now = add  BY ONLY <1>6, <1>18, Zenon DEF Merged, E
    <3>3. q2.now = add  BY ONLY <1>15, <3>1
    <3>2. WalkOK(conf, t, q, cfg, E)  BY ONLY <1>2
    <3> QED  BY ONLY <1>11, <1>15, <2>2, <3>2, <3>3, add \in Addrs, add # conf.srv,
                     cfg[add].owner \in {t, "pconf"} DEF WalkOK
  <2> QED
    <3>1. WalkOK(conf, t, q2, W.f, Entries(W.t))  BY <1>2, <2>3 DEF E
    <3>2. Using(t, i, W, q2)  BY <2>1
    <3> QED  BY <1>1, <1>2, <1>15, <1>16, <1>17, <3>1, <3>2, UsingKeeps
<1>19. CASE ~Nothing(E, q.now)
  <2>1. /\ r.now = new /\ WorldType(r.W)
        /\ r.W.f = [W.f EXCEPT ![new].server = TRUE]
        /\ r.W.c = Register(W.c, i, new)
    BY ONLY <1>6, <1>19 DEF Merged, E
  <2>2. PICK obj \in Objs :
          /\ Entries(r.W.t) = Replaced(E, new, obj)
          /\ \A w1 \in Texts : At(E, q.now, w1) /\ ~(dies /\ cmd.merge)
               => obj = IF cmd.merge THEN w1 \o w2 ELSE w2
    BY ONLY <1>6, <1>19 DEF Merged, E
  <2>3. /\ V.t = r.W.t /\ V.c = r.W.c /\ V.f = [r.W.f EXCEPT ![new].owner = t]
    BY ONLY <2>1, V = Taken(r, new, t) DEF WorldType, Taken
  <2>5. /\ V.f \in CfgSet /\ V.f[new] = [owner |-> t, server |-> TRUE]
        /\ V.f[new].owner = t
        /\ \A b \in Addrs : b # new => V.f[b] = cfg[b]
    <3> DEFINE g == r.W.f
    <3>1. g \in CfgSet  BY <2>1 DEF WorldType
    <3>2. g = [cfg EXCEPT ![new].server = TRUE]  BY ONLY <1>2, <2>1
    <3>3. V.f = [g EXCEPT ![new].owner = t]  BY ONLY <2>3
    <3> HIDE DEF g
    <3>4. g[new].server = TRUE /\ \A b \in Addrs : b # new => g[b] = cfg[b]
      BY ONLY <1>3, <1>4, <3>2 DEF CfgSet
    <3>5. V.f \in CfgSet /\ V.f[new].owner = t /\ V.f[new].server = g[new].server
          /\ \A b \in Addrs : b # new => V.f[b] = g[b]
      BY ONLY <1>3, <3>1, <3>3, t \in Threads DEF CfgSet, Owners
    <3>6. V.f[new] = [owner |-> V.f[new].owner, server |-> V.f[new].server]
      BY ONLY <1>3, <3>5, SMTT(30) DEF CfgSet
    <3>7. V.f[new].owner = t /\ V.f[new].server = TRUE  BY ONLY <3>4, <3>5, Zenon
    <3>8. \A b \in Addrs : b # new => V.f[b] = cfg[b]  BY ONLY <3>4, <3>5, Zenon
    <3>9. V.f[new] = [owner |-> t, server |-> TRUE]  BY ONLY <3>6, <3>7, Zenon
    <3> QED  BY ONLY <3>5, <3>7, <3>8, <3>9, Zenon
  <2>6. F = Replaced(E, new, obj)  BY ONLY <2>2, <2>3 DEF F
  <2>7. V.c = Reg(W.c, i, new)  BY <2>1, <2>3 DEF Register, Reg
  <2>8. Fits(threaded, i, W.c)
    BY <1>1, <1>2, <1>4 DEF WorldType, Kept, GetsOK, Fits
  <2>9. Added(threaded, i, W.c, new, V.c)
    <3>1. new \in Addrs  BY <1>3
    <3> QED  BY ONLY <2>7, <2>8, <3>1, MoreCleanups
  <2>10. Fits(threaded, i, V.c) /\ Pending(V.c) = Pending(W.c) \cup {new}
    BY <2>9 DEF Added
  <2>11. Lasting(F, V.c) = atStart
    <3>1. Lasting(E, W.c) = atStart  BY <1>2 DEF Kept, E
    <3>2. \A e : e[1] # new => (e \in F <=> e \in E)  BY ONLY <2>6, ReplacedFacts, SMTT(30)
    <3>3. \A e \in E : e[1] # new  BY <1>3 DEF Nothing
    <3> QED  BY <3>1, <3>2, <3>3, <2>10 DEF Lasting
  <2>12. Grown(conf, t, cfg, V.f)  BY <1>3, <2>5 DEF Grown
  <2>13. \A b \in Pending(V.c) : V.f[b].owner \in {t, "pconf"}
    <3>1. Pending(W.c) \subseteq Addrs  BY <2>8, PendingAddrs DEF Fits
    <3>2. \A b \in Pending(W.c) : cfg[b].owner \in {t, "pconf"}  BY <1>2 DEF Kept
    <3> QED  BY ONLY <2>5, <2>10, <3>1, <3>2, SMTT(30)
  <2>14. TableOK(V.t) /\ V.t # NoTable  BY ONLY <2>1, <2>3, NewTable DEF WorldType
  <2>15. Kept(threaded, atStart, conf, t, i, cfg, V)
    BY <2>10, <2>11, <2>12, <2>13, <2>14 DEF Kept, TableOrNone, Fits, F
  <2>16. ~d => Says(F, new, w)
    <3>1. SUFFICES ASSUME ~d PROVE Says(F, new, w)  OBVIOUS
    <3>2. ~q.died /\ ~(dies /\ cmd.merge)  BY <3>1, <1>14, <1>12
    <3>3. At(E, q.now, q.want)  BY <1>8, <1>19, <3>2 DEF Says
    <3>4. obj = w  BY ONLY <2>2, <3>2, <3>3, <1>5, <1>9, w = Combined(q.want, w2)
    <3>5. At(F, new, w)  BY <2>6, <3>4, ReplacedFacts
    <3>6. w # <<>>  BY <1>9
    <3> QED  BY <3>5, <3>6 DEF Says
  <2>17. q.ht # NULL => At(F, q.ht, q.told) /\ V.f[q.ht] = cfg[q.ht]
    <3>1. SUFFICES ASSUME q.ht # NULL PROVE At(F, q.ht, q.told) /\ V.f[q.ht] = cfg[q.ht]
      OBVIOUS
    <3>2. q.ht \in Addrs  BY <3>1, <1>1 DEF ReqSet
    <3>3. At(E, q.ht, q.told)  BY <3>1, <1>2 DEF WalkOK
    <3>4. At(F, q.ht, q.told)  BY <3>3, <1>3, <2>6, ReplacedFacts
    <3> QED  BY <3>2, <3>4, <1>3, <2>5
  <2>18. WalkOK(conf, t, q2, V.f, F)
    <3>1. WalkOK(conf, t, q, cfg, E)  BY <1>2
    <3>2. q2.now \in Addrs /\ V.f[q2.now].owner \in {t, "pconf"} /\ q2.now # conf.srv
      BY ONLY <1>3, <1>15, <2>1, <2>5
    <3>3. ~q2.died => Says(F, q2.now, q2.want)  BY <1>15, <2>1, <2>16
    <3> QED  BY ONLY <1>11, <1>15, <2>17, <3>1, <3>2, <3>3 DEF WalkOK
  <2> QED  BY <1>1, <1>15, <1>16, <1>17, <2>15, <2>18, UsingKeeps DEF F
<1> QED  BY <1>18, <1>19

\* The next section is merged, or there is none.
LEMMA MergeKeeps ==
    ASSUME MInv, stage = "serving", NEW t \in Threads, NEW dies \in BOOLEAN,
           MergeSection(t, dies)
    PROVE  MInv'
<1> DEFINE q0 == req[t]
           add == IF Head(q0.todo) = "loc" THEN conf.loc ELSE q0.ht
           w2 == IF Head(q0.todo) = "loc" THEN said.loc ELSE q0.told
           E == Seen(threaded, atStart, table, q0)
           next(q) == [q EXCEPT !.todo = Tail(@), !.want = Combined(@, w2),
                                !.died = @ \/ (dies /\ cmd.merge)]
<1>1. q0.at = "walk" /\ q0.todo # <<>>  BY DEF MergeSection
<1>2. /\ TypesOK /\ Serving /\ q0 \in ReqSet /\ ConfOK(conf, said, cfg, atStart)
      /\ ReqOK(threaded, conf, atStart, t, q0, cfg, E)
    BY DEF MInv, Serving, TypesOK
<1>3. WalkOK(conf, t, q0, cfg, E)  BY <1>1, <1>2 DEF ReqOK
<1>4. /\ q0.todo \in Todos /\ q0.ht \in Addrs \cup {NULL} /\ q0.told \in Texts
      /\ q0.want \in Texts /\ q0.died \in BOOLEAN
    BY <1>2 DEF ReqSet
<1>5. /\ Tail(q0.todo) \in Todos
      /\ "loc" \in ToSet(Tail(q0.todo)) => "loc" \in ToSet(q0.todo)
      /\ Head(q0.todo) = "loc" => "loc" \in ToSet(q0.todo)
    BY <1>1, <1>4, TodoFacts
<1>6. conf.loc \in Addrs \cup {NULL} /\ said.loc \in Texts  BY <1>2 DEF TypesOK
<1>7. atStart \subseteq E  BY <1>2 DEF ReqOK, Lasting
<1>8. \/ add = NULL /\ w2 = <<>>
      \/ /\ add \in Addrs /\ add # NULL /\ add # conf.srv /\ cfg[add].owner \in {t, "pconf"}
         /\ cfg[add].server = TRUE /\ w2 \in Texts /\ w2 # <<>> /\ At(E, add, w2)
  <2>1. CASE Head(q0.todo) = "loc"
    <3>1. add = conf.loc /\ w2 = said.loc  BY <2>1
    <3>2. conf.loc # NULL  BY <2>1, <1>3, <1>5 DEF WalkOK
    <3>3. /\ said.loc # <<>> /\ At(atStart, conf.loc, said.loc) /\ conf.loc # conf.srv
          /\ cfg[conf.loc] = [owner |-> "pconf", server |-> TRUE]
      BY <1>2, <3>2 DEF ConfOK
    <3>4. At(E, conf.loc, said.loc)  BY <3>3, <1>7 DEF At
    <3> HIDE DEF add, w2
    <3> QED  BY <1>6, <3>1, <3>2, <3>3, <3>4
  <2>2. CASE Head(q0.todo) # "loc" /\ q0.ht = NULL
    BY <2>2, <1>3 DEF WalkOK
  <2>3. CASE Head(q0.todo) # "loc" /\ q0.ht # NULL
    <3>1. add = q0.ht /\ w2 = q0.told  BY <2>3
    <3>2. /\ q0.told # <<>> /\ At(E, q0.ht, q0.told)
          /\ cfg[q0.ht] = [owner |-> t, server |-> TRUE]
      BY <2>3, <1>3 DEF WalkOK
    <3>3. cfg[conf.srv].owner = "pconf"  BY <1>2 DEF ConfOK
    <3>4. q0.ht # conf.srv
      <4>1. cfg[q0.ht].owner = t  BY ONLY <3>2
      <4>2. t # "pconf"  BY ONLY Distinct, t \in Threads, Zenon
      <4> QED  BY ONLY <3>3, <4>1, <4>2
    <3> HIDE DEF add, w2
    <3> QED  BY <1>4, <2>3, <3>1, <3>2, <3>4
  <2> QED  BY <2>1, <2>2, <2>3
<1>9. IF add = NULL \/ ~(cfg[q0.now].server \/ cfg[add].server)
      THEN /\ ~dies
           /\ req' = [req EXCEPT ![t] = next(q0)]
           /\ UNCHANGED <<threaded, stage, cmd, cfg, conf, said, table, atStart, idle>>
      ELSE \E i \in PoolSelect(t), new \in Alloc :
             LET q == PoolSet(q0, i)
                 W == World(i, q)
                 r == Merge(W, i, q.now, add, new, dies)
                 f == IF r.now = new THEN [r.W.f EXCEPT ![new].owner = t] ELSE r.W.f
             IN  Using(t, i, [r.W EXCEPT !.f = f], next([q EXCEPT !.now = r.now]))
    BY DEF MergeSection
<1>10. CASE add = NULL
  <2> DEFINE q == [q0 EXCEPT !.todo = Tail(@)]
  <2>1. w2 = <<>>  BY <1>8, <1>10
  <2>2. /\ ~dies /\ req' = [req EXCEPT ![t] = next(q0)]
        /\ UNCHANGED <<threaded, stage, cmd, cfg, conf, said, table, atStart, idle>>
    BY <1>9, <1>10
  <2>3. Combined(q0.want, w2) = q0.want /\ (q0.died \/ (dies /\ cmd.merge)) = q0.died
    BY <1>4, <2>1, <2>2 DEF Combined
  <2>4. next(q0) = q
    <3> DEFINE d == q0.died \/ (dies /\ cmd.merge)
               w == Combined(q0.want, w2)
    <3>1. next(q0) = [q0 EXCEPT !.todo = Tail(@), !.want = w, !.died = d]  OBVIOUS
    <3>2. w = q0.want /\ d = q0.died  BY <2>3
    <3> HIDE DEF w, d, q0, next
    <3>3. next(q0) = [q0 EXCEPT !.todo = Tail(@), !.want = q0.want, !.died = q0.died]
      BY <3>1, <3>2
    <3> QED  BY <3>3, <1>2 DEF ReqSet
  <2>5. /\ q \in ReqSet /\ q.at = q0.at /\ q.interp = q0.interp /\ q.todo = Tail(q0.todo)
        /\ q.now = q0.now /\ q.ht = q0.ht /\ q.told = q0.told /\ q.want = q0.want
        /\ q.died = q0.died /\ q.got = q0.got /\ q.cleanups = q0.cleanups
    BY <1>2, <1>5 DEF ReqSet
  <2>6. req' = [req EXCEPT ![t] = q]  BY <2>2, <2>4
  <2> HIDE DEF q, q0, E
  <2>7. Seen(threaded, atStart, table, q) = E
    BY <2>5 DEF Seen, Engine, E
  <2>8. WalkOK(conf, t, q, cfg, E)  BY ONLY <1>3, <1>5, <2>5 DEF WalkOK
  <2>9. HoldOK(threaded, q)
    <3>1. HoldOK(threaded, q0)  BY <1>2 DEF ReqOK
    <3> QED  BY ONLY <1>1, <2>5, <3>1 DEF HoldOK
  <2>10. GotOK(q)  BY ONLY <1>2, <2>5 DEF GotOK, ReqOK
  <2>11. ReqOK(threaded, conf, atStart, t, q, cfg, E)
    BY ONLY <1>2, <2>5, <2>8, <2>9, <2>10 DEF ReqOK
  <2>12. threaded \/ t = First
    <3>1. req[t] # NoReq  BY <1>1, NoReqFacts DEF q0
    <3> QED  BY <1>2, <3>1 DEF Serving
  <2>13. q.cleanups = req[t].cleanups /\ q.interp = req[t].interp  BY <2>5 DEF q0
  <2> QED  BY <2>2, <2>5, <2>6, <2>7, <2>11, <2>12, <2>13, OwnStep
<1>11. CASE add # NULL
  <2>1. /\ add \in Addrs /\ add # conf.srv /\ cfg[add].owner \in {t, "pconf"}
        /\ cfg[add].server = TRUE /\ w2 \in Texts /\ w2 # <<>> /\ At(E, add, w2)
    BY ONLY <1>8, <1>11, ZenonT(30)
  <2> HIDE DEF add, w2, E
  <2>2. PICK i \in PoolSelect(t), new \in Alloc :
          LET q == PoolSet(q0, i)
              W == World(i, q)
              r == Merge(W, i, q.now, add, new, dies)
              f == IF r.now = new THEN [r.W.f EXCEPT ![new].owner = t] ELSE r.W.f
          IN  Using(t, i, [r.W EXCEPT !.f = f], next([q EXCEPT !.now = r.now]))
    BY <1>9, <1>11, <2>1
  <2> DEFINE q == PoolSet(q0, i)
             W == World(i, q)
             r == Merge(W, i, q.now, add, new, dies)
             V == Taken(r, new, t)
             d == q.died \/ (dies /\ cmd.merge)
             w == Combined(q.want, w2)
             q2 == Advance(q, r.now, w, d)
  <2>3. q \in ReqSet  BY <1>1, PoolSetFacts
  <2>4. At(Entries(W.t), add, w2)
    <3> HIDE DEF q, W
    <3>1. W = World(i, q) /\ q = PoolSet(req[t], i)  BY DEF q, W
    <3>2. Entries(W.t) = E  BY <1>1, <3>1, WorldFacts DEF E
    <3> QED  BY <2>1, <3>2
  <2>5. Using(t, i, V, q2)
    <3>1. Using(t, i, V, next([q EXCEPT !.now = r.now]))  BY <2>2 DEF Taken
    <3> DEFINE n == r.now
    <3>2. next([q EXCEPT !.now = n]) = [q EXCEPT !.now = n, !.todo = Tail(@), !.want = w,
                                                 !.died = d]
      <4> HIDE DEF q, n
      <4> QED  BY <2>3 DEF ReqSet
    <3> QED  BY ONLY <3>1, <3>2, SMTT(30) DEF Advance
  <2>6. /\ q = PoolSet(req[t], i) /\ W = World(i, q) /\ r = Merge(W, i, q.now, add, new, dies)
        /\ V = Taken(r, new, t) /\ d = (q.died \/ (dies /\ cmd.merge))
        /\ w = Combined(q.want, w2) /\ q2 = Advance(q, r.now, w, d)
    OBVIOUS
  <2>7. req[t].at = "walk" /\ req[t].todo # <<>>  BY <1>1
  <2> HIDE DEF q, W, r, V, d, w, q2
  <2> QED  BY ONLY MInv, stage = "serving", t \in Threads, dies \in BOOLEAN,
                   i \in PoolSelect(t), new \in Alloc,
                   <2>1, <2>4, <2>5, <2>6, <2>7, MergeUsing
<1> QED  BY ONLY <1>10, <1>11, Zenon

\* A cleanup of the request's pool: the interpreter is given back as it was at the
\* start, or an object is removed from its table.
LEMMA PoolCleanupKeeps ==
    ASSUME MInv, stage = "serving", NEW t \in Threads, PoolCleanup(t)
    PROVE  MInv'
<1> DEFINE q == req[t]
           C == q.cleanups
           D == Front(C)
           c == Last(C)
           i == Engine(threaded, q)
           E == Entries(table[i])
<1>1. /\ q.at = "ending" /\ C # <<>>
      /\ req' = [req EXCEPT ![t].cleanups = D]
      /\ UNCHANGED <<threaded, stage, cmd, cfg, conf, said, atStart>>
      /\ IF c[2] = Unselect THEN idle' = idle \cup {c[1]} /\ UNCHANGED table
         ELSE table' = [table EXCEPT ![c[1]] = TableDelete(@, c[2])] /\ UNCHANGED idle
    BY DEF PoolCleanup
<1>2. /\ TypesOK /\ Serving /\ q \in ReqSet /\ HoldOK(threaded, q) /\ cfg \in CfgSet
      /\ threaded \in BOOLEAN /\ GotOK(q)
      /\ \A a \in Pending(C) : cfg[a].owner \in {t, "pconf"}
      /\ Lasting(Seen(threaded, atStart, table, q), C) = atStart
    BY DEF MInv, Serving, TypesOK, ReqOK
<1>3. C \in Seq(CleanupSet) /\ q.interp \in Clones \cup {NULL}  BY <1>2 DEF ReqSet
<1>4. /\ D \in Seq(CleanupSet) /\ c \in CleanupSet /\ c = C[Len(C)]
      /\ Len(D) = Len(C) - 1 /\ Len(C) \in Nat \ {0}
      /\ \A k \in 1 .. Len(C) - 1 : D[k] = C[k]
      /\ Pending(C) = Pending(D) \cup ({c[2]} \ {Unselect})
    BY <1>1, <1>3, PendingFront
<1>5. /\ i \in Interps /\ Shape(threaded, i, C) /\ (threaded => i = q.interp /\ i \in Clones)
      /\ (~threaded => i = "parent")
    BY <1>1, <1>2, <1>3 DEF HoldOK, Engine, Interps
<1>6. Lasting(E, C) = atStart  BY <1>1, <1>2 DEF Seen
<1>7. GetsOK(t, i)
  <2>1. req[t] # NoReq  BY <1>1, NoReqFacts
  <2>2. ~threaded => t = First  BY <1>2, <2>1 DEF Serving
  <2>3. threaded => \A u \in Threads \ {t} : req[u].cleanups # <<>> => req[u].interp # i
    BY <1>1, <1>2, <1>5 DEF Serving
  <2> QED  BY <1>5, <2>2, <2>3 DEF GetsOK
<1>8. i \notin idle
    BY <1>1, <1>2, <1>5 DEF Serving
<1>9. req' = [req EXCEPT ![t] = [q EXCEPT !.cleanups = D]]
    BY <1>1
<1>10. q.at \in {"walk", "ending"} /\ (q.at = "walk" => FALSE)  BY <1>1
<1>11. TableOrNone(table[i])  BY <1>2, <1>5 DEF TypesOK, TableOrNone
<1> HIDE DEF q, C, D, c, i, E
<1>12. CASE c[2] = Unselect
  <2>1. threaded /\ Len(C) = 1 /\ c = <<i, Unselect>>
    <3>1. ~threaded => FALSE
      <4>1. ~threaded => C[Len(C)][2] \in Addrs  BY <1>4, <1>5 DEF Shape
      <4> QED  BY <4>1, <1>4, <1>12, Distinct
    <3>2. threaded  BY <3>1, <1>2
    <3>3. C[1] = <<i, Unselect>> /\ \A k \in 2 .. Len(C) : C[k][2] \in Addrs
      BY <3>2, <1>5 DEF Shape
    <3>4. Len(C) \notin 2 .. Len(C)  BY <3>3, <1>4, <1>12, Distinct
    <3>5. Len(C) = 1  BY <3>4, <1>4
    <3> QED  BY <3>2, <3>3, <3>5, <1>4
  <2>2. D = <<>>  BY <1>4, <2>1
  <2>3. Pending(C) = {} /\ Pending(<<>>) = {}  BY <1>4, <1>12, <2>2, LastingAll
  <2>4. E = atStart  BY <1>6, <2>3 DEF Lasting
  <2>5. idle' = idle \cup {i} /\ table' = table  BY <1>1, <1>12, <2>1
  <2> DEFINE p == [q EXCEPT !.cleanups = <<>>]
  <2>6. /\ p \in ReqSet /\ p.cleanups = <<>> /\ p.at = "ending" /\ p.interp = q.interp
        /\ p.got = q.got /\ p.want = q.want /\ p.died = q.died
    <3>1. q \in ReqSet /\ q.at = "ending" /\ <<>> \in Seq(CleanupSet)  BY <1>1, <1>2
    <3> QED  BY ONLY <3>1 DEF ReqSet
  <2>7. req' = [req EXCEPT ![t] = p]  BY <1>9, <2>2
  <2> HIDE DEF p
  <2>8. /\ req'[t] = p /\ \A u \in Threads : u # t => req'[u] = req[u]
        /\ req' \in [Threads -> ReqSet]
    BY <1>2, <2>6, <2>7 DEF TypesOK
  <2>9. TypesOK'
    <3>1. idle' \subseteq Clones  BY <1>2, <1>5, <2>1, <2>5 DEF TypesOK
    <3> QED  BY <1>1, <1>2, <2>5, <2>8, <3>1 DEF TypesOK
  <2>10. ReqOK(threaded, conf, atStart, t, p, cfg, Seen(threaded, atStart, table, p))
    <3>1. HoldOK(threaded, p)  BY <2>1, <2>6 DEF HoldOK
    <3>2. Seen(threaded, atStart, table, p) = atStart  BY <2>6 DEF Seen
    <3>3. GotOK(p)  BY <1>2, <2>6 DEF GotOK
    <3>4. Lasting(atStart, p.cleanups) = atStart /\ Pending(p.cleanups) = {}
      BY <2>6, LastingAll
    <3> QED  BY <2>6, <3>1, <3>2, <3>3, <3>4 DEF ReqOK
  <2>11. \A u \in Threads :
           ReqOK(threaded, conf, atStart, u, req'[u], cfg, Seen(threaded, atStart, table, req'[u]))
    BY <1>2, <2>8, <2>10 DEF Serving
  <2>12. \A j \in idle' : Entries(table[j]) = atStart
    BY <1>2, <2>4, <2>5 DEF Serving, E
  <2>13. \A u \in Threads : Pending(req'[u].cleanups) # {} =>
           table[Engine(threaded, req'[u])] # NoTable
    BY <1>2, <2>3, <2>6, <2>8 DEF Serving
  <2>14. \A u \in Threads : threaded /\ req'[u].cleanups # <<>> => req'[u].interp \notin idle'
    BY <1>2, <1>7, <2>5, <2>6, <2>8 DEF Serving, GetsOK
  <2>15. \A u, v \in Threads :
           /\ threaded /\ req'[u].cleanups # <<>> /\ req'[v].cleanups # <<>>
           /\ req'[u].interp = req'[v].interp
           => u = v
    BY <1>2, <2>6, <2>8 DEF Serving
  <2>16. Serving'
    BY <1>1, <1>2, <2>1, <2>5, <2>11, <2>12, <2>13, <2>14, <2>15 DEF Serving
  <2> QED  BY <1>1, <2>9, <2>16 DEF MInv
<1>13. CASE c[2] # Unselect
  <2> DEFINE a == c[2]
             T == TableDelete(table[i], a)
             W == [t |-> T, f |-> cfg, c |-> D]
  <2>1. a \in Addrs  BY <1>4, <1>13 DEF CleanupSet
  <2>2. c[1] = i
    <3>1. CASE threaded
      <4>1. C[1] = <<i, Unselect>> /\ \A k \in 2 .. Len(C) : C[k][1] = i
        BY <3>1, <1>5 DEF Shape
      <4>2. Len(C) = 1 \/ Len(C) \in 2 .. Len(C)  BY <1>4
      <4> QED  BY <4>1, <4>2, <1>4
    <3>2. CASE ~threaded
      <4>1. Len(C) \in 1 .. Len(C)  BY <1>4
      <4> QED  BY <3>2, <4>1, <1>4, <1>5 DEF Shape
    <3> QED  BY <3>1, <3>2, <1>2
  <2>3. Pending(C) = Pending(D) \cup {a}  BY <1>4, <1>13
  <2> HIDE DEF a
  <2>4. TableOK(table[i])
    <3>1. table[i] # NoTable  BY <1>2, <2>3 DEF Serving, i, q, C
    <3> QED  BY <3>1, <1>11 DEF TableOrNone
  <2>5. TableOK(T) /\ Entries(T) = {e \in E : e[1] # a}
    BY <2>1, <2>4, DeleteFacts DEF E
  <2>6. W.t = T /\ W.f = cfg /\ W.c = D  OBVIOUS
  <2>7. Using(t, i, W, q)
    <3>1. idle' = idle \ {i}  BY <1>1, <1>8, <1>13
    <3>2. table' = [table EXCEPT ![i] = T]  BY <1>1, <1>13, <2>2 DEF a
    <3>3. req' = [req EXCEPT ![t] = [q EXCEPT !.cleanups = W.c]]  BY <1>9, <2>6
    <3> QED  BY <1>1, <2>6, <3>1, <3>2, <3>3 DEF Using
  <2> HIDE DEF T, W
  <2>8. Lasting(Entries(T), D) = atStart
    BY <1>6, <2>3, <2>5 DEF Lasting
  <2>9. Shape(threaded, i, D)
    <3>1. CASE threaded
      <4>1. C[1] = <<i, Unselect>> /\ \A k \in 2 .. Len(C) : C[k][1] = i /\ C[k][2] \in Addrs
        BY <3>1, <1>5 DEF Shape
      <4>2. Len(C) # 1  BY <4>1, <1>4, <1>13
      <4>3. D # <<>> /\ D[1] = C[1]  BY <4>2, <1>4
      <4>4. \A k \in 2 .. Len(D) : D[k] = C[k] /\ k \in 2 .. Len(C)  BY <1>4
      <4> QED  BY <3>1, <4>1, <4>3, <4>4 DEF Shape
    <3>2. CASE ~threaded
      <4>1. \A k \in 1 .. Len(D) : D[k] = C[k] /\ k \in 1 .. Len(C)  BY <1>4
      <4> QED  BY <3>2, <4>1, <1>5 DEF Shape
    <3> QED  BY <3>1, <3>2, <1>2
  <2>10. Grown(conf, t, cfg, cfg)  BY <1>2 DEF Grown
  <2>11. T # NoTable  BY <2>5, NewTable
  <2>12. Kept(threaded, atStart, conf, t, i, cfg, W)
    BY <1>2, <1>4, <2>3, <2>5, <2>6, <2>8, <2>9, <2>10, <2>11 DEF Kept, TableOrNone
  <2>13. q.interp = IF threaded THEN i ELSE NULL
    BY <1>2, <1>5 DEF HoldOK
  <2> QED  BY <1>2, <1>5, <1>7, <1>10, <2>7, <2>12, <2>13, UsingKeeps
<1> QED  BY <1>12, <1>13

\* A thread without a request.
LEMMA NoReqOK ==
    ASSUME NEW th, NEW cf, NEW start, NEW t, NEW f
    PROVE  ReqOK(th, cf, start, t, NoReq, f, start)
<1>1. /\ NoReq.at = "none" /\ NoReq.cleanups = <<>> /\ NoReq.interp = NULL
      /\ NoReq.got = NULL
    BY DEF NoReq
<1>2. ~th => Shape(th, "parent", <<>>)  BY DEF Shape
<1>3. HoldOK(th, NoReq)  BY <1>1, <1>2 DEF HoldOK
<1>4. Lasting(start, NoReq.cleanups) = start /\ Pending(NoReq.cleanups) = {}
    BY <1>1, LastingAll
<1> QED  BY <1>1, <1>3, <1>4 DEF ReqOK, GotOK

\* The structures of a finished request are free again, and nothing refers to them.
LEMMA PoolFreedKeeps ==
    ASSUME MInv, stage = "serving", NEW t \in Threads, PoolFreed(t)
    PROVE  MInv'
<1> DEFINE f == [a \in Addrs |-> IF cfg[a].owner = t THEN Free ELSE cfg[a]]
<1>1. /\ req[t].at = "ending" /\ req[t].cleanups = <<>>
      /\ req' = [req EXCEPT ![t] = NoReq] /\ cfg' = f
      /\ UNCHANGED <<threaded, stage, cmd, conf, said, table, atStart, idle>>
    BY DEF PoolFreed
<1>2. TypesOK /\ Serving /\ cfg \in CfgSet /\ threaded \in BOOLEAN
    BY DEF MInv, TypesOK
<1>3. f \in CfgSet
  <2>1. Free \in [owner : Owners, server : BOOLEAN]  BY DEF Free, Owners
  <2> QED  BY <1>2, <2>1 DEF CfgSet
<1>4. \A a \in Addrs : cfg[a].owner # t => f[a] = cfg[a]  OBVIOUS
<1> HIDE DEF f
<1>5. NoReq \in ReqSet /\ NoReq.cleanups = <<>> /\ NoReq.at = "none"  BY NoReqFacts
<1>6. /\ req'[t] = NoReq /\ \A u \in Threads : u # t => req'[u] = req[u]
      /\ req' \in [Threads -> ReqSet]
    BY <1>1, <1>2, <1>5 DEF TypesOK
<1>7. TypesOK'  BY <1>1, <1>2, <1>3, <1>6 DEF TypesOK
<1>8. ConfOK(conf, said, f, atStart)
  <2>1. ConfOK(conf, said, cfg, atStart)  BY <1>2 DEF Serving
  <2>2. \A a \in Addrs : cfg[a].owner = "pconf" => f[a] = cfg[a]  BY <1>4, Distinct
  <2>3. conf.loc # NULL => conf.loc \in Addrs  BY <1>2 DEF TypesOK
  <2> QED  BY ONLY <2>1, <2>2, <2>3 DEF ConfOK
<1>9. ASSUME NEW u \in Threads, u # t
      PROVE  ReqOK(threaded, conf, atStart, u, req[u], f, Seen(threaded, atStart, table, req[u]))
  <2> DEFINE q == req[u]
             E == Seen(threaded, atStart, table, q)
  <2>1. ReqOK(threaded, conf, atStart, u, q, cfg, E) /\ q \in ReqSet
    BY <1>2 DEF Serving, TypesOK
  <2> HIDE DEF q, E
  <2>2. \A a \in Addrs : cfg[a].owner \in {u, "pconf"} => f[a] = cfg[a]
    BY <1>4, <1>9, Distinct
  <2>3. \A a \in Pending(q.cleanups) : f[a].owner \in {u, "pconf"}
    <3>1. Pending(q.cleanups) \subseteq Addrs  BY <2>1, PendingAddrs DEF ReqSet
    <3> QED  BY <2>1, <2>2, <3>1 DEF ReqOK
  <2>4. ASSUME q.at = "walk" PROVE WalkOK(conf, u, q, f, E)
    <3>1. WalkOK(conf, u, q, cfg, E)  BY <2>1, <2>4 DEF ReqOK
    <3>2. f[q.now] = cfg[q.now]  BY <2>2, <3>1 DEF WalkOK
    <3>3. q.ht # NULL => f[q.ht] = cfg[q.ht]
      <4>1. q.ht # NULL => q.ht \in Addrs  BY <2>1 DEF ReqSet
      <4> QED  BY <2>2, <3>1, <4>1 DEF WalkOK
    <3> QED  BY ONLY <3>1, <3>2, <3>3 DEF WalkOK
  <2> QED  BY <2>1, <2>3, <2>4 DEF ReqOK, q, E
<1>10. \A u \in Threads :
         ReqOK(threaded, conf, atStart, u, req'[u], f, Seen(threaded, atStart, table, req'[u]))
  <2>1. Seen(threaded, atStart, table, NoReq) = atStart  BY <1>5 DEF Seen
  <2>2. ReqOK(threaded, conf, atStart, t, NoReq, f, Seen(threaded, atStart, table, NoReq))
    BY <1>2, <2>1, NoReqOK
  <2> QED  BY <1>6, <1>9, <2>2
<1>11. threaded \/ req'[First].cleanups = <<>> => Entries(table["parent"]) = atStart
  <2>1. req'[First].cleanups = req[First].cleanups
    BY <1>1, <1>5, <1>6, Distinct
  <2> QED  BY <1>2, <2>1 DEF Serving
<1>12. ~threaded => idle = {} /\ \A u \in Threads \ {First} : req'[u] = NoReq
    BY <1>2, <1>6 DEF Serving
<1>13. \A u \in Threads : Pending(req'[u].cleanups) # {} =>
         table[Engine(threaded, req'[u])] # NoTable
    BY <1>2, <1>5, <1>6, LastingAll DEF Serving
<1>14. \A u \in Threads : threaded /\ req'[u].cleanups # <<>> => req'[u].interp \notin idle
    BY <1>2, <1>5, <1>6 DEF Serving
<1>15. \A u, v \in Threads :
         /\ threaded /\ req'[u].cleanups # <<>> /\ req'[v].cleanups # <<>>
         /\ req'[u].interp = req'[v].interp
         => u = v
    BY <1>2, <1>5, <1>6 DEF Serving
<1>16. Serving'
    BY <1>1, <1>2, <1>8, <1>10, <1>11, <1>12, <1>13, <1>14, <1>15 DEF Serving
<1> QED  BY <1>1, <1>7, <1>16 DEF MInv

\* A new interpreter has what the parent has, which is what was there at the start.
LEMMA ReplaceKeeps ==
    ASSUME MInv, NEW i \in Clones, Replace(i)
    PROVE  MInv'
<1>1. /\ stage = "serving" /\ i \in idle
      /\ table' = [table EXCEPT ![i] = TableClone(table["parent"])]
      /\ UNCHANGED <<threaded, stage, cmd, cfg, conf, said, atStart, idle, req>>
    BY DEF Replace
<1>2. TypesOK /\ Serving /\ "parent" \in Interps /\ i \in Interps /\ i # "parent"
    BY <1>1, Distinct DEF MInv, Interps
<1>3. TableOrNone(table["parent"])  BY <1>2 DEF TypesOK, TableOrNone
<1>4. TableClone(table["parent"]) = table["parent"]  BY <1>3, CloneFacts
<1>5. threaded  BY <1>1, <1>2 DEF Serving
<1>6. /\ table'[i] = table["parent"] /\ \A j \in Interps : j # i => table'[j] = table[j]
      /\ table' = [j \in Interps |-> table'[j]]
    BY <1>1, <1>2, <1>4 DEF TypesOK
<1>7. TypesOK'
  <2>1. \A j \in Interps : table'[j] = NoTable \/ TableOK(table'[j])
    BY <1>2, <1>6 DEF TypesOK
  <2> QED  BY <1>1, <1>2, <1>6, <2>1 DEF TypesOK
<1>8. Entries(table'["parent"]) = atStart /\ table'["parent"] = table["parent"]
    BY <1>2, <1>5, <1>6 DEF Serving
<1>9. \A j \in idle : Entries(table'[j]) = atStart
    BY <1>2, <1>5, <1>6 DEF Serving, TypesOK, Interps
<1>10. ASSUME NEW u \in Threads, req[u].cleanups # <<>>
       PROVE  table'[Engine(threaded, req[u])] = table[Engine(threaded, req[u])]
  <2>1. req[u].interp # i  BY <1>1, <1>2, <1>5, <1>10 DEF Serving
  <2>2. req[u].interp \in Clones
    <3>1. HoldOK(threaded, req[u]) /\ req[u] \in ReqSet
      BY <1>2 DEF Serving, ReqOK, TypesOK
    <3> QED  BY <3>1, <1>5, <1>10 DEF HoldOK, ReqSet
  <2> QED  BY <2>1, <2>2, <1>5, <1>6 DEF Engine, Interps
<1>11. \A u \in Threads :
         ReqOK(threaded, conf, atStart, u, req[u], cfg, Seen(threaded, atStart, table', req[u]))
  <2>1. \A u \in Threads :
          Seen(threaded, atStart, table', req[u]) = Seen(threaded, atStart, table, req[u])
    BY <1>10 DEF Seen
  <2> QED  BY <1>2, <2>1 DEF Serving
<1>12. \A u \in Threads : Pending(req[u].cleanups) # {} =>
         table'[Engine(threaded, req[u])] # NoTable
    BY <1>2, <1>10, LastingAll DEF Serving
<1>13. Serving'  BY <1>1, <1>2, <1>5, <1>8, <1>9, <1>11, <1>12 DEF Serving
<1> QED  BY <1>1, <1>7, <1>13 DEF MInv

\* The clones get what the parent has, and serving begins.
LEMMA InitClonesKeeps ==
    ASSUME MInv, InitClones
    PROVE  MInv'
<1>1. /\ stage = "config" /\ stage' = "serving"
      /\ table' = IF threaded
                  THEN [i \in Interps |-> IF i = "parent" THEN table[i]
                                          ELSE TableClone(table["parent"])]
                  ELSE table
      /\ idle' = IF threaded THEN Clones ELSE {}
      /\ atStart' = Entries(table["parent"])
      /\ UNCHANGED <<threaded, cmd, cfg, conf, said, req>>
    BY DEF InitClones
<1>2. TypesOK /\ Starting /\ "parent" \in Interps /\ threaded \in BOOLEAN
    BY <1>1 DEF MInv, Interps, TypesOK
<1>3. TableOrNone(table["parent"])  BY <1>2 DEF TypesOK, TableOrNone
<1>4. TableClone(table["parent"]) = table["parent"]  BY <1>3, CloneFacts
<1>5. /\ table' = [j \in Interps |-> table'[j]]
      /\ \A j \in Interps : table'[j] = table["parent"] \/ table'[j] = table[j]
      /\ table'["parent"] = table["parent"]
      /\ threaded => \A j \in Clones : table'[j] = table["parent"]
    BY <1>1, <1>2, <1>4 DEF TypesOK, Interps
<1>6. TypesOK'
  <2>1. \A j \in Interps : table'[j] = NoTable \/ TableOK(table'[j])
    BY <1>2, <1>5 DEF TypesOK
  <2>2. idle' \subseteq Clones  BY <1>1
  <2> QED  BY <1>1, <1>2, <1>5, <2>1, <2>2 DEF TypesOK
<1>7. ConfOK(conf, said, cfg, atStart')  BY <1>1, <1>2 DEF Starting
<1>8. \A u \in Threads : req'[u] = NoReq  BY <1>1, <1>2 DEF Starting
<1>9. NoReq.cleanups = <<>> /\ Pending(<<>>) = {} /\ First \in Threads
    BY NoReqFacts, LastingAll, Distinct
<1>10. ASSUME NEW u \in Threads
       PROVE  ReqOK(threaded, conf, atStart, u, NoReq, cfg, Seen(threaded, atStart, table, NoReq))'
  <2>1. ReqOK(threaded, conf, atStart, u, NoReq, cfg, atStart)'
    BY NoReqOK
  <2> QED  BY <1>9, <2>1 DEF Seen
<1>11. \A j \in idle' : Entries(table'[j]) = atStart'  BY <1>1, <1>5
<1>12. Serving'
    BY <1>1, <1>5, <1>7, <1>8, <1>9, <1>10, <1>11 DEF Serving
<1> QED  BY <1>1, <1>6, <1>12 DEF MInv

-----------------------------------------------------------------------------
(* Startup.                                                                *)

\* A structure that is not used has no object.
LEMMA FreeNothing ==
    ASSUME NEW cf, NEW sd, NEW f, NEW E, ConfOK(cf, sd, f, E), NEW a, f[a] = Free
    PROVE  Nothing(E, a) /\ a # cf.srv /\ a # cf.dir
<1>1. f[a].owner # "pconf"  BY Distinct DEF Free
<1> QED  BY <1>1 DEF ConfOK, Nothing

\* A directive in the configuration adds to what was said for its section.
LEMMA DirectiveKeeps ==
    ASSUME MInv, NEW where \in {"dir", "loc"}, NEW v \in Args, Directive(where, v)
    PROVE  MInv'
<1> DEFINE T == TableOf(table["parent"])
           g == Given(v)
           s == conf.srv
           E == Entries(table["parent"])
<1>1. /\ stage = "config"
      /\ said' = [said EXCEPT ![where] = @ \o g]
      /\ UNCHANGED <<threaded, stage, cmd, atStart, idle, req>>
    BY DEF Directive
<1>2. PICK a \in IF conf[where] # NULL THEN {conf[where]} ELSE Alloc :
        LET f == [cfg EXCEPT ![a].owner = "pconf"]
            W == Take123([t |-> T, f |-> f, c |-> <<>>], "parent", a, g)
        IN  /\ table' = [table EXCEPT !["parent"] = W.t]
            /\ cfg' = W.f
            /\ conf' = [conf EXCEPT ![where] = a]
    BY DEF Directive
<1> DEFINE f == [cfg EXCEPT ![a].owner = "pconf"]
           W == [t |-> T, f |-> f, c |-> <<>>]
           V == Take123(W, "parent", a, g)
           F == Entries(V.t)
<1>3. table' = [table EXCEPT !["parent"] = V.t] /\ cfg' = V.f
      /\ conf' = [conf EXCEPT ![where] = a]
    BY <1>2
<1>4. /\ TypesOK /\ Starting /\ "parent" \in Interps /\ cfg \in CfgSet
      /\ ConfOK(conf, said, cfg, E)
      /\ conf \in [srv : Addrs \cup {NULL}, dir : Addrs \cup {NULL}, loc : Addrs \cup {NULL}]
      /\ said \in [dir : Texts, loc : Texts]
    BY <1>1 DEF MInv, Starting, TypesOK, Interps
<1>5. g \in Texts /\ g # <<>>  BY <1>4, GivenFacts
<1>6. TableOK(T) /\ Entries(T) = E
  <2>1. TableOrNone(table["parent"])  BY <1>4 DEF TypesOK, TableOrNone
  <2> QED  BY <2>1, TableOfFacts
<1>7. s \in Addrs /\ cfg[s].owner = "pconf"  BY <1>4 DEF ConfOK
<1>8. /\ a \in Addrs /\ a # s
      /\ \/ conf[where] # NULL /\ a = conf[where]
         \/ conf[where] = NULL /\ cfg[a] = Free
  <2>1. CASE conf[where] # NULL
    <3>1. a = conf[where]  BY <2>1, <1>2
    <3>2. conf[where] \in Addrs /\ conf[where] # s
      <4>1. CASE where = "dir"  BY <4>1, <2>1, <1>4 DEF ConfOK
      <4>2. CASE where = "loc"  BY <4>2, <2>1, <1>4 DEF ConfOK
      <4> QED  BY <4>1, <4>2
    <3> QED  BY <2>1, <3>1, <3>2
  <2>2. CASE conf[where] = NULL
    <3>1. a \in Addrs /\ cfg[a] = Free  BY <2>2, <1>2 DEF Alloc, Lowest
    <3>2. a # s  BY <3>1, <1>4, FreeNothing
    <3> QED  BY <2>2, <3>1, <3>2
  <2> QED  BY <2>1, <2>2
<1> DEFINE o == said[where]
<1>9. /\ o \in Texts
      /\ (Nothing(E, a) /\ o = <<>>) \/ At(E, a, o)
      /\ where = "loc" => a # conf.dir
      /\ where = "dir" => a = conf.dir
  <2>1. CASE where = "dir"
    <3>1. conf.dir # NULL  BY <1>4, Distinct DEF ConfOK
    <3>2. a = conf.dir  BY <2>1, <1>8, <3>1
    <3>3. Says(E, conf.dir, said.dir)  BY <1>4 DEF ConfOK
    <3> QED  BY <1>4, <2>1, <3>2, <3>3 DEF Says
  <2>2. CASE where = "loc" /\ conf.loc # NULL
    <3>1. a = conf.loc  BY <2>2, <1>8
    <3>2. At(E, conf.loc, said.loc) /\ conf.loc # conf.dir  BY <2>2, <1>4 DEF ConfOK
    <3> QED  BY <1>4, <2>2, <3>1, <3>2
  <2>3. CASE where = "loc" /\ conf.loc = NULL
    <3>1. cfg[a] = Free  BY <2>3, <1>8
    <3>2. Nothing(E, a) /\ a # conf.dir  BY <3>1, <1>4, FreeNothing
    <3>3. said.loc = <<>>  BY <2>3, <1>4 DEF ConfOK
    <3> QED  BY <1>4, <2>3, <3>2, <3>3
  <2> QED  BY <2>1, <2>2, <2>3
<1>10. f \in CfgSet /\ f[a].owner = "pconf" /\ f[a].server = cfg[a].server
       /\ \A b \in Addrs : b # a => f[b] = cfg[b]
    BY <1>4, <1>8 DEF CfgSet, Owners
<1> HIDE DEF f, T, g
<1>11. W.t = T /\ W.f = f /\ W.c = <<>> /\ WorldType(W)
    BY <1>6, <1>10 DEF WorldType
<1> HIDE DEF W, E, s, o
<1>12. TookArgs(s, W, V, "parent", a, o, g)
  <2>1. V = Take123(W, "parent", a, g)  OBVIOUS
  <2>2. Entries(W.t) = E  BY <1>6, <1>11
  <2> HIDE DEF V
  <2> QED  BY <1>4, <1>5, <1>7, <1>8, <1>9, <1>11, <2>1, <2>2, Take123Facts DEF s
<1> HIDE DEF V, F
<1>13. /\ WorldType(V) /\ At(F, a, o \o g)
       /\ \A e : e[1] \notin {a, s} => (e \in F <=> e \in E)
       /\ \A b \in Addrs \ {a, s} : V.f[b] = cfg[b]
       /\ V.f[s].owner = "pconf" /\ V.f[a].owner = "pconf"
       /\ Nothing(E, a) => V.f[a].server = TRUE
       /\ ~Nothing(E, a) => V.f[a] = f[a]
  <2>1. Entries(W.t) = E  BY <1>6, <1>11
  <2>2. /\ WorldType(V) /\ At(Entries(V.t), a, o \o g)
        /\ \A e : e[1] \notin {a, s} => (e \in Entries(V.t) <=> e \in Entries(W.t))
        /\ \A b \in Addrs \ {a, s} : V.f[b] = W.f[b]
        /\ V.f[s].owner = W.f[s].owner
        /\ V.f[a].owner = W.f[a].owner
        /\ Nothing(Entries(W.t), a) => V.f[a].server = TRUE
        /\ ~Nothing(Entries(W.t), a) => V.f[a] = W.f[a]
    BY ONLY <1>12, Zenon DEF TookArgs
  <2> QED  BY ONLY <2>1, <2>2, <1>7, <1>8, <1>10, <1>11 DEF F
<1>14. o \o g \in Texts /\ o \o g # <<>>  BY <1>5, <1>9 DEF Texts
<1>15. /\ said' \in [dir : Texts, loc : Texts] /\ said'[where] = o \o g
       /\ where = "dir" => said'.loc = said.loc /\ said'.dir = o \o g
       /\ where = "loc" => said'.dir = said.dir /\ said'.loc = o \o g
    BY <1>1, <1>4, <1>14 DEF o
<1>16. /\ conf' \in [srv : Addrs \cup {NULL}, dir : Addrs \cup {NULL}, loc : Addrs \cup {NULL}]
       /\ conf'.srv = s
       /\ where = "dir" => conf'.dir = a /\ conf'.loc = conf.loc
       /\ where = "loc" => conf'.loc = a /\ conf'.dir = conf.dir
    BY <1>3, <1>4, <1>8 DEF s
<1>17. /\ table'["parent"] = V.t /\ \A j \in Interps : j # "parent" => table'[j] = table[j]
       /\ table' = [j \in Interps |-> table'[j]]
    BY <1>3, <1>4 DEF TypesOK
<1>18. V.f \in CfgSet /\ TableOK(V.t)  BY <1>13 DEF WorldType
<1>19. TypesOK'
  <2>1. \A j \in Interps : table'[j] = NoTable \/ TableOK(table'[j])
    BY <1>4, <1>17, <1>18 DEF TypesOK
  <2> QED  BY <1>1, <1>3, <1>4, <1>15, <1>16, <1>17, <1>18, <2>1 DEF TypesOK
<1>20. \A e \in F : e[1] \in Addrs /\ V.f[e[1]].owner = "pconf"
  <2>1. \A e \in E : e[1] \in Addrs /\ cfg[e[1]].owner = "pconf"  BY <1>4 DEF ConfOK
  <2> QED  BY <2>1, <1>7, <1>8, <1>13
<1>21. V.f[a].server = TRUE \/ where = "dir"
  <2>1. SUFFICES ASSUME where = "loc", ~Nothing(E, a) PROVE V.f[a].server = TRUE
    BY <1>13
  <2>2. conf.loc # NULL
    <3>1. cfg[a] # Free  BY <2>1, <1>4, FreeNothing
    <3> QED  BY <3>1, <2>1, <1>8
  <2>3. cfg[a].server = TRUE  BY <1>4, <1>8, <2>1, <2>2 DEF ConfOK
  <2> QED  BY <2>1, <2>3, <1>10, <1>13
<1>22. V.f[a] = [owner |-> V.f[a].owner, server |-> V.f[a].server]
    BY <1>8, <1>18 DEF CfgSet
<1>23. ASSUME NEW b, NEW w, b \notin {a, s}
       PROVE  (At(E, b, w) => At(F, b, w)) /\ (Says(E, b, w) => Says(F, b, w))
  <2>1. <<b, w>>[1] = b  OBVIOUS
  <2>2. At(E, b, w) => At(F, b, w)  BY <1>23, <2>1, <1>13 DEF At
  <2>3. Nothing(E, b) => Nothing(F, b)  BY <1>23, <1>13 DEF Nothing
  <2> QED  BY <2>2, <2>3 DEF Says
<1>24. ConfOK(conf', said', V.f, F)
  <2>1. CASE where = "dir"
    <3>1. /\ conf'.dir = a /\ conf'.loc = conf.loc /\ conf'.srv = s
          /\ said'.loc = said.loc /\ said'.dir = o \o g /\ a = conf.dir
      BY <2>1, <1>9, <1>15, <1>16
    <3>2. conf.loc # NULL => /\ conf.loc \in Addrs /\ conf.loc \notin {a, s}
                             /\ said.loc # <<>> /\ At(E, conf.loc, said.loc)
                             /\ cfg[conf.loc] = [owner |-> "pconf", server |-> TRUE]
      BY <1>4, <3>1 DEF ConfOK, s
    <3>3. conf.loc # NULL => V.f[conf.loc] = cfg[conf.loc] /\ At(F, conf.loc, said.loc)
      <4>1. conf.loc # NULL => V.f[conf.loc] = cfg[conf.loc]  BY ONLY <3>2, <1>13
      <4>2. conf.loc # NULL => At(F, conf.loc, said.loc)  BY <3>2, <1>23
      <4> QED  BY ONLY <4>1, <4>2
    <3>4. conf.loc \notin {s, a} /\ (conf.loc = NULL => said.loc = <<>>)
      BY <1>4, <3>1 DEF ConfOK, s
    <3>5. Says(F, a, o \o g)  BY <1>13, <1>14 DEF Says
    <3> QED  BY ONLY <1>7, <1>8, <1>13, <1>20, <3>1, <3>2, <3>3, <3>4, <3>5 DEF ConfOK
  <2>2. CASE where = "loc"
    <3>1. /\ conf'.dir = conf.dir /\ conf'.loc = a /\ conf'.srv = s
          /\ said'.dir = said.dir /\ said'.loc = o \o g /\ a # conf.dir
      BY <2>2, <1>9, <1>15, <1>16
    <3>2. /\ conf.dir \in Addrs /\ conf.dir # s /\ cfg[conf.dir].owner = "pconf"
          /\ Says(E, conf.dir, said.dir)
      BY <1>4 DEF ConfOK, s
    <3>3. Says(F, conf.dir, said.dir) /\ V.f[conf.dir] = cfg[conf.dir]
      <4>1. conf.dir \notin {a, s}  BY ONLY <3>1, <3>2
      <4>2. V.f[conf.dir] = cfg[conf.dir]  BY ONLY <3>2, <4>1, <1>13
      <4>3. Says(F, conf.dir, said.dir)  BY <3>2, <4>1, <1>23
      <4> QED  BY ONLY <4>2, <4>3
    <3>4. V.f[a] = [owner |-> "pconf", server |-> TRUE]
      BY <2>2, <1>13, <1>21, <1>22
    <3>5. a # NULL  BY <1>8, Distinct
    <3> QED  BY ONLY <1>7, <1>8, <1>13, <1>14, <1>20, <3>1, <3>2, <3>3, <3>4, <3>5
             DEF ConfOK
  <2> QED  BY <2>1, <2>2
<1>25. \A b \in Addrs : V.f[b].owner \in {NULL, "pconf"}
    BY <1>4, <1>13 DEF Starting
<1>26. Starting'
    BY <1>1, <1>3, <1>4, <1>17, <1>24, <1>25 DEF Starting, F
<1> QED  BY <1>1, <1>19, <1>26 DEF MInv

\* The module is added, or the server does not start.
LEMMA ModuleAddKeeps ==
    ASSUME MInv, NEW c \in Cmds, NEW merge \in BOOLEAN, ModuleAdd(c, merge)
    PROVE  MInv'
<1>1. /\ stage = "start" /\ UNCHANGED <<threaded, said, table, atStart, idle, req>>
    BY DEF ModuleAdd
<1>2. TypesOK /\ Starting  BY <1>1 DEF MInv
<1>3. CASE ~AddCmds(c)
  <2>1. stage' = "exited" /\ UNCHANGED <<cmd, cfg, conf>>  BY <1>3 DEF ModuleAdd
  <2>2. TypesOK'  BY <1>1, <1>2, <2>1 DEF TypesOK
  <2>3. Starting'  BY <1>1, <1>2, <2>1 DEF Starting
  <2> QED  BY <2>1, <2>2, <2>3 DEF MInv
<1>4. CASE AddCmds(c)
  <2>1. stage' = "config" /\ cmd' = [args |-> CmdLookup[ArgsHow(c)], merge |-> merge]
    BY <1>4 DEF ModuleAdd
  <2>2. PICK a \in Alloc, b \in Lowest(Addrs \ Alloc) :
          /\ conf' = [srv |-> a, dir |-> b, loc |-> NULL]
          /\ cfg' = [cfg EXCEPT ![a].owner = "pconf", ![b].owner = "pconf"]
    BY <1>4 DEF ModuleAdd
  <2>3. a \in Addrs /\ b \in Addrs /\ a # b  BY DEF Alloc, Lowest
  <2>4. /\ cfg' \in CfgSet /\ cfg'[a].owner = "pconf" /\ cfg'[b].owner = "pconf"
        /\ \A x \in Addrs : x \notin {a, b} => cfg'[x] = cfg[x]
    <3> DEFINE f == [cfg EXCEPT ![a].owner = "pconf"]
    <3>1. cfg \in CfgSet  BY <1>2 DEF TypesOK
    <3>2. cfg' = [f EXCEPT ![b].owner = "pconf"]  BY ONLY <2>2
    <3>3. f \in CfgSet /\ f[a].owner = "pconf" /\ \A x \in Addrs : x # a => f[x] = cfg[x]
      BY ONLY <2>3, <3>1 DEF CfgSet, Owners
    <3> HIDE DEF f
    <3>4. cfg' \in CfgSet /\ cfg'[b].owner = "pconf" /\ \A x \in Addrs : x # b => cfg'[x] = f[x]
      BY ONLY <2>3, <3>2, <3>3 DEF CfgSet, Owners
    <3> QED  BY ONLY <2>3, <3>3, <3>4
  <2>5. CmdLookup[ArgsHow(c)] \in 0 .. 3
    BY <1>4 DEF AddCmds, CmdLookup
  <2>6. TypesOK'
    BY <1>1, <1>2, <2>1, <2>2, <2>3, <2>4, <2>5 DEF TypesOK
  <2>7. /\ Entries(table["parent"]) = {} /\ said = [dir |-> <<>>, loc |-> <<>>]
    BY <1>1, <1>2, NewTable DEF Starting, Interps
  <2>8. ConfOK(conf', said, cfg', {})
    BY <2>2, <2>3, <2>4, <2>7, Distinct DEF ConfOK, Says, Nothing
  <2>9. \A x \in Addrs : cfg'[x].owner \in {NULL, "pconf"}
    BY <1>2, <2>4 DEF Starting
  <2>10. Starting'
    BY <1>1, <1>2, <2>1, <2>7, <2>8, <2>9 DEF Starting
  <2> QED  BY <2>1, <2>6, <2>10 DEF MInv
<1> QED  BY <1>3, <1>4

\* Before the module is added there is nothing.
LEMMA MInit ==
    ASSUME ModulesInit
    PROVE  MInv
<1>1. NoReq \in ReqSet  BY NoReqFacts
<1>2. TypesOK
  <2>1. cfg \in CfgSet  BY DEF ModulesInit, CfgSet, Owners, Free
  <2>2. said \in [dir : Texts, loc : Texts]  BY Distinct DEF ModulesInit
  <2>3. req \in [Threads -> ReqSet]  BY <1>1 DEF ModulesInit
  <2>4. table = [i \in Interps |-> table[i]] /\ \A i \in Interps : table[i] = NoTable
    BY DEF ModulesInit
  <2> QED  BY <2>1, <2>2, <2>3, <2>4 DEF ModulesInit, TypesOK
<1>3. Starting  BY Distinct DEF ModulesInit, Starting, Free
<1> QED  BY <1>2, <1>3 DEF MInv, ModulesInit

\* Requests are only served once the configuration has been read.
LEMMA RequestStage ==
    ASSUME MInv, NEW t \in Threads, req[t] # NoReq
    PROVE  stage = "serving"
BY DEF MInv, Starting

\* Every step keeps the invariant.
LEMMA MStep ==
    ASSUME MInv, [ModulesNext]_mvars
    PROVE  MInv'
<1>1. ASSUME NEW c \in Cmds, NEW merge \in BOOLEAN, ModuleAdd(c, merge) PROVE MInv'
    BY <1>1, ModuleAddKeeps
<1>2. ASSUME NEW where \in {"dir", "loc"}, NEW v \in Args, Directive(where, v) PROVE MInv'
    BY <1>2, DirectiveKeeps
<1>3. ASSUME InitClones PROVE MInv'  BY <1>3, InitClonesKeeps
<1>4. ASSUME NEW i \in Clones, Replace(i) PROVE MInv'  BY <1>4, ReplaceKeeps
<1>5. ASSUME NEW t \in Threads, Begin(t) PROVE MInv'  BY <1>5, BeginKeeps
<1>6. ASSUME NEW t \in Threads, RequestStep(t) PROVE MInv'
  <2>1. req[t].at \in {"walk", "ending"}
    BY <1>6 DEF RequestStep, HtDirective, HtError, MergeSection, Handler, PoolCleanup,
                PoolFreed
  <2>2. stage = "serving"  BY <2>1, NoReqFacts, RequestStage
  <2>3. ASSUME NEW v \in Args, HtDirective(t, v) PROVE MInv'
    BY <2>2, <2>3, HtDirectiveKeeps
  <2>4. ASSUME HtError(t) PROVE MInv'  BY <2>2, <2>4, HtErrorKeeps
  <2>5. ASSUME NEW dies \in BOOLEAN, MergeSection(t, dies) PROVE MInv'
    BY <2>2, <2>5, MergeKeeps
  <2>6. ASSUME Handler(t) PROVE MInv'  BY <2>2, <2>6, HandlerKeeps
  <2>7. ASSUME PoolCleanup(t) PROVE MInv'  BY <2>2, <2>7, PoolCleanupKeeps
  <2>8. ASSUME PoolFreed(t) PROVE MInv'  BY <2>2, <2>8, PoolFreedKeeps
  <2> QED  BY <1>6, <2>3, <2>4, <2>5, <2>6, <2>7, <2>8, Zenon DEF RequestStep
<1>7. ASSUME UNCHANGED mvars PROVE MInv'
    BY <1>7 DEF mvars, MInv, TypesOK, Serving, Starting
<1> QED  BY <1>1, <1>2, <1>3, <1>4, <1>5, <1>6, <1>7 DEF ModulesNext

\* The invariant holds in every reachable state.
LEMMA MInvariant == ModulesSpec => []MInv
<1>1. ModulesInit => MInv  BY MInit
<1>2. MInv /\ [ModulesNext]_mvars => MInv'  BY MStep
<1> QED  BY <1>1, <1>2, PTL DEF ModulesSpec

-----------------------------------------------------------------------------
(* The theorems.                                                           *)

\* The pointer table of every interpreter is at all times what the functions of
\* modperl_svptr_table.c rely on: every entry is in the bucket of its address, no
\* address is there twice, and tbl_items counts the entries.
THEOREM ModulesTypeCorrect == ModulesSpec => []ModulesTypeOK
<1>1. MInv => ModulesTypeOK
  <2> SUFFICES ASSUME MInv PROVE ModulesTypeOK  OBVIOUS
  <2>1. TypesOK  BY DEF MInv
  <2>2. ASSUME NEW i \in Interps
        PROVE  LET T == table[i] IN
               /\ \A b \in DOMAIN T.ary : \A e \in T.ary[b] : e[1] % (T.max + 1) = b
               /\ \A e, f \in Entries(T) : e[1] = f[1] => e = f
               /\ T.items = Cardinality(Entries(T))
    <3>1. CASE table[i] = NoTable
      <4>1. NoTable.items = 0 /\ DOMAIN NoTable.ary = {}  BY DEF NoTable
      <4>2. Entries(NoTable) = {} /\ Cardinality({}) = 0  BY NewTable, FS_EmptySet
      <4> QED  BY <3>1, <4>1, <4>2
    <3>2. CASE TableOK(table[i])
      <4>1. \A e, f \in Entries(table[i]) : e[1] = f[1] => e = f  BY <3>2, EntryFacts
      <4> QED  BY <3>2, <4>1 DEF TableOK
    <3> QED  BY <2>1, <3>1, <3>2 DEF TypesOK
  <2> QED  BY <2>1, <2>2 DEF TypesOK, ModulesTypeOK
<1> QED  BY <1>1, MInvariant, PTL

\* get_config returns to every handler what the directives of its sections say, in
\* any interpreter, although tables outlive requests and addresses are used again
\* (modperl_module_config_get_obj, modperl_module_config_merge).
THEOREM ConfigSeenHolds == ModulesSpec => []ConfigSeen
<1>1. MInv => ConfigSeen
  <2> SUFFICES ASSUME MInv, NEW t \in Threads PROVE GotOK(req[t])
    BY DEF ConfigSeen, GotOK
  <2>1. CASE stage = "serving"  BY <2>1 DEF MInv, Serving, ReqOK
  <2>2. CASE stage # "serving"  BY <2>2 DEF MInv, Starting, NoReq, GotOK
  <2> QED  BY <2>1, <2>2
<1> QED  BY <1>1, MInvariant, PTL

\* An idle interpreter, and the parent while clones are made from it, has the
\* objects of the configuration and no others: the cleanups of a request remove
\* exactly what it added (modperl_module_config_obj_cleanup).
THEOREM TablesRestoredHolds == ModulesSpec => []TablesRestored
<1>1. MInv => TablesRestored
  <2> SUFFICES ASSUME MInv, stage = "serving" PROVE TablesRestored
    BY DEF TablesRestored
  <2>1. Serving /\ NoReq.cleanups = <<>>  BY NoReqFacts DEF MInv
  <2>2. threaded \/ req[First] = NoReq => Entries(table["parent"]) = atStart
    BY <2>1 DEF Serving
  <2>3. \A i \in idle : Entries(table[i]) = atStart  BY <2>1 DEF Serving
  <2> QED  BY <2>2, <2>3 DEF TablesRestored
<1> QED  BY <1>1, MInvariant, PTL

=============================================================================
