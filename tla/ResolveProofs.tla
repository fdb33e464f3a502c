--------------------------- MODULE ResolveProofs ---------------------------
(***************************************************************************)
(* Proofs about Resolve: for any packages, names, filters, interpreters    *)
(* and clones, a callback calls the sub its directive names or none, it    *)
(* does call one wherever the name may be relied on, every filter gets     *)
(* into the chain once and at its level, and the handler structures that   *)
(* threads share are not written while they serve.                         *)
(***************************************************************************)
EXTENDS Resolve, Induction, FiniteSetTheorems

-----------------------------------------------------------------------------
(* The inductive invariant.                                                *)

\* An interpreter has loaded only what can be loaded, and knows the anonymous
\* subs of the ids handed out so far, n of them.
PerlOK(P, n) ==
    /\ P \in PerlType
    /\ P.loaded \subseteq P.stash
    /\ \A p \in P.loaded : Code[p].loads
    /\ P.anon \subseteq 1 .. n

\* A handler structure is empty, or filled in with what its name denotes.
HandlerOK(h) ==
    /\ h \in HandlerType
    /\ ~h.parsed => ~h.anon /\ h.cv = NULL /\ h.next = NULL
    /\ h.parsed => /\ h.anon <=> h.cv = NULL
                   /\ h.anon <=> h.name.kind = "anon"
                   /\ h.cv = Denotes(h.name)
    /\ h.method /\ h.parsed => h.obj # NoObj
    /\ h.name.kind \in {"func", "anon"} => ~h.method
    /\ h.next # NULL => "hasinit" \in h.attrs

\* The structures of the configuration C.
ConfOK(C) ==
    /\ C \in [Slots -> HandlerType]
    /\ \A id \in Slots : HandlerOK(C[id])
    /\ \A id \in {"h1", "h2"} : C[id].name \in SubNames \cup {NoName}

\* A chain has filters that are configured, with configuration C, and one that
\* was added at run time.
ChainOK(c, C) ==
    /\ c \in Seq(EntryType)
    /\ \A k \in 1 .. Len(c) :
         IF c[k].id = "rt"
         THEN HandlerOK(c[k].h) /\ c[k].h.name.kind = "func"
         ELSE C[c[k].id].name # NoName

ConnOK(c, C) ==
    /\ c \in ConnType
    /\ c.on # "no" => c.s \in Servers /\ c.i \in Interps
    /\ ChainOK(c.chain, C)

NamedInv ==
    /\ opt \in [threaded : BOOLEAN, parent : BOOLEAN, autoload : BOOLEAN]
    /\ stage \in {"main", "vhost", "clone", "serving", "exited"}
    /\ ConfOK(conf)
    /\ perl \in [Interps -> PerlType]
    /\ count \in Nat
    /\ \A i \in Interps : PerlOK(perl[i], count)
    /\ call \in CallType \cup {NoCall}
    /\ CallsNamedSub
    /\ ConnOK(conn, conf)

-----------------------------------------------------------------------------
(* Interpreters.                                                           *)

\* An interpreter stays well formed when more ids have been handed out.
LEMMA PerlLater ==
    ASSUME NEW P, NEW n \in Nat, NEW m \in Nat, n <= m, PerlOK(P, n)
    PROVE  PerlOK(P, m)
<1>1. 1 .. n \subseteq 1 .. m
  OBVIOUS
<1> QED BY <1>1 DEF PerlOK

\* modperl_require_module loads a package with its base class, or nothing.
LEMMA RequireOK ==
    ASSUME NEW P, NEW n, PerlOK(P, n), NEW p \in Packages
    PROVE  PerlOK(Require(P, p), n)
<1> DEFINE W == WithIsa(p)
<1>1. W \subseteq Packages /\ p \in W
  BY DEF WithIsa
<1>2. ASSUME Code[p].loads, NEW q \in W PROVE Code[q].loads
  BY <1>2, ResolveAssumption DEF WithIsa
<1>3. CASE Code[p].loads
  <2> HIDE DEF W
  <2>1. Require(P, p) = [P EXCEPT !.loaded = @ \cup W, !.stash = @ \cup W]
    BY <1>3 DEF Require, W
  <2> QED BY <1>1, <1>2, <1>3, <2>1 DEF PerlOK, PerlType
<1>4. CASE ~Code[p].loads
  BY <1>4 DEF Require, PerlOK, PerlType
<1> QED BY <1>3, <1>4

\* modperl_mgv_lookup_autoload
LEMMA AutoloadOK ==
    ASSUME NEW P, NEW n, PerlOK(P, n), NEW s, NEW q \in Packages
    PROVE  PerlOK(LookupAutoload(s, P, q), n)
BY RequireOK DEF LookupAutoload

\* gv_fetchmethod finds the sub that the name of a class, a method or an object
\* denotes.
LEMMA FetchMethodDenotes ==
    ASSUME NEW P, NEW n, PerlOK(P, n), NEW name \in SubNames,
           name.kind \notin {"anon", "func"},
           FetchMethod(P, name.pkg) # NULL
    PROVE  /\ FetchMethod(P, name.pkg) \in Packages
           /\ FetchMethod(P, name.pkg) = Denotes(name)
<1> DEFINE p == name.pkg
<1>1. p \in Packages
  BY DEF SubNames
<1>2. p \in P.loaded /\ Code[p].loads
  BY DEF FetchMethod, PerlOK
<1>3. Code[p].isa \in Packages \cup {NULL}
  BY <1>1, ResolveAssumption
<1> QED BY <1>1, <1>2, <1>3 DEF FetchMethod, Denotes

-----------------------------------------------------------------------------
(* modperl_mgv_resolve.                                                    *)

\* A result r of looking up a structure with this name, when n ids had been
\* handed out before.
ResOK(r, name, n) ==
    /\ r.st \in {"0", "1", "croak"}
    /\ HandlerOK(r.h) /\ r.h.name = name
    /\ r.st = "1" => r.h.parsed
    /\ r.n \in Nat /\ n <= r.n
    /\ PerlOK(r.P, r.n)

LEMMA ResIs ==
    ASSUME NEW st \in {"0", "1", "croak"}, NEW h, HandlerOK(h), NEW P,
           NEW n \in Nat, NEW m \in Nat, m <= n, PerlOK(P, n),
           st = "1" => h.parsed
    PROVE  ResOK(Res(st, h, P, n), h.name, m)
BY DEF ResOK, Res

\* A new structure is empty.
LEMMA NewHandlerOK ==
    ASSUME NEW name \in NameType, NEW prefix \in Prefixes
    PROVE  /\ HandlerOK(NewHandler(name, prefix))
           /\ ~NewHandler(name, prefix).parsed
           /\ NewHandler(name, prefix).name = name
<1> DEFINE h == NewHandler(name, prefix)
<1>1. NoObj \in ObjType
  BY DEF NoObj, ObjType
<1>2. (prefix = "+") \in BOOLEAN
  OBVIOUS
<1>3. h \in HandlerType
  BY <1>1, <1>2 DEF NewHandler, HandlerType
<1>4. /\ h.name = name /\ h.parsed = FALSE /\ h.anon = FALSE /\ h.cv = NULL
      /\ h.next = NULL /\ h.method = FALSE
  BY DEF NewHandler
<1> HIDE DEF h
<1>5. HandlerOK(h)
  BY <1>3, <1>4 DEF HandlerOK
<1> QED BY <1>4, <1>5 DEF h

\* An empty structure may be called a method, be given an object and be marked
\* for loading its module, and is still empty.
LEMMA PreparedOK ==
    ASSUME NEW h, HandlerOK(h), ~h.parsed, NEW g \in HandlerType,
           ~g.parsed, ~g.anon, g.cv = NULL, g.next = NULL, g.name = h.name,
           g.name.kind \in {"func", "anon"} => ~g.method
    PROVE  HandlerOK(g)
BY DEF HandlerOK

LEMMA AutoOK ==
    ASSUME NEW h, HandlerOK(h), ~h.parsed, NEW b \in BOOLEAN, NEW g,
           g = [h EXCEPT !.auto = b]
    PROVE  HandlerOK(g) /\ ~g.parsed /\ g.name = h.name
<1>1. h \in HandlerType
  BY DEF HandlerOK
<1>2. g \in HandlerType
  BY <1>1 DEF HandlerType
<1>3. /\ g.parsed = h.parsed /\ g.anon = h.anon /\ g.cv = h.cv
      /\ g.next = h.next /\ g.name = h.name /\ g.method = h.method
  BY <1>1 DEF HandlerType
<1>4. ~h.anon /\ h.cv = NULL /\ h.next = NULL
      /\ (h.name.kind \in {"func", "anon"} => ~h.method)
  BY DEF HandlerOK
<1>5. HandlerOK(g)
  BY <1>2, <1>3, <1>4, PreparedOK
<1> QED BY <1>3, <1>5

\* The sub has been found in package q, the one the name denotes.
LEMMA FoundOK ==
    ASSUME NEW h, HandlerOK(h), ~h.parsed, h.name.kind # "anon", NEW P,
           NEW n \in Nat, PerlOK(P, n), NEW q \in Packages,
           q = Denotes(h.name), h.method => h.obj # NoObj
    PROVE  ResOK(Found(h, P, n, q), h.name, n)
<1> DEFINE g == [h EXCEPT !.attrs = AttrsOf(q), !.cv = q, !.parsed = TRUE]
           k == [g EXCEPT !.next = q]
<1>1. AttrsOf(q) \in SUBSET {"conn", "req", "hasinit", "httpd"}
  BY ResolveAssumption DEF AttrsOf
<1>2. h \in HandlerType
  BY DEF HandlerOK
<1>3. g \in HandlerType
  <2>1. [h EXCEPT !.attrs = AttrsOf(q), !.cv = q] \in HandlerType
    BY <1>1, <1>2 DEF HandlerType
  <2> QED BY <1>1, <1>2 DEF HandlerType
<1>4. /\ g.name = h.name /\ g.parsed = TRUE /\ g.anon = h.anon /\ g.cv = q
      /\ g.next = h.next /\ g.method = h.method /\ g.obj = h.obj
      /\ g.attrs = AttrsOf(q)
  BY <1>2 DEF HandlerType
<1>5. k \in HandlerType
  <2> HIDE DEF g
  <2> QED BY <1>3 DEF HandlerType
<1>6. /\ k.name = h.name /\ k.parsed = TRUE /\ k.anon = h.anon /\ k.cv = q
      /\ k.next = q /\ k.method = h.method /\ k.obj = h.obj
      /\ k.attrs = AttrsOf(q)
  <2> HIDE DEF g
  <2> QED BY <1>3, <1>4 DEF HandlerType
<1>7. /\ ~h.anon /\ h.next = NULL /\ q # NULL
      /\ h.name.kind \in {"func", "anon"} => ~h.method
  BY ResolveAssumption DEF HandlerOK
<1> HIDE DEF g, k
<1>8. HandlerOK(g)
  BY <1>3, <1>4, <1>7 DEF HandlerOK
<1>9. "hasinit" \in AttrsOf(q) => HandlerOK(k)
  BY <1>5, <1>6, <1>7 DEF HandlerOK
<1>10. ResOK(Res("1", g, P, n), g.name, n) /\ ResOK(Res("croak", g, P, n), g.name, n)
  BY <1>4, <1>8, ResIs
<1>11. "hasinit" \in AttrsOf(q) => ResOK(Res("1", k, P, n), k.name, n)
  BY <1>6, <1>9, ResIs
<1>12. \/ Found(h, P, n, q) = Res("1", g, P, n)
       \/ Found(h, P, n, q) = Res("croak", g, P, n)
       \/ "hasinit" \in AttrsOf(q) /\ Found(h, P, n, q) = Res("1", k, P, n)
  <2>1. Found(h, P, n, q) = DeepResolve(g, P, n)
    BY DEF Found, g
  <2>2. k = [g EXCEPT !.next = g.cv]
    BY <1>4 DEF k
  <2> QED BY <1>4, <2>1, <2>2 DEF DeepResolve
<1> QED BY <1>4, <1>6, <1>10, <1>11, <1>12

\* The end of the function, for a package p whose sub is looked for in q.
LEMMA ResolveMethodOK ==
    ASSUME NEW h, HandlerOK(h), ~h.parsed, h.name \in SubNames,
           h.name.kind \notin {"anon", "func"}, NEW P, NEW n \in Nat,
           PerlOK(P, n)
    PROVE  ResOK(ResolveMethod(h, P, n, h.name.pkg, FetchMethod(P, h.name.pkg)),
                 h.name, n)
<1> DEFINE p == h.name.pkg
           q == FetchMethod(P, p)
           m == h.method \/ Code[q].method
           g == WithClass(h, p, m)
           o == IF m /\ h.obj = NoObj
                THEN [kind |-> "class", pkg |-> p, id |-> 0] ELSE h.obj
<1>1. h \in HandlerType
  BY DEF HandlerOK
<1>2. CASE q = NULL
  <2>1. ResolveMethod(h, P, n, p, q) = Res(IF h.auto THEN "croak" ELSE "0", h, P, n)
    BY <1>2 DEF ResolveMethod
  <2>2. CASE h.auto
    <3>1. ResOK(Res("croak", h, P, n), h.name, n)
      BY ResIs
    <3> QED BY <2>1, <2>2, <3>1
  <2>3. CASE ~h.auto
    <3>1. ResOK(Res("0", h, P, n), h.name, n)
      BY ResIs
    <3> QED BY <2>1, <2>3, <3>1
  <2> QED BY <2>2, <2>3
<1>3. CASE q # NULL
  <2>1. q \in Packages /\ q = Denotes(h.name)
    BY <1>3, FetchMethodDenotes
  <2>2. p \in Packages
    BY DEF SubNames
  <2>3. m \in BOOLEAN
    BY <1>1, <2>1, ResolveAssumption DEF HandlerType
  <2>4. o \in ObjType
    BY <1>1, <2>2 DEF HandlerType, ObjType
  <2>5. g = [h EXCEPT !.method = m, !.obj = o]
    <3> HIDE DEF m
    <3> QED BY <1>1 DEF WithClass, HandlerType
  <2>6. ResolveMethod(h, P, n, p, q) = Found(g, P, n, q)
    BY <1>3 DEF ResolveMethod
  <2>7. m => o # NoObj
    <3>1. [kind |-> "class", pkg |-> p, id |-> 0] # NoObj
      BY DEF NoObj
    <3> HIDE DEF m, p
    <3> QED BY <3>1
  <2> HIDE DEF m, o, g
  <2>8. g \in HandlerType
    BY <1>1, <2>3, <2>4, <2>5 DEF HandlerType
  <2>9. /\ g.name = h.name /\ g.parsed = h.parsed /\ g.anon = h.anon
        /\ g.cv = h.cv /\ g.next = h.next /\ g.method = m /\ g.obj = o
    BY <1>1, <2>5 DEF HandlerType
  <2>10. ~h.anon /\ h.cv = NULL /\ h.next = NULL
    BY DEF HandlerOK
  <2>11. HandlerOK(g)
    BY <2>8, <2>9, <2>10, PreparedOK
  <2>12. g.method => g.obj # NoObj
    BY <2>7, <2>9
  <2>13. ResOK(Found(g, P, n, q), g.name, n)
    BY <2>1, <2>9, <2>11, <2>12, FoundOK
  <2> QED BY <2>6, <2>9, <2>13
<1> QED BY <1>2, <1>3

\* A package name.
LEMMA ResolvePackageOK ==
    ASSUME NEW h, HandlerOK(h), ~h.parsed, h.name \in SubNames,
           h.name.kind \notin {"anon", "func"}, NEW P, NEW n \in Nat,
           PerlOK(P, n), NEW log \in BOOLEAN, NEW seen \in BOOLEAN
    PROVE  ResOK(ResolvePackage(h, P, n, log, seen), h.name, n)
<1> DEFINE p == h.name.pkg
           load == ~seen /\ h.auto /\ p \notin P.loaded
           Q == IF load THEN Require(P, p) ELSE P
<1>1. p \in Packages
  BY DEF SubNames
<1>2. PerlOK(Q, n)
  BY <1>1, RequireOK
<1>3. ResolvePackage(h, P, n, log, seen) = InStash(h, Q, n, log, load, p)
  BY DEF ResolvePackage
<1> HIDE DEF load, Q
<1>4. ResOK(Res("croak", h, Q, n), h.name, n)
  BY <1>2, ResIs
<1>5. ResOK(Res("0", h, Q, n), h.name, n)
  BY <1>2, ResIs
<1>6. ResOK(ResolveMethod(h, Q, n, p, FetchMethod(Q, p)), h.name, n)
  BY <1>2, ResolveMethodOK
<1>7. InStash(h, Q, n, log, load, p) \in
         {Res("croak", h, Q, n), Res("0", h, Q, n),
          ResolveMethod(h, Q, n, p, FetchMethod(Q, p))}
  BY DEF InStash
<1> QED BY <1>3, <1>4, <1>5, <1>6, <1>7

\* 'sub { ... }'
LEMMA ResolveAnonOK ==
    ASSUME NEW h, HandlerOK(h), ~h.parsed, h.name \in SubNames,
           h.name.kind = "anon", NEW P, NEW n \in Nat, PerlOK(P, n)
    PROVE  ResOK(ResolveAnon(h, P, n), h.name, n)
<1> DEFINE o == [kind |-> "anon", pkg |-> NULL, id |-> n + 1]
           g == [h EXCEPT !.parsed = TRUE, !.anon = TRUE, !.obj = o]
           Q == [P EXCEPT !.anon = @ \cup {n + 1}]
<1>1. h \in HandlerType /\ o \in ObjType
  BY DEF HandlerOK, ObjType
<1>2. g \in HandlerType
  <2> HIDE DEF o
  <2> QED BY <1>1 DEF HandlerType
<1>3. /\ g.name = h.name /\ g.parsed = TRUE /\ g.anon = TRUE /\ g.cv = h.cv
      /\ g.next = h.next /\ g.method = h.method
  <2> HIDE DEF o
  <2> QED BY <1>1 DEF HandlerType
<1>4. ~h.method /\ h.cv = NULL /\ h.next = NULL
  BY DEF HandlerOK
<1>5. Denotes(h.name) = NULL
  BY DEF Denotes
<1>6. PerlOK(Q, n + 1)
  <2>1. 1 .. n \subseteq 1 .. n + 1 /\ n + 1 \in 1 .. n + 1
    OBVIOUS
  <2>2. Q \in PerlType /\ Q.loaded = P.loaded /\ Q.stash = P.stash
        /\ Q.anon = P.anon \cup {n + 1}
    BY DEF PerlOK, PerlType
  <2> HIDE DEF Q
  <2> QED BY <2>1, <2>2 DEF PerlOK
<1>7. ResolveAnon(h, P, n) = Res("1", g, Q, n + 1)
  BY DEF ResolveAnon, AnonNext, AnonAdd
<1> HIDE DEF g, Q
<1>8. HandlerOK(g)
  BY <1>2, <1>3, <1>4, <1>5 DEF HandlerOK
<1>9. ResOK(Res("1", g, Q, n + 1), g.name, n)
  <2>1. n + 1 \in Nat /\ n <= n + 1
    OBVIOUS
  <2> QED BY <1>3, <1>6, <1>8, <2>1, ResIs
<1> QED BY <1>3, <1>7, <1>9

\* The object of "$Pkg::obj->handler".
LEMMA ObjectOK ==
    ASSUME NEW h, HandlerOK(h), ~h.parsed, h.name \in SubNames,
           h.name.kind = "object", NEW g,
           g = [h EXCEPT !.method = TRUE,
                         !.obj = [kind |-> "var", pkg |-> h.name.pkg, id |-> 0]]
    PROVE  HandlerOK(g) /\ ~g.parsed /\ g.name = h.name
<1> DEFINE o == [kind |-> "var", pkg |-> h.name.pkg, id |-> 0]
<1>1. h \in HandlerType
  BY DEF HandlerOK
<1>2. o \in ObjType
  <2>1. h.name.pkg \in Packages
    BY DEF SubNames
  <2> QED BY <2>1 DEF ObjType
<1>3. g = [h EXCEPT !.method = TRUE, !.obj = o]
  OBVIOUS
<1> HIDE DEF o
<1>4. g \in HandlerType
  BY <1>1, <1>2, <1>3 DEF HandlerType
<1>5. /\ g.name = h.name /\ g.parsed = h.parsed /\ g.anon = h.anon
      /\ g.cv = h.cv /\ g.next = h.next
  BY <1>1, <1>3 DEF HandlerType
<1>6. ~h.anon /\ h.cv = NULL /\ h.next = NULL
  BY DEF HandlerOK
<1>7. HandlerOK(g)
  BY <1>4, <1>5, <1>6, PreparedOK
<1> QED BY <1>5, <1>7

\* A name "Pkg->handler" is a method.
LEMMA MethodOK ==
    ASSUME NEW h, HandlerOK(h), ~h.parsed,
           h.name.kind \in {"class", "method"}, NEW b \in BOOLEAN, NEW g,
           g = [h EXCEPT !.method = b]
    PROVE  HandlerOK(g) /\ ~g.parsed /\ g.name = h.name
<1>1. h \in HandlerType
  BY DEF HandlerOK
<1>2. g \in HandlerType
  BY <1>1 DEF HandlerType
<1>3. /\ g.name = h.name /\ g.parsed = h.parsed /\ g.anon = h.anon
      /\ g.cv = h.cv /\ g.next = h.next
  BY <1>1 DEF HandlerType
<1>4. ~h.anon /\ h.cv = NULL /\ h.next = NULL
  BY DEF HandlerOK
<1>5. HandlerOK(g)
  BY <1>2, <1>3, <1>4, PreparedOK
<1> QED BY <1>3, <1>5

\* modperl_mgv_resolve
LEMMA ResolveOK ==
    ASSUME NEW h, HandlerOK(h), ~h.parsed, h.name \in SubNames, NEW P,
           NEW n \in Nat, PerlOK(P, n), NEW log \in BOOLEAN
    PROVE  ResOK(Resolve(h, P, n, log), h.name, n)
<1> DEFINE p == h.name.pkg
           o == [h EXCEPT !.method = TRUE,
                          !.obj = [kind |-> "var", pkg |-> p, id |-> 0]]
<1>1. ~h.anon
  BY DEF HandlerOK
<1>2. h.name.kind \in {"class", "method", "func", "object", "anon"}
  BY DEF SubNames
<1>3. CASE h.name.kind = "anon"
  <2>1. Resolve(h, P, n, log) = ResolveAnon(h, P, n)
    BY <1>1, <1>3 DEF Resolve
  <2> QED BY <1>3, <2>1, ResolveAnonOK
<1>4. CASE h.name.kind \in {"class", "method"}
  <2> DEFINE method == h.name.kind = "method"
             b == h.method \/ method
             g == [h EXCEPT !.method = b]
             seen == method /\ p \in P.stash
  <2>1. Resolve(h, P, n, log) = ResolvePackage(g, P, n, log, seen)
    BY <1>1, <1>4 DEF Resolve
  <2>2. b \in BOOLEAN /\ seen \in BOOLEAN
    BY DEF HandlerOK, HandlerType
  <2> HIDE DEF b, seen
  <2>3. HandlerOK(g) /\ ~g.parsed /\ g.name = h.name
    BY <1>4, <2>2, MethodOK
  <2> HIDE DEF g
  <2>4. ResOK(ResolvePackage(g, P, n, log, seen), g.name, n)
    BY <1>4, <2>2, <2>3, ResolvePackageOK
  <2> QED BY <2>1, <2>3, <2>4
<1>5. CASE h.name.kind = "object"
  <2>1. HandlerOK(o) /\ ~o.parsed /\ o.name = h.name
    BY <1>5, ObjectOK
  <2>2. Resolve(h, P, n, log) \in
          {ResolveMethod(o, P, n, p, FetchMethod(P, p)), Res("0", o, P, n)}
    BY <1>1, <1>5 DEF Resolve
  <2> HIDE DEF o
  <2>3. ResOK(ResolveMethod(o, P, n, o.name.pkg, FetchMethod(P, o.name.pkg)),
              o.name, n)
    BY <1>5, <2>1, ResolveMethodOK
  <2>4. ResOK(Res("0", o, P, n), o.name, n)
    BY <2>1, ResIs
  <2> QED BY <2>1, <2>2, <2>3, <2>4
<1>6. CASE h.name.kind = "func"
  <2>1. CASE p \in P.loaded /\ Code[p].sub
    <3>1. p \in Packages /\ p = Denotes(h.name)
      BY <1>6, <2>1 DEF PerlOK, PerlType, Denotes
    <3>2. ~h.method
      BY <1>6 DEF HandlerOK
    <3>3. ResOK(Found(h, P, n, p), h.name, n)
      BY <1>6, <3>1, <3>2, FoundOK
    <3>4. Resolve(h, P, n, log) = Found(h, P, n, p)
      BY <1>1, <1>6, <2>1 DEF Resolve
    <3> QED BY <3>3, <3>4
  <2>2. CASE ~(p \in P.loaded /\ Code[p].sub)
    <3>1. ResOK(Res("croak", h, P, n), h.name, n)
      BY ResIs
    <3>2. ResOK(Res("0", h, P, n), h.name, n)
      BY ResIs
    <3>3. Resolve(h, P, n, log) \in {Res("croak", h, P, n), Res("0", h, P, n)}
      BY <1>1, <1>6, <2>2 DEF Resolve
    <3> QED BY <3>1, <3>2, <3>3
  <2> QED BY <2>1, <2>2
<1> QED BY <1>2, <1>3, <1>4, <1>5, <1>6

-----------------------------------------------------------------------------
(* The lookup at startup.                                                  *)

\* What the loop body of modperl_hash_handlers leaves.
HashOK(r, name, n) ==
    /\ r.st \in {"0", "1", "croak"}
    /\ HandlerOK(r.h) /\ r.h.name = name
    /\ r.n \in Nat /\ n <= r.n
    /\ PerlOK(r.P, r.n)

LEMMA HashHandlerOK ==
    ASSUME opt \in [threaded : BOOLEAN, parent : BOOLEAN, autoload : BOOLEAN],
           NEW s, NEW h, HandlerOK(h), NEW P, NEW n \in Nat, PerlOK(P, n)
    PROVE  HashOK(HashHandler(s, h, P, n), h.name, n)
<1> DEFINE own == s = "vhost" /\ opt.parent
           b == h.auto \/ opt.autoload
           g == [h EXCEPT !.auto = b]
<1>1. h \in HandlerType /\ b \in BOOLEAN
  BY DEF HandlerOK, HandlerType
<1>2. ASSUME NEW st \in {"1", "croak"} PROVE HashOK(Res(st, h, P, n), h.name, n)
  BY <1>2 DEF HashOK, Res
<1>3. CASE h.name.kind \in {"httpd", "unset"}
  BY <1>2, <1>3 DEF HashHandler
<1>4. CASE h.name.kind \notin {"httpd", "unset"} /\ ~h.parsed
  <2>1. HashHandler(s, h, P, n) = Resolve(g, P, n, TRUE)
    BY <1>4 DEF HashHandler
  <2> HIDE DEF b
  <2>2. HandlerOK(g) /\ ~g.parsed /\ g.name = h.name
    BY <1>1, <1>4, AutoOK
  <2>3. h.name \in SubNames
    BY <1>1, <1>4 DEF HandlerType, NameType, HttpdNames, NoName
  <2> HIDE DEF g
  <2>4. ResOK(Resolve(g, P, n, TRUE), g.name, n)
    BY <2>2, <2>3, ResolveOK
  <2> QED BY <2>1, <2>2, <2>4 DEF ResOK, HashOK
<1>5. CASE h.name.kind \notin {"httpd", "unset"} /\ h.parsed
  <2>1. CASE h.anon
    <3>1. HashHandler(s, h, P, n) \in {Res("1", h, P, n), Res("croak", h, P, n)}
      BY <1>5, <2>1 DEF HashHandler
    <3> QED BY <1>2, <3>1
  <2>2. CASE ~h.anon
    <3>1. h.cv \in Packages
      BY <1>1, <1>5, <2>2 DEF HandlerOK, HandlerType
    <3>2. PerlOK(Require(P, h.cv), n)
      BY <3>1, RequireOK
    <3>3. HashOK(Res("1", h, Require(P, h.cv), n), h.name, n)
      BY <3>2 DEF HashOK, Res
    <3>4. HashHandler(s, h, P, n) \in
            {Res("1", h, P, n), Res("1", h, Require(P, h.cv), n)}
      BY <1>5, <2>2 DEF HashHandler
    <3> QED BY <1>2, <3>3, <3>4
  <2> QED BY <2>1, <2>2
<1> QED BY <1>3, <1>4, <1>5

\* What the walk over a configuration C has reached, with an interpreter and a
\* counter that was n.
Walked(C, n) ==
    {a \in [st : {"0", "1", "croak"}, conf : [Slots -> HandlerType],
            P : PerlType, n : Nat] :
       /\ ConfOK(a.conf)
       /\ \A id \in Slots : a.conf[id].name = C[id].name
       /\ PerlOK(a.P, a.n) /\ n <= a.n}

LEMMA VisitOK ==
    ASSUME opt \in [threaded : BOOLEAN, parent : BOOLEAN, autoload : BOOLEAN],
           NEW C, NEW n \in Nat, NEW a \in Walked(C, n), NEW id \in Slots,
           NEW s, NEW r, r = HashHandler(s, a.conf[id], a.P, a.n)
    PROVE  [st |-> r.st, conf |-> [a.conf EXCEPT ![id] = r.h],
            P |-> r.P, n |-> r.n] \in Walked(C, n)
<1>1. /\ ConfOK(a.conf) /\ PerlOK(a.P, a.n) /\ a.n \in Nat /\ n <= a.n
      /\ \A i \in Slots : a.conf[i].name = C[i].name
  BY DEF Walked
<1>2. HandlerOK(a.conf[id])
  BY <1>1 DEF ConfOK
<1>3. HashOK(r, a.conf[id].name, a.n)
  BY <1>1, <1>2, HashHandlerOK
<1> DEFINE D == [a.conf EXCEPT ![id] = r.h]
<1>4. /\ HandlerOK(r.h) /\ r.h \in HandlerType /\ r.h.name = a.conf[id].name
      /\ PerlOK(r.P, r.n) /\ r.P \in PerlType /\ r.n \in Nat /\ a.n <= r.n
      /\ r.st \in {"0", "1", "croak"}
  BY <1>3 DEF HashOK, HandlerOK, PerlOK
<1>5. D \in [Slots -> HandlerType]
      /\ \A i \in Slots : D[i] = IF i = id THEN r.h ELSE a.conf[i]
  BY <1>1, <1>4 DEF ConfOK
<1> HIDE DEF D
<1>6. ConfOK(D)
  BY <1>1, <1>4, <1>5 DEF ConfOK, Slots
<1>7. \A i \in Slots : D[i].name = C[i].name
  BY <1>1, <1>4, <1>5
<1>8. n <= r.n
  BY <1>1, <1>4
<1>9. [st |-> r.st, conf |-> D, P |-> r.P, n |-> r.n] \in Walked(C, n)
  BY <1>4, <1>5, <1>6, <1>7, <1>8 DEF Walked
<1> QED BY <1>9 DEF D

\* modperl_mgv_hash_handlers fills in a configuration and keeps its names.
LEMMA HashHandlersOK ==
    ASSUME NamedInv, NEW s \in Servers, HashHandlers(s)
    PROVE  \E end \in Walked(conf, count) :
              /\ conf' = end.conf
              /\ perl' = [perl EXCEPT ![ParentOf(s)] = end.P]
              /\ count' = end.n
              /\ stage' \in {"exited", "vhost", "clone"}
              /\ UNCHANGED <<opt, call, conn>>
<1> DEFINE i == ParentOf(s)
           S == Walked(conf, count)
           e == [st |-> "1", conf |-> conf, P |-> perl[i], n |-> count]
           Filled(acc, id, r) == [st |-> r.st, conf |-> [acc.conf EXCEPT ![id] = r.h],
                                  P |-> r.P, n |-> r.n]
           Visit(acc, id) ==
               IF acc.st = "croak" THEN acc
               ELSE Filled(acc, id, HashHandler(s, acc.conf[id], acc.P, acc.n))
           n == Len(Order)
           Body(g, k) == IF k = 0 THEN e ELSE Visit(g[k - 1], Order[k])
           F == CHOOSE g : g = [k \in 0 .. n |-> Body(g, k)]
           st == [p \in (Nat \ {0}) \X S |->
                    IF p[1] \in 1 .. n THEN Visit(p[2], Order[p[1]]) ELSE p[2]]
<1>1. n \in Nat /\ \A k \in 1 .. n : Order[k] \in Slots
  <2>1. n = 4 /\ Order[1] \in Slots /\ Order[2] \in Slots /\ Order[3] \in Slots
        /\ Order[4] \in Slots
    BY DEF Order, Slots
  <2> QED BY <2>1
<1>2. e \in S
  <2>1. i \in Interps
    BY DEF ParentOf, Interps, Servers
  <2>2. PerlOK(perl[i], count) /\ perl[i] \in PerlType /\ ConfOK(conf)
        /\ conf \in [Slots -> HandlerType] /\ count \in Nat
    BY <2>1 DEF NamedInv, ConfOK
  <2> HIDE DEF i
  <2> QED BY <2>2 DEF Walked
<1>3. ASSUME NEW a \in S, NEW id \in Slots PROVE Visit(a, id) \in S
  <2>1. opt \in [threaded : BOOLEAN, parent : BOOLEAN, autoload : BOOLEAN]
        /\ count \in Nat
    BY DEF NamedInv
  <2> DEFINE r == HashHandler(s, a.conf[id], a.P, a.n)
  <2> HIDE DEF r
  <2>2. r = HashHandler(s, a.conf[id], a.P, a.n)
    BY DEF r
  <2>3. Filled(a, id, r) \in S
    BY <1>3, <2>1, <2>2, VisitOK
  <2> QED BY <2>3 DEF r
<1>4. st \in [(Nat \ {0}) \X S -> S]
  <2>1. ASSUME NEW k \in Nat \ {0}, NEW a \in S
        PROVE  (IF k \in 1 .. n THEN Visit(a, Order[k]) ELSE a) \in S
    <3> HIDE DEF Visit, S, n
    <3> QED BY <1>1, <1>3, <2>1
  <2> HIDE DEF Visit, S, n
  <2> QED BY <2>1
<1>5. \E g : IsLoop(g, n, S, e, st)
  <2> HIDE DEF st, n, S, e
  <2> QED BY <1>1, <1>2, <1>4, LoopExists
<1>6. PICK g : IsLoop(g, n, S, e, st)
  BY <1>5
<1>7. g = [k \in 0 .. n |-> Body(g, k)]
  <2>1. ASSUME NEW k \in 1 .. n PROVE g[k] = Body(g, k)
    <3>1. g[k] = st[<<k, g[k - 1]>>] /\ g[k - 1] \in S
      <4> HIDE DEF n, st, S, e
      <4> QED BY <1>1, <1>6 DEF IsLoop
    <3>2. <<k, g[k - 1]>> \in (Nat \ {0}) \X S /\ k # 0
      <4> HIDE DEF n, S, st
      <4>1. k \in Nat \ {0}
        BY <1>1
      <4>2. g[k - 1] \in S
        BY <3>1
      <4> QED BY ONLY <4>1, <4>2
    <3> HIDE DEF Visit, S, n
    <3> QED BY <3>1, <3>2
  <2>2. g[0] = Body(g, 0) /\ DOMAIN g = 0 .. n /\ g = [k \in DOMAIN g |-> g[k]]
    <3> HIDE DEF n, st, S, e, Visit
    <3> QED BY <1>6 DEF IsLoop
  <2>3. ASSUME NEW k \in 0 .. n PROVE g[k] = Body(g, k)
    <3>1. k = 0 \/ k \in 1 .. n
      <4> HIDE DEF n
      <4> QED BY <1>1
    <3> HIDE DEF Body, n
    <3> QED BY <2>1, <2>2, <3>1
  <2> HIDE DEF Body, n
  <2> QED BY <2>2, <2>3
<1>8. F = [k \in 0 .. n |-> Body(F, k)]
  <2> HIDE DEF Body, n
  <2> QED BY <1>7, Zenon
<1>9. ASSUME NEW k \in 0 .. n PROVE F[k] = Body(F, k)
  <2> HIDE DEF F, Body, n
  <2> QED BY <1>8
<1>10. F[n] \in S
  <2> DEFINE T == {k \in Nat : F[k] \in S}
  <2> HIDE DEF F
  <2>1. 0 \in T
    <3>1. 0 \in 0 .. n
      <4> HIDE DEF n
      <4> QED BY <1>1
    <3>2. F[0] = Body(F, 0)
      BY ONLY <1>9, <3>1
    <3>3. Body(F, 0) = e
      <4> HIDE DEF Visit, e
      <4> QED OBVIOUS
    <3> HIDE DEF Body, e, S
    <3> QED BY <1>2, <3>2, <3>3
  <2>2. ASSUME NEW k \in 1 .. n, k - 1 \in T PROVE k \in T
    <3>1. k \in Nat /\ k # 0 /\ k \in 0 .. n
      <4> HIDE DEF n
      <4> QED BY <1>1
    <3>2. F[k] = Body(F, k)
      BY ONLY <1>9, <3>1
    <3>3. Body(F, k) = Visit(F[k - 1], Order[k])
      <4> HIDE DEF Visit, e
      <4> QED BY <3>1
    <3>4. Order[k] \in Slots /\ F[k - 1] \in S
      <4> HIDE DEF S, n
      <4> QED BY <1>1, <2>2
    <3>5. Visit(F[k - 1], Order[k]) \in S
      <4> HIDE DEF S, Visit
      <4> QED BY <1>3, <3>4
    <3> HIDE DEF S, Visit, Body
    <3> QED BY <3>1, <3>2, <3>3, <3>5
  <2> HIDE DEF T, n
  <2>3. \A k \in 0 .. n : k \in T
    BY <1>1, <2>1, <2>2, Upto, Zenon
  <2> QED BY <1>1, <2>3 DEF T
<1>11. PICK end \in {F[n]} :
             /\ stage' = IF end.st = "croak" THEN "exited"
                         ELSE IF s = "main" THEN "vhost" ELSE "clone"
             /\ conf' = end.conf
             /\ perl' = [perl EXCEPT ![i] = end.P]
             /\ count' = end.n
  BY ZenonT(60) DEF HashHandlers
<1>12. UNCHANGED <<opt, call, conn>>
  BY DEF HashHandlers
<1> HIDE DEF F
<1> QED BY <1>10, <1>11, <1>12

-----------------------------------------------------------------------------
(* A callback.                                                             *)

\* modperl_handler_resolve: r.keep is what the configuration holds afterwards.
ResolvedOK(r, h, n) ==
    /\ r.st \in {"0", "1", "croak"}
    /\ HandlerOK(r.h) /\ r.h.name = h.name
    /\ r.st = "1" => r.h.parsed
    /\ r.n \in Nat /\ n <= r.n
    /\ PerlOK(r.P, r.n)
    /\ HandlerOK(r.keep) /\ r.keep.name = h.name
    /\ opt.threaded => r.keep = h

LEMMA HandlerResolveOK ==
    ASSUME opt \in [threaded : BOOLEAN, parent : BOOLEAN, autoload : BOOLEAN],
           NEW h, HandlerOK(h), h.name \in SubNames, NEW P,
           NEW n \in Nat, PerlOK(P, n)
    PROVE  ResolvedOK(HandlerResolve(h, P, n), h, n)
<1>1. CASE h.parsed
  <2>1. HandlerResolve(h, P, n) = Keeping(Res("1", h, P, n), h)
    BY <1>1 DEF HandlerResolve
  <2> QED BY <1>1, <2>1 DEF ResolvedOK, Keeping, Res
<1>2. CASE ~h.parsed /\ opt.threaded
  <2> DEFINE d == Dup(h)
             g == [d EXCEPT !.auto = TRUE]
             r == Resolve(g, P, n, FALSE)
  <2>1. HandlerResolve(h, P, n) = Keeping(r, h)
    BY <1>2 DEF HandlerResolve
  <2>2. HandlerOK(d) /\ ~d.parsed /\ d.name = h.name
    <3>1. h.name \in NameType /\ "none" \in Prefixes
      BY DEF NameType, Prefixes
    <3> QED BY <3>1, NewHandlerOK DEF Dup
  <2> HIDE DEF d
  <2>3. HandlerOK(g) /\ ~g.parsed /\ g.name = h.name
    BY <2>2, AutoOK
  <2> HIDE DEF g
  <2>4. ResOK(r, g.name, n)
    BY <2>3, ResolveOK
  <2> HIDE DEF r
  <2> QED BY <2>1, <2>3, <2>4 DEF ResOK, ResolvedOK, Keeping
<1>3. CASE ~h.parsed /\ ~opt.threaded
  <2> DEFINE g == [h EXCEPT !.auto = TRUE]
             r == Resolve(g, P, n, FALSE)
  <2>1. HandlerResolve(h, P, n) = Keeping(r, r.h)
    BY <1>3 DEF HandlerResolve, KeepingResult
  <2>2. HandlerOK(g) /\ ~g.parsed /\ g.name = h.name
    BY <1>3, AutoOK
  <2> HIDE DEF g
  <2>3. ResOK(r, g.name, n)
    BY <2>2, ResolveOK
  <2> HIDE DEF r
  <2> QED BY <1>3, <2>1, <2>2, <2>3 DEF ResOK, ResolvedOK, Keeping
<1> QED BY <1>1, <1>2, <1>3

\* modperl_callback: what is called is what the name denotes.
CallbackOK(c, h, n) ==
    /\ c.out \in {"ok", "error", "exit"}
    /\ c.pkg \in Packages \cup {NULL}
    /\ c.out = "ok" => c.pkg = Denotes(h.name)
    /\ c.n \in Nat /\ n <= c.n
    /\ PerlOK(c.P, c.n)
    /\ HandlerOK(c.keep) /\ c.keep.name = h.name
    /\ opt.threaded => c.keep = h

LEMMA CallbackIsOK ==
    ASSUME opt \in [threaded : BOOLEAN, parent : BOOLEAN, autoload : BOOLEAN],
           NEW h, HandlerOK(h), h.name \in SubNames, NEW P,
           NEW n \in Nat, PerlOK(P, n), NEW s
    PROVE  CallbackOK(Callback(s, h, P, n), h, n)
<1> DEFINE r == HandlerResolve(h, P, n)
           Out(out, pkg, R) == [out |-> out, pkg |-> pkg, P |-> R, n |-> r.n,
                                keep |-> r.keep]
           c == CallResolved(s, r)
           R == LookupAutoload(s, r.P, r.h.cv)
<1>1. ResolvedOK(r, h, n)
  BY HandlerResolveOK
<1>2. Callback(s, h, P, n) = c
  BY DEF Callback
<1> HIDE DEF r
<1>3. ASSUME NEW out \in {"ok", "error", "exit"}, NEW pkg \in Packages \cup {NULL},
             out = "ok" => pkg = Denotes(h.name), NEW Q, PerlOK(Q, r.n)
      PROVE  CallbackOK(Out(out, pkg, Q), h, n)
  BY <1>1, <1>3 DEF ResolvedOK, CallbackOK
<1>4. CASE r.st # "1" \/ (r.h.obj.kind = "var" /\ r.h.obj.pkg \notin r.P.loaded)
  <2>1. c \in {Out("exit", NULL, r.P), Out("error", NULL, r.P)}
    BY <1>1, <1>4 DEF CallResolved, ResolvedOK
  <2>2. PerlOK(r.P, r.n)
    BY <1>1 DEF ResolvedOK
  <2> HIDE DEF Out
  <2> QED BY <1>2, <1>3, <2>1, <2>2
<1>5. CASE r.st = "1" /\ ~(r.h.obj.kind = "var" /\ r.h.obj.pkg \notin r.P.loaded)
           /\ r.h.anon
  <2>1. c \in {Out("exit", NULL, r.P), Out("ok", NULL, r.P)}
    BY <1>1, <1>5 DEF CallResolved, ResolvedOK
  <2>2. PerlOK(r.P, r.n)
    BY <1>1 DEF ResolvedOK
  <2>3. Denotes(h.name) = NULL
    <3>1. HandlerOK(r.h) /\ r.h.parsed /\ r.h.name = h.name
      BY <1>1, <1>5 DEF ResolvedOK
    <3> QED BY <1>5, <3>1 DEF HandlerOK
  <2> HIDE DEF Out
  <2> QED BY <1>2, <1>3, <2>1, <2>2, <2>3
<1>6. CASE r.st = "1" /\ ~(r.h.obj.kind = "var" /\ r.h.obj.pkg \notin r.P.loaded)
           /\ ~r.h.anon
  <2>1. HandlerOK(r.h) /\ r.h.parsed /\ r.h.name = h.name /\ PerlOK(r.P, r.n)
    BY <1>1, <1>6 DEF ResolvedOK
  <2>2. r.h.cv \in Packages /\ r.h.cv = Denotes(h.name)
    BY <1>6, <2>1 DEF HandlerOK, HandlerType
  <2>3. PerlOK(R, r.n)
    BY <2>1, <2>2, AutoloadOK
  <2>4. c \in {Out("ok", r.h.cv, R), Out("error", NULL, R)}
    BY <1>6 DEF CallResolved
  <2> HIDE DEF Out, R
  <2> QED BY <1>2, <1>3, <2>2, <2>3, <2>4
<1> QED BY <1>4, <1>5, <1>6

-----------------------------------------------------------------------------
(* Filters.                                                                *)

\* What the loop that adds filters has reached: n ids were handed out, and the
\* configuration is C.
Adding(C, n) ==
    {a \in [P : PerlType, st : {"ok", "failed"}, chain : Seq(EntryType)] :
       PerlOK(a.P, n) /\ ChainOK(a.chain, C)}

\* modperl_run_filter_init
LEMMA RunInitOK ==
    ASSUME NEW s, NEW P, NEW n, PerlOK(P, n), NEW q \in Packages,
           NEW fails \in BOOLEAN
    PROVE  /\ PerlOK(RunInit(s, P, q, fails).P, n)
           /\ RunInit(s, P, q, fails).st \in {"ok", "failed"}
<1> DEFINE Q == LookupAutoload(s, P, q)
<1>1. PerlOK(Q, n)
  BY AutoloadOK
<1>2. RunInit(s, P, q, fails) =
        [P |-> Q, st |-> IF q \in Q.loaded /\ ~fails THEN "ok" ELSE "failed"]
  BY DEF RunInit
<1> HIDE DEF Q
<1> QED BY <1>1, <1>2

\* An entry is put at the end or at the head of a chain.
LEMMA ChainAppend ==
    ASSUME NEW C, NEW c, ChainOK(c, C), NEW id \in {"f1", "f2"},
           NEW level \in Levels, C[id].name # NoName
    PROVE  ChainOK(Append(c, Entry(id, level, Unset)), C)
<1> DEFINE e == Entry(id, level, Unset)
           d == Append(c, e)
<1>1. Unset \in HandlerType
  <2>1. NoName \in NameType /\ "none" \in Prefixes
    BY DEF NameType, Prefixes
  <2>2. HandlerOK(Unset)
    BY <2>1, NewHandlerOK DEF Unset
  <2> QED BY <2>2 DEF HandlerOK
<1>2. e \in EntryType /\ e.id = id
  BY <1>1 DEF Entry, EntryType
<1> HIDE DEF e
<1>3. c \in Seq(EntryType)
  BY DEF ChainOK
<1>4. d \in Seq(EntryType) /\ Len(d) = Len(c) + 1
      /\ \A k \in 1 .. Len(d) : d[k] = IF k <= Len(c) THEN c[k] ELSE e
  BY <1>2, <1>3
<1> HIDE DEF d
<1>5. ASSUME NEW k \in 1 .. Len(d)
      PROVE  IF d[k].id = "rt" THEN HandlerOK(d[k].h) /\ d[k].h.name.kind = "func"
             ELSE C[d[k].id].name # NoName
  <2>1. CASE k \in 1 .. Len(c)
    <3>1. d[k] = c[k]
      BY <1>3, <1>4, <2>1
    <3> QED BY <2>1, <3>1 DEF ChainOK
  <2>2. CASE k \notin 1 .. Len(c)
    <3>1. d[k] = e
      BY <1>3, <1>4, <2>2
    <3> QED BY <1>2, <3>1
  <2> QED BY <2>1, <2>2
<1>6. ChainOK(d, C)
  BY <1>4, <1>5 DEF ChainOK
<1> QED BY <1>6 DEF d, e

LEMMA ChainConcat ==
    ASSUME NEW C, NEW c, ChainOK(c, C), NEW d, ChainOK(d, C)
    PROVE  ChainOK(d \o c, C)
<1> DEFINE f == d \o c
<1>1. c \in Seq(EntryType) /\ d \in Seq(EntryType)
  BY DEF ChainOK
<1>2. f \in Seq(EntryType) /\ Len(f) = Len(d) + Len(c)
      /\ \A k \in 1 .. Len(f) : f[k] = IF k <= Len(d) THEN d[k] ELSE c[k - Len(d)]
  BY <1>1
<1> HIDE DEF f
<1>3. ASSUME NEW k \in 1 .. Len(f)
      PROVE  IF f[k].id = "rt" THEN HandlerOK(f[k].h) /\ f[k].h.name.kind = "func"
             ELSE C[f[k].id].name # NoName
  <2>1. CASE k \in 1 .. Len(d)
    <3>1. f[k] = d[k]
      BY <1>1, <1>2, <2>1
    <3> QED BY <2>1, <3>1 DEF ChainOK
  <2>2. CASE k \notin 1 .. Len(d)
    <3>1. f[k] = c[k - Len(d)] /\ k - Len(d) \in 1 .. Len(c)
      BY <1>1, <1>2, <2>2
    <3> QED BY <3>1 DEF ChainOK
  <2> QED BY <2>1, <2>2
<1>4. ChainOK(f, C)
  BY <1>2, <1>3 DEF ChainOK
<1> QED BY <1>4 DEF f

\* One more filter: its init handler is run, and it is put at the end.
LEMMA AddOK ==
    ASSUME NamedInv, NEW a \in Adding(conf, count), NEW id \in {"f1", "f2"},
           NEW s, NEW level \in Levels, NEW fails \in BOOLEAN, NEW i,
           conf[id].name.kind # "unset",
           i = IF "hasinit" \in conf[id].attrs /\ conf[id].next # NULL
               THEN RunInit(s, a.P, conf[id].next, fails)
               ELSE [P |-> a.P, st |-> "ok"]
    PROVE  [chain |-> Append(a.chain, Entry(id, level, Unset)),
            P |-> i.P, st |-> i.st] \in Adding(conf, count)
<1> DEFINE h == conf[id]
           d == Append(a.chain, Entry(id, level, Unset))
<1>1. PerlOK(a.P, count) /\ ChainOK(a.chain, conf)
  BY DEF Adding
<1>2. h.next \in Packages \cup {NULL}
  <2>1. HandlerOK(h)
    BY DEF NamedInv, ConfOK, Slots
  <2> QED BY <2>1 DEF HandlerOK, HandlerType
<1>3. PerlOK(i.P, count) /\ i.st \in {"ok", "failed"}
  <2>1. CASE "hasinit" \in h.attrs /\ h.next # NULL
    <3>1. h.next \in Packages /\ i = RunInit(s, a.P, h.next, fails)
      BY <1>2, <2>1
    <3> QED BY <1>1, <3>1, RunInitOK
  <2>2. CASE ~("hasinit" \in h.attrs /\ h.next # NULL)
    <3>1. i = [P |-> a.P, st |-> "ok"]
      BY <2>2
    <3> QED BY <1>1, <3>1
  <2> QED BY <2>1, <2>2
<1>4. conf[id].name # NoName
  BY DEF NoName
<1>5. ChainOK(d, conf)
  BY <1>1, <1>4, ChainAppend, Zenon
<1> HIDE DEF d
<1>6. [chain |-> d, P |-> i.P, st |-> i.st] \in Adding(conf, count)
  BY <1>3, <1>5 DEF Adding, ChainOK, PerlOK
<1> QED BY <1>6 DEF d

\* modperl_filter_add_connection and modperl_filter_add_request
LEMMA AddFiltersOK ==
    ASSUME NamedInv, NEW s, NEW P, PerlOK(P, count), NEW level \in Levels,
           NEW fails \in BOOLEAN
    PROVE  AddFilters(s, P, level, fails) \in Adding(conf, count)
<1> DEFINE S == Adding(conf, count)
           e == [P |-> P, st |-> "ok", chain |-> <<>>]
           Init(acc, h) == IF "hasinit" \in h.attrs /\ h.next # NULL
                           THEN RunInit(s, acc.P, h.next, fails)
                           ELSE [P |-> acc.P, st |-> "ok"]
           Add(acc, id) ==
               LET h == conf[id] IN
               IF acc.st # "ok" \/ h.name.kind = "unset" \/ ~Takes(level, h) THEN acc
               ELSE [chain |-> Append(acc.chain, Entry(id, level, Unset)),
                     P |-> Init(acc, h).P, st |-> Init(acc, h).st]
           n == Len(FilterOrder)
           Body(g, k) == IF k = 0 THEN e ELSE Add(g[k - 1], FilterOrder[k])
           F == CHOOSE g : g = [k \in 0 .. n |-> Body(g, k)]
           st == [p \in (Nat \ {0}) \X S |->
                    IF p[1] \in 1 .. n THEN Add(p[2], FilterOrder[p[1]]) ELSE p[2]]
<1>1. n \in Nat /\ \A k \in 1 .. n : FilterOrder[k] \in {"f1", "f2"}
  <2>1. n = 2 /\ FilterOrder[1] \in {"f1", "f2"} /\ FilterOrder[2] \in {"f1", "f2"}
    BY DEF FilterOrder
  <2> QED BY <2>1
<1>2. e \in S
  <2>1. ChainOK(<<>>, conf)
    BY DEF ChainOK
  <2>2. <<>> \in Seq(EntryType)
    OBVIOUS
  <2> QED BY <2>1, <2>2 DEF Adding, PerlOK
<1>3. ASSUME NEW a \in S, NEW id \in {"f1", "f2"} PROVE Add(a, id) \in S
  <2>1. CASE a.st # "ok" \/ conf[id].name.kind = "unset" \/ ~Takes(level, conf[id])
    <3>1. Add(a, id) = a
      BY <2>1
    <3> QED BY <1>3, <3>1
  <2>2. CASE ~(a.st # "ok" \/ conf[id].name.kind = "unset" \/ ~Takes(level, conf[id]))
    <3> DEFINE i == Init(a, conf[id])
               b == [chain |-> Append(a.chain, Entry(id, level, Unset)),
                     P |-> i.P, st |-> i.st]
    <3>1. Add(a, id) = b
      <4> HIDE DEF i
      <4>1. Add(a, id) =
              IF a.st # "ok" \/ conf[id].name.kind = "unset" \/ ~Takes(level, conf[id])
              THEN a ELSE b
        BY DEF i
      <4> QED BY <2>2, <4>1
    <3>2. b \in S
      <4>1. conf[id].name.kind # "unset"
        BY <2>2
      <4>2. i = IF "hasinit" \in conf[id].attrs /\ conf[id].next # NULL
                THEN RunInit(s, a.P, conf[id].next, fails)
                ELSE [P |-> a.P, st |-> "ok"]
        OBVIOUS
      <4> HIDE DEF i
      <4> QED BY <1>3, <4>1, <4>2, AddOK
    <3> QED BY <3>1, <3>2
  <2> QED BY <2>1, <2>2
<1>4. st \in [(Nat \ {0}) \X S -> S]
  <2>1. ASSUME NEW k \in Nat \ {0}, NEW a \in S
        PROVE  (IF k \in 1 .. n THEN Add(a, FilterOrder[k]) ELSE a) \in S
    <3> HIDE DEF Add, S, n
    <3> QED BY <1>1, <1>3, <2>1
  <2> HIDE DEF Add, S, n
  <2> QED BY <2>1
<1>5. \E g : IsLoop(g, n, S, e, st)
  <2> HIDE DEF st, n, S, e
  <2> QED BY <1>1, <1>2, <1>4, LoopExists
<1>6. PICK g : IsLoop(g, n, S, e, st)
  BY <1>5
<1>7. g = [k \in 0 .. n |-> Body(g, k)]
  <2>1. ASSUME NEW k \in 1 .. n PROVE g[k] = Body(g, k)
    <3>1. g[k] = st[<<k, g[k - 1]>>] /\ g[k - 1] \in S
      <4> HIDE DEF n, st, S, e
      <4> QED BY <1>1, <1>6 DEF IsLoop
    <3>2. <<k, g[k - 1]>> \in (Nat \ {0}) \X S /\ k # 0
      <4> HIDE DEF n, S, st
      <4>1. k \in Nat \ {0}
        BY <1>1
      <4>2. g[k - 1] \in S
        BY <3>1
      <4> QED BY ONLY <4>1, <4>2
    <3> HIDE DEF Add, S, n
    <3> QED BY <3>1, <3>2
  <2>2. g[0] = Body(g, 0) /\ DOMAIN g = 0 .. n /\ g = [k \in DOMAIN g |-> g[k]]
    <3> HIDE DEF n, st, S, e, Add
    <3> QED BY <1>6 DEF IsLoop
  <2>3. ASSUME NEW k \in 0 .. n PROVE g[k] = Body(g, k)
    <3>1. k = 0 \/ k \in 1 .. n
      <4> HIDE DEF n
      <4> QED BY <1>1
    <3> HIDE DEF Body, n
    <3> QED BY <2>1, <2>2, <3>1
  <2> HIDE DEF Body, n
  <2> QED BY <2>2, <2>3
<1>8. F = [k \in 0 .. n |-> Body(F, k)]
  <2> HIDE DEF Body, n
  <2> QED BY <1>7, Zenon
<1>9. ASSUME NEW k \in 0 .. n PROVE F[k] = Body(F, k)
  <2> HIDE DEF F, Body, n
  <2> QED BY <1>8
<1>10. F[n] \in S
  <2> DEFINE T == {k \in Nat : F[k] \in S}
  <2> HIDE DEF F
  <2>1. 0 \in T
    <3>1. 0 \in 0 .. n
      <4> HIDE DEF n
      <4> QED BY <1>1
    <3>2. F[0] = Body(F, 0)
      BY ONLY <1>9, <3>1
    <3>3. Body(F, 0) = e
      <4> HIDE DEF Add, e
      <4> QED OBVIOUS
    <3> HIDE DEF Body, e, S
    <3> QED BY <1>2, <3>2, <3>3
  <2>2. ASSUME NEW k \in 1 .. n, k - 1 \in T PROVE k \in T
    <3>1. k \in Nat /\ k # 0 /\ k \in 0 .. n
      <4> HIDE DEF n
      <4> QED BY <1>1
    <3>2. F[k] = Body(F, k)
      BY ONLY <1>9, <3>1
    <3>3. Body(F, k) = Add(F[k - 1], FilterOrder[k])
      <4> HIDE DEF Add, e
      <4> QED BY <3>1
    <3>4. FilterOrder[k] \in {"f1", "f2"} /\ F[k - 1] \in S
      <4> HIDE DEF S, n
      <4> QED BY <1>1, <2>2
    <3>5. Add(F[k - 1], FilterOrder[k]) \in S
      <4> HIDE DEF S, Add
      <4> QED BY <1>3, <3>4
    <3> HIDE DEF S, Add, Body
    <3> QED BY <3>1, <3>2, <3>3, <3>5
  <2> HIDE DEF T, n
  <2>3. \A k \in 0 .. n : k \in T
    BY <1>1, <2>1, <2>2, Upto
  <2> QED BY <1>1, <2>3 DEF T
<1>11. AddFilters(s, P, level, fails) = F[n]
  BY DEF AddFilters
<1> HIDE DEF F
<1> QED BY <1>10, <1>11

-----------------------------------------------------------------------------
(* The steps.                                                              *)

\* A chain does not depend on more than the names of the configuration.
LEMMA ChainFrame ==
    ASSUME NEW c, NEW C, NEW D, ChainOK(c, C),
           \A id \in Slots : D[id].name = C[id].name
    PROVE  ChainOK(c, D)
<1>1. ASSUME NEW k \in 1 .. Len(c)
      PROVE  IF c[k].id = "rt" THEN HandlerOK(c[k].h) /\ c[k].h.name.kind = "func"
             ELSE D[c[k].id].name # NoName
  <2>1. c[k] \in EntryType
    BY DEF ChainOK
  <2>2. c[k].id \in {"f1", "f2", "rt"}
    BY <2>1 DEF EntryType
  <2>3. c[k].id # "rt" => D[c[k].id].name = C[c[k].id].name
    BY <2>2 DEF Slots
  <2> QED BY <2>3 DEF ChainOK
<1> QED BY <1>1 DEF ChainOK

\* One interpreter changes, and ids may have been handed out.
LEMMA PerlStep ==
    ASSUME NEW Q, Q \in [Interps -> PerlType], NEW n \in Nat,
           \A i \in Interps : PerlOK(Q[i], n),
           NEW i \in Interps, NEW P, NEW m \in Nat, n <= m, PerlOK(P, m)
    PROVE  /\ [Q EXCEPT ![i] = P] \in [Interps -> PerlType]
           /\ \A j \in Interps : PerlOK([Q EXCEPT ![i] = P][j], m)
<1>1. P \in PerlType
  BY DEF PerlOK
<1>2. ASSUME NEW j \in Interps PROVE PerlOK(Q[j], m)
  BY PerlLater
<1> QED BY <1>1, <1>2

LEMMA NoCallOK == NoCall \in CallType \cup {NoCall} /\ NoCall.out # "ok"
BY DEF NoCall

\* The initial states.
LEMMA NamedInit == ASSUME ResolveInit PROVE NamedInv
<1>1. ConfOK(conf) /\ \A id \in {"h1", "h2"} : conf[id].name \in SubNames \cup {NoName}
  <2> DEFINE N == {NewHandler(f[1], f[2]) : f \in Names}
             G == {PushFilter(f[1], f[2]) : f \in Filters}
             U == {Unset}
  <2>1. conf \in [h1 : N, h2 : N, f1 : U, f2 : U] \cup [h1 : U, h2 : U, f1 : G, f2 : G]
    BY DEF ResolveInit, Configs
  <2>2. ASSUME NEW h \in N PROVE HandlerOK(h) /\ h.name \in SubNames
    <3>1. PICK f \in Names : h = NewHandler(f[1], f[2])
      BY <2>2
    <3>2. f[1] \in SubNames /\ f[2] \in Prefixes /\ f[1] \in NameType
      BY ResolveAssumption DEF NameType
    <3> QED BY <3>1, <3>2, NewHandlerOK
  <2>3. HandlerOK(Unset) /\ Unset.name = NoName
    <3>1. NoName \in NameType /\ "none" \in Prefixes
      BY DEF NameType, Prefixes
    <3> QED BY <3>1, NewHandlerOK DEF Unset
  <2>4. ASSUME NEW h \in G PROVE HandlerOK(h)
    <3>1. PICK f \in Filters : h = PushFilter(f[1], f[2])
      BY <2>4
    <3>2. f[1] \in NameType /\ f[2] \in Prefixes
      BY ResolveAssumption DEF NameType
    <3> DEFINE g == NewHandler(f[1], f[2])
    <3>3. HandlerOK(g) /\ ~g.parsed /\ g.name = f[1]
      BY <3>2, NewHandlerOK
    <3> HIDE DEF g
    <3>4. CASE f[1].kind = "httpd"
      <4>1. h = [g EXCEPT !.attrs = {"httpd"}]
        BY <3>1, <3>4 DEF PushFilter, g
      <4>2. g \in HandlerType
        BY <3>3 DEF HandlerOK
      <4>3. h \in HandlerType /\ h.parsed = g.parsed /\ h.anon = g.anon /\ h.cv = g.cv
            /\ h.next = g.next /\ h.name = g.name /\ h.method = g.method
        BY <4>1, <4>2 DEF HandlerType
      <4>4. ~g.anon /\ g.cv = NULL /\ g.next = NULL
        BY <3>3 DEF HandlerOK
      <4>5. f[1].kind \notin {"func", "anon"}
        BY <3>4
      <4> QED BY <3>3, <4>3, <4>4, <4>5, PreparedOK
    <3>5. CASE f[1].kind # "httpd"
      <4>1. h = [g EXCEPT !.auto = f[2] # "-"]
        BY <3>1, <3>5 DEF PushFilter, g
      <4>2. CASE f[2] = "-"
        <5>1. h = [g EXCEPT !.auto = FALSE]
          BY <4>1, <4>2
        <5> QED BY <3>3, <5>1, AutoOK
      <4>3. CASE f[2] # "-"
        <5>1. h = [g EXCEPT !.auto = TRUE]
          BY <4>1, <4>3
        <5> QED BY <3>3, <5>1, AutoOK
      <4> QED BY <4>2, <4>3
    <3> QED BY <3>4, <3>5
  <2> HIDE DEF N, G
  <2>5. conf \in [{"h1", "h2", "f1", "f2"} -> N \cup G \cup U]
    BY <2>1
  <2>6. \A id \in Slots : HandlerOK(conf[id])
    BY <2>2, <2>3, <2>4, <2>5 DEF Slots
  <2>7. conf \in [Slots -> HandlerType]
    BY <2>5, <2>6 DEF Slots, HandlerOK
  <2>8. \A id \in {"h1", "h2"} : conf[id] \in N \cup U
    BY <2>1
  <2>9. \A id \in {"h1", "h2"} : conf[id].name \in SubNames \cup {NoName}
    BY <2>2, <2>3, <2>8
  <2> QED BY <2>6, <2>7, <2>9 DEF ConfOK
<1>2. perl \in [Interps -> PerlType] /\ \A i \in Interps : PerlOK(perl[i], count)
  <2>1. PICK L \in Preloads, V \in SUBSET Vivified :
         perl = [i \in Interps |->
                   [NewPerl EXCEPT !.loaded = UNION {WithIsa(p) : p \in L},
                                   !.stash = V \cup UNION {WithIsa(p) : p \in L}]]
    BY DEF ResolveInit
  <2> DEFINE W == UNION {WithIsa(p) : p \in L}
             P == [NewPerl EXCEPT !.loaded = W, !.stash = V \cup W]
  <2>2. W \subseteq Packages /\ \A q \in W : Code[q].loads
    <3>1. \A p \in L : p \in Packages /\ Code[p].loads
      BY ResolveAssumption
    <3> QED BY <3>1, ResolveAssumption DEF WithIsa
  <2>3. V \subseteq Packages
    BY ResolveAssumption
  <2>4. PerlOK(P, count)
    <3> HIDE DEF W
    <3>1. NewPerl \in PerlType /\ NewPerl.anon = {}
      BY DEF NewPerl, PerlType
    <3>2. P \in PerlType /\ P.loaded = W /\ P.stash = V \cup W /\ P.anon = {}
      BY <2>2, <2>3, <3>1 DEF PerlType
    <3> HIDE DEF P
    <3> QED BY <2>2, <3>2 DEF PerlOK
  <2>5. perl = [i \in Interps |-> P]
    BY <2>1
  <2> HIDE DEF P
  <2> QED BY <2>4, <2>5, SMTT(60) DEF PerlOK
<1>3. ConnOK(conn, conf)
  <2>1. NoConn \in ConnType
    <3>1. <<>> \in Seq(EntryType)
      OBVIOUS
    <3> QED BY <3>1 DEF NoConn, ConnType
  <2>2. ChainOK(<<>>, conf)
    BY DEF ChainOK
  <2> QED BY <2>1, <2>2 DEF ResolveInit, ConnOK, NoConn
<1>4. count \in Nat /\ call = NoCall /\ stage = "main"
      /\ opt \in [threaded : BOOLEAN, parent : BOOLEAN, autoload : BOOLEAN]
  BY DEF ResolveInit
<1> QED BY <1>1, <1>2, <1>3, <1>4, NoCallOK DEF NamedInv, CallsNamedSub

\* Startup.
LEMMA HashHandlersStep ==
    ASSUME NamedInv, NEW s \in Servers, HashHandlers(s) PROVE NamedInv'
<1>1. PICK end \in Walked(conf, count) :
              /\ conf' = end.conf
              /\ perl' = [perl EXCEPT ![ParentOf(s)] = end.P]
              /\ count' = end.n
              /\ stage' \in {"exited", "vhost", "clone"}
              /\ UNCHANGED <<opt, call, conn>>
  BY HashHandlersOK
<1>2. /\ ConfOK(end.conf) /\ PerlOK(end.P, end.n) /\ count <= end.n /\ end.n \in Nat
      /\ \A id \in Slots : end.conf[id].name = conf[id].name
  BY DEF Walked
<1>3. ParentOf(s) \in Interps
  BY DEF ParentOf, Interps, Servers
<1>4. /\ perl \in [Interps -> PerlType] /\ count \in Nat
      /\ \A i \in Interps : PerlOK(perl[i], count)
  BY DEF NamedInv
<1>5. /\ perl' \in [Interps -> PerlType]
      /\ \A j \in Interps : PerlOK(perl'[j], count')
  BY <1>1, <1>2, <1>3, <1>4, PerlStep
<1>6. ConnOK(conn, end.conf)
  BY <1>2, ChainFrame DEF NamedInv, ConnOK
<1> QED BY <1>1, <1>2, <1>5, <1>6 DEF NamedInv, CallsNamedSub

LEMMA InitClonesStep == ASSUME NamedInv, InitClones PROVE NamedInv'
<1>1. ASSUME NEW i \in Interps PROVE perl'[i] \in PerlType /\ PerlOK(perl'[i], count)
  <2>1. perl'[i] \in {perl["main"], perl["vhost"], perl[i]}
    BY DEF InitClones
  <2>2. "main" \in Interps /\ "vhost" \in Interps
    BY DEF Interps, Servers
  <2> QED BY <2>1, <2>2 DEF NamedInv, PerlOK
<1>2. perl' \in [Interps -> PerlType]
  BY <1>1 DEF InitClones
<1> QED BY <1>1, <1>2 DEF InitClones, NamedInv, CallsNamedSub

\* A callback in interpreter i of server s, with the structure h.
Calls(s, i, h, c) ==
    /\ c = Callback(s, h, perl[i], count)
    /\ perl' = [perl EXCEPT ![i] = c.P]
    /\ count' = c.n
    /\ call' = Called(s, i, h, c)
    /\ stage' = IF c.out = "exit" THEN "exited" ELSE stage

\* What it leaves: c.keep replaces the structure.
CallLeaves(h, c) ==
    /\ perl' \in [Interps -> PerlType] /\ count' \in Nat
    /\ \A j \in Interps : PerlOK(perl'[j], count')
    /\ call' \in CallType \cup {NoCall} /\ CallsNamedSub'
    /\ stage' \in {"main", "vhost", "clone", "serving", "exited"}
    /\ HandlerOK(c.keep) /\ c.keep.name = h.name

LEMMA CallStep ==
    ASSUME NamedInv, NEW s \in Servers, NEW i \in Interps, NEW h, HandlerOK(h),
           h.name \in SubNames, NEW c, Calls(s, i, h, c)
    PROVE  CallLeaves(h, c)
<1>1. /\ opt \in [threaded : BOOLEAN, parent : BOOLEAN, autoload : BOOLEAN]
      /\ perl \in [Interps -> PerlType] /\ count \in Nat
      /\ \A j \in Interps : PerlOK(perl[j], count)
      /\ stage \in {"main", "vhost", "clone", "serving", "exited"}
  BY DEF NamedInv
<1>2. CallbackOK(c, h, count)
  BY <1>1, CallbackIsOK DEF Calls
<1>3. /\ perl' \in [Interps -> PerlType]
      /\ \A j \in Interps : PerlOK(perl'[j], count')
  BY <1>1, <1>2, PerlStep DEF CallbackOK, Calls
<1>4. call' \in CallType
  BY <1>2 DEF Called, CallType, CallbackOK, Calls
<1>5. CallsNamedSub'
  <2>1. call'.out = c.out /\ call'.pkg = c.pkg /\ call'.name = h.name
    BY DEF Called, Calls
  <2> QED BY <1>2, <2>1 DEF CallsNamedSub, CallbackOK
<1>6. /\ count' \in Nat /\ HandlerOK(c.keep) /\ c.keep.name = h.name
      /\ stage' \in {"main", "vhost", "clone", "serving", "exited"}
  BY <1>1, <1>2 DEF CallbackOK, Calls
<1> QED BY <1>3, <1>4, <1>5, <1>6 DEF CallLeaves

\* A structure of the configuration is replaced by one with the same name.
LEMMA ConfStep ==
    ASSUME NEW C, ConfOK(C), NEW c, ChainOK(c, C), NEW id \in Slots, NEW h,
           HandlerOK(h), h.name = C[id].name, NEW D, D = [C EXCEPT ![id] = h]
    PROVE  ConfOK(D) /\ ChainOK(c, D)
<1>1. C \in [Slots -> HandlerType] /\ h \in HandlerType
  BY DEF ConfOK, HandlerOK
<1>2. /\ D \in [Slots -> HandlerType]
      /\ \A j \in Slots : D[j] = IF j = id THEN h ELSE C[j]
  BY <1>1
<1>3. \A j \in Slots : D[j].name = C[j].name
  BY <1>2
<1>4. ConfOK(D)
  BY <1>2, <1>3 DEF ConfOK, Slots
<1>5. \A i \in Slots : D[i].name = C[i].name
  BY <1>3
<1>6. ChainOK(c, D)
  BY ONLY ChainOK(c, C), <1>5, ChainFrame, Zenon
<1> QED BY <1>4, <1>6

LEMMA RunHandlerStep ==
    ASSUME NamedInv, NEW s \in Servers, NEW i \in Interps, NEW id \in Slots,
           RunHandler(s, i, id)
    PROVE  NamedInv'
<1>1. PICK c : Calls(s, i, conf[id], c) /\ conf' = [conf EXCEPT ![id] = c.keep]
  BY DEF RunHandler, Calls
<1>2. UNCHANGED <<opt, conn>>
  BY DEF RunHandler
<1>3. HandlerOK(conf[id]) /\ conf[id].name \in SubNames
  BY DEF RunHandler, NamedInv, ConfOK, NoName
<1>4. CallLeaves(conf[id], c)
  BY <1>1, <1>3, CallStep
<1>5. HandlerOK(c.keep) /\ c.keep.name = conf[id].name
  BY <1>4 DEF CallLeaves
<1>6. ConfOK(conf') /\ ChainOK(conn.chain, conf')
  <2>1. ConfOK(conf) /\ ChainOK(conn.chain, conf)
    BY DEF NamedInv, ConnOK
  <2> QED BY <1>1, <1>5, <2>1, ConfStep
<1>7. ConnOK(conn', conf')
  BY <1>2, <1>6 DEF NamedInv, ConnOK
<1> QED BY <1>2, <1>4, <1>6, <1>7 DEF NamedInv, CallLeaves

LEMMA ConnectStep ==
    ASSUME NamedInv, NEW s \in Servers, NEW i \in Interps, NEW fails \in BOOLEAN,
           Connect(s, i, fails)
    PROVE  NamedInv'
<1>1. PICK r \in {AddFilters(s, perl[i], "conn", fails)} :
         /\ conn' = [on |-> "conn", s |-> s, i |-> i, chain |-> r.chain, st |-> r.st]
         /\ perl' = [perl EXCEPT ![i] = r.P]
  BY DEF Connect
<1>2. UNCHANGED <<opt, stage, conf, count>> /\ call' = NoCall
  BY DEF Connect
<1>3. /\ perl \in [Interps -> PerlType] /\ count \in Nat
      /\ \A j \in Interps : PerlOK(perl[j], count)
  BY DEF NamedInv
<1>4. r \in Adding(conf, count)
  BY <1>1, <1>3, AddFiltersOK DEF Levels
<1>5. PerlOK(r.P, count) /\ ChainOK(r.chain, conf) /\ r.st \in {"ok", "failed"}
      /\ r.chain \in Seq(EntryType)
  BY <1>4 DEF Adding
<1>6. /\ perl' \in [Interps -> PerlType]
      /\ \A j \in Interps : PerlOK(perl'[j], count)
  BY <1>1, <1>3, <1>5, PerlStep
<1>7. ConnOK(conn', conf)
  BY <1>1, <1>5 DEF ConnOK, ConnType
<1> QED BY <1>2, <1>6, <1>7, NoCallOK DEF NamedInv, CallsNamedSub

LEMMA InsertFiltersStep ==
    ASSUME NamedInv, NEW fails \in BOOLEAN, InsertFilters(fails)
    PROVE  NamedInv'
<1> DEFINE i == conn.i
<1>1. PICK r \in {AddFilters(conn.s, perl[conn.i], "req", fails)} :
         /\ conn' = [conn EXCEPT !.on = "req", !.chain = r.chain \o @,
                                 !.st = IF @ = "ok" THEN r.st ELSE @]
         /\ perl' = [perl EXCEPT ![conn.i] = r.P]
  BY DEF InsertFilters
<1>2. UNCHANGED <<opt, stage, conf, count>> /\ call' = NoCall /\ conn.on = "conn"
  BY DEF InsertFilters
<1>3. /\ perl \in [Interps -> PerlType] /\ count \in Nat
      /\ \A j \in Interps : PerlOK(perl[j], count)
      /\ conn \in ConnType /\ ChainOK(conn.chain, conf)
      /\ conn.s \in Servers /\ conn.i \in Interps
  BY <1>2 DEF NamedInv, ConnOK
<1>4. r \in Adding(conf, count)
  BY <1>1, <1>3, AddFiltersOK DEF Levels
<1>5. PerlOK(r.P, count) /\ ChainOK(r.chain, conf) /\ r.st \in {"ok", "failed"}
  BY <1>4 DEF Adding
<1>6. /\ perl' \in [Interps -> PerlType]
      /\ \A j \in Interps : PerlOK(perl'[j], count)
  BY <1>1, <1>3, <1>5, PerlStep
<1>7. ConnOK(conn', conf)
  <2> DEFINE c == r.chain \o conn.chain
             t == IF conn.st = "ok" THEN r.st ELSE conn.st
  <2>1. ChainOK(c, conf)
    BY <1>3, <1>5, ChainConcat
  <2>2. t \in {"ok", "failed"} /\ c \in Seq(EntryType)
    BY <1>3, <1>5, <2>1 DEF ConnType, ChainOK
  <2>3. conn' = [conn EXCEPT !.on = "req", !.chain = c, !.st = t]
    BY <1>1
  <2> HIDE DEF c, t
  <2> QED BY <1>3, <2>1, <2>2, <2>3 DEF ConnOK, ConnType
<1> QED BY <1>2, <1>6, <1>7, NoCallOK DEF NamedInv, CallsNamedSub

\* An entry is put at the head of a chain, or an entry's structure is replaced.
LEMMA ChainPrepend ==
    ASSUME NEW C, NEW c, ChainOK(c, C), NEW h, HandlerOK(h), h.name.kind = "func",
           NEW level \in Levels
    PROVE  ChainOK(<<Entry("rt", level, h)>> \o c, C)
<1> DEFINE e == Entry("rt", level, h)
           d == <<e>>
<1>1. e \in EntryType /\ e.id = "rt" /\ e.h = h
  BY DEF Entry, EntryType, HandlerOK
<1> HIDE DEF e
<1>2. d \in Seq(EntryType) /\ Len(d) = 1 /\ d[1] = e
  BY <1>1
<1> HIDE DEF d
<1>3. ASSUME NEW k \in 1 .. Len(d)
      PROVE  IF d[k].id = "rt" THEN HandlerOK(d[k].h) /\ d[k].h.name.kind = "func"
             ELSE C[d[k].id].name # NoName
  <2>1. k = 1
    BY <1>2
  <2> QED BY <1>1, <1>2, <2>1
<1>4. ChainOK(d, C)
  BY <1>2, <1>3 DEF ChainOK
<1>5. ChainOK(d \o c, C)
  BY <1>4, ChainConcat
<1> QED BY <1>5 DEF d, e

LEMMA ChainReplace ==
    ASSUME NEW C, NEW c, ChainOK(c, C), NEW k \in 1 .. Len(c), c[k].id = "rt",
           NEW h, HandlerOK(h), h.name.kind = "func"
    PROVE  ChainOK([c EXCEPT ![k].h = h], C)
<1> DEFINE e == [c[k] EXCEPT !.h = h]
           d == [c EXCEPT ![k] = e]
<1>1. c \in Seq(EntryType) /\ c[k] \in EntryType
  BY DEF ChainOK
<1>2. e \in EntryType /\ e.id = "rt" /\ e.h = h
  BY <1>1 DEF EntryType, HandlerOK
<1>3. d = [c EXCEPT ![k].h = h]
  OBVIOUS
<1> HIDE DEF e
<1>4. d \in Seq(EntryType) /\ Len(d) = Len(c)
      /\ \A j \in 1 .. Len(d) : d[j] = IF j = k THEN e ELSE c[j]
  BY <1>1, <1>2
<1> HIDE DEF d
<1>5. ASSUME NEW j \in 1 .. Len(d)
      PROVE  IF d[j].id = "rt" THEN HandlerOK(d[j].h) /\ d[j].h.name.kind = "func"
             ELSE C[d[j].id].name # NoName
  <2>1. CASE j = k
    <3>1. d[j] = e
      BY <1>4, <2>1
    <3> QED BY <1>2, <3>1
  <2>2. CASE j # k
    <3>1. d[j] = c[j] /\ j \in 1 .. Len(c)
      BY <1>4, <2>2
    <3> QED BY <3>1 DEF ChainOK
  <2> QED BY <2>1, <2>2
<1>6. ChainOK(d, C)
  BY <1>4, <1>5 DEF ChainOK
<1> QED BY <1>3, <1>6

LEMMA RunFilterStep ==
    ASSUME NamedInv, NEW k \in 1 .. Len(conn.chain), RunFilter(k)
    PROVE  NamedInv'
<1> DEFINE e == conn.chain[k]
           h == IF e.id = "rt" THEN e.h ELSE conf[e.id]
<1>1. /\ conn \in ConnType /\ ChainOK(conn.chain, conf) /\ ConfOK(conf)
      /\ conn.s \in Servers /\ conn.i \in Interps
  BY DEF RunFilter, NamedInv, ConnOK
<1>2. e \in EntryType /\ (e.id = "rt" \/ e.id \in Slots)
  <2>1. e \in EntryType
    <3>1. conn.chain \in Seq(EntryType)
      BY <1>1 DEF ChainOK
    <3> QED BY <3>1
  <2> HIDE DEF e
  <2> QED BY <2>1 DEF EntryType, Slots
<1>3. HandlerOK(h) /\ h.name # NoName /\ (e.id = "rt" => h.name.kind = "func")
  BY <1>1, <1>2 DEF ChainOK, ConfOK, NoName
<1>4. h.name \in SubNames
  <2>1. h.name \in NameType
    BY <1>3, SMTT(60) DEF HandlerOK, HandlerType
  <2>2. h.name.kind # "httpd"
    BY Zenon DEF RunFilter
  <2> HIDE DEF h
  <2> QED BY <1>3, <2>1, <2>2, SMTT(60) DEF NameType, HttpdNames
<1>5. PICK c : /\ Calls(conn.s, conn.i, h, c)
               /\ IF e.id = "rt"
                  THEN /\ conn' = [conn EXCEPT !.chain[k].h = c.keep]
                       /\ UNCHANGED conf
                  ELSE /\ conf' = [conf EXCEPT ![e.id] = c.keep]
                       /\ UNCHANGED conn
  BY DEF RunFilter, Calls
<1>6. UNCHANGED opt
  BY DEF RunFilter
<1>7. CallLeaves(h, c)
  <2> HIDE DEF h
  <2> QED BY <1>1, <1>3, <1>4, <1>5, CallStep
<1>8. HandlerOK(c.keep) /\ c.keep.name = h.name
  BY <1>7 DEF CallLeaves
<1>9. ConfOK(conf') /\ ConnOK(conn', conf')
  <2>1. CASE e.id = "rt"
    <3> DEFINE d == [conn.chain EXCEPT ![k].h = c.keep]
    <3>1. conn' = [conn EXCEPT !.chain = d] /\ conf' = conf
      BY <1>5, <2>1
    <3>2. c.keep.name.kind = "func"
      BY <1>3, <1>8, <2>1
    <3>3. ChainOK(d, conf)
      BY <1>1, <1>8, <2>1, <3>2, ChainReplace
    <3> HIDE DEF d, h, e
    <3>4. d \in Seq(EntryType)
      BY <3>3 DEF ChainOK
    <3>5. conn' \in ConnType /\ conn'.chain = d /\ conn'.s = conn.s /\ conn'.i = conn.i
      BY <1>1, <3>1, <3>4 DEF ConnType
    <3> QED BY <1>1, <3>1, <3>3, <3>5 DEF ConnOK
  <2>2. CASE e.id # "rt"
    <3>1. conf' = [conf EXCEPT ![e.id] = c.keep] /\ conn' = conn
      BY <1>5, <2>2
    <3>2. c.keep.name = conf[e.id].name /\ e.id \in Slots
      BY <1>2, <1>8, <2>2
    <3> HIDE DEF h, e
    <3>3. ConfOK(conf') /\ ChainOK(conn.chain, conf')
      BY <1>1, <1>8, <3>1, <3>2, ConfStep
    <3> QED BY <1>1, <3>1, <3>3 DEF ConnOK
  <2> QED BY <2>1, <2>2
<1> HIDE DEF h
<1> QED BY <1>6, <1>7, <1>9, SMTT(60) DEF NamedInv, CallLeaves

LEMMA RuntimeAddStep ==
    ASSUME NamedInv, NEW p \in Added, NEW level \in Levels, NEW fails \in BOOLEAN,
           RuntimeAdd(p, level, fails)
    PROVE  NamedInv'
<1> DEFINE name == [kind |-> "func", pkg |-> p]
           h == NewHandler(name, "none")
           Kind(g) == IF level = "conn" THEN "conn" \in g.attrs
                      ELSE g.attrs = {} \/ "req" \in g.attrs
           Init(r, ok) == IF ok /\ r.h.next # NULL
                          THEN RunInit(conn.s, r.P, r.h.next, fails)
                          ELSE [P |-> r.P, st |-> IF ok THEN "ok" ELSE "failed"]
<1>0. PICK r \in {Resolve(h, perl[conn.i], count, TRUE)} :
       \E run \in {Init(r, r.st = "1" /\ Kind(r.h))} :
         /\ conn' = [conn EXCEPT !.chain = <<Entry("rt", level, r.h)>> \o @,
                                 !.st = IF @ = "ok" THEN run.st ELSE @]
         /\ perl' = [perl EXCEPT ![conn.i] = run.P]
         /\ count' = r.n
  BY DEF RuntimeAdd
<1>1. PICK run \in {Init(r, r.st = "1" /\ Kind(r.h))} :
         /\ conn' = [conn EXCEPT !.chain = <<Entry("rt", level, r.h)>> \o @,
                                 !.st = IF @ = "ok" THEN run.st ELSE @]
         /\ perl' = [perl EXCEPT ![conn.i] = run.P]
         /\ count' = r.n
  BY <1>0
<1>2. UNCHANGED <<opt, stage, conf>> /\ call' = NoCall /\ conn.on = "req"
  BY DEF RuntimeAdd
<1>3. /\ perl \in [Interps -> PerlType] /\ count \in Nat
      /\ \A j \in Interps : PerlOK(perl[j], count)
      /\ conn \in ConnType /\ ChainOK(conn.chain, conf)
      /\ conn.s \in Servers /\ conn.i \in Interps
  BY <1>2 DEF NamedInv, ConnOK
<1>4. HandlerOK(h) /\ ~h.parsed /\ h.name = name /\ name \in SubNames
  <2>1. name \in SubNames /\ name \in NameType /\ "none" \in Prefixes
    BY ResolveAssumption DEF SubNames, NameType, Prefixes
  <2> HIDE DEF name
  <2> QED BY <2>1, NewHandlerOK
<1>5. ResOK(r, name, count)
  <2>1. r = Resolve(h, perl[conn.i], count, TRUE)
    BY <1>0
  <2> HIDE DEF h, name
  <2>2. ResOK(Resolve(h, perl[conn.i], count, TRUE), h.name, count)
    BY <1>3, <1>4, ResolveOK
  <2> QED BY <1>4, <2>1, <2>2
<1>6. HandlerOK(r.h) /\ r.h.name.kind = "func" /\ PerlOK(r.P, r.n)
      /\ r.n \in Nat /\ count <= r.n
  <2>1. name.kind = "func"
    OBVIOUS
  <2> HIDE DEF name, h
  <2> QED BY <1>5, <2>1 DEF ResOK
<1>7. r.h.next \in Packages \cup {NULL}
  BY <1>6 DEF HandlerOK, HandlerType
<1>8. PerlOK(run.P, r.n) /\ run.st \in {"ok", "failed"}
  <2> DEFINE ok == r.st = "1" /\ Kind(r.h)
  <2>1. run = IF ok /\ r.h.next # NULL
              THEN RunInit(conn.s, r.P, r.h.next, fails)
              ELSE [P |-> r.P, st |-> IF ok THEN "ok" ELSE "failed"]
    BY <1>1
  <2> HIDE DEF ok
  <2>2. CASE ok /\ r.h.next # NULL
    <3>1. r.h.next \in Packages /\ run = RunInit(conn.s, r.P, r.h.next, fails)
      BY <1>7, <2>1, <2>2
    <3> QED BY <1>6, <3>1, RunInitOK
  <2>3. CASE ~(ok /\ r.h.next # NULL)
    <3>1. run = [P |-> r.P, st |-> IF ok THEN "ok" ELSE "failed"]
      BY <2>1, <2>3
    <3> QED BY <1>6, <3>1
  <2> QED BY <2>2, <2>3
<1>9. /\ perl' \in [Interps -> PerlType]
      /\ \A j \in Interps : PerlOK(perl'[j], count')
  BY <1>1, <1>3, <1>6, <1>8, PerlStep, ZenonT(60)
<1>10. ConnOK(conn', conf)
  <2> DEFINE c == <<Entry("rt", level, r.h)>> \o conn.chain
             t == IF conn.st = "ok" THEN run.st ELSE conn.st
  <2>1. ChainOK(c, conf)
    BY <1>3, <1>6, ChainPrepend
  <2>2. t \in {"ok", "failed"} /\ c \in Seq(EntryType)
    BY <1>3, <1>8, <2>1 DEF ConnType, ChainOK
  <2>3. conn' = [conn EXCEPT !.chain = c, !.st = t]
    BY <1>1
  <2> HIDE DEF c, t
  <2> QED BY <1>3, <2>1, <2>2, <2>3 DEF ConnOK, ConnType
<1>11. count' \in Nat
  BY <1>1, <1>6
<1> QED BY <1>2, <1>9, <1>10, <1>11, NoCallOK DEF NamedInv, CallsNamedSub

LEMMA DisconnectStep == ASSUME NamedInv, Disconnect PROVE NamedInv'
<1>1. ConnOK(NoConn, conf)
  <2>1. <<>> \in Seq(EntryType) /\ ChainOK(<<>>, conf)
    BY DEF ChainOK
  <2> QED BY <2>1 DEF NoConn, ConnType, ConnOK
<1> QED BY <1>1, NoCallOK DEF Disconnect, NamedInv, CallsNamedSub

LEMMA NamedStep == NamedInv /\ [ResolveNext]_rvars => NamedInv'
<1> SUFFICES ASSUME NamedInv, [ResolveNext]_rvars PROVE NamedInv'
  OBVIOUS
<1>1. ASSUME NEW s \in Servers, HashHandlers(s) PROVE NamedInv'
  BY <1>1, HashHandlersStep
<1>2. CASE InitClones
  BY <1>2, InitClonesStep
<1>3. ASSUME NEW s \in Servers, NEW i \in Interps, NEW id \in Slots,
             RunHandler(s, i, id)
      PROVE  NamedInv'
  BY <1>3, RunHandlerStep
<1>4. ASSUME NEW s \in Servers, NEW i \in Interps, NEW fails \in BOOLEAN,
             Connect(s, i, fails)
      PROVE  NamedInv'
  BY <1>4, ConnectStep
<1>5. ASSUME NEW fails \in BOOLEAN, InsertFilters(fails) PROVE NamedInv'
  BY <1>5, InsertFiltersStep
<1>6. ASSUME NEW k \in 1 .. Len(conn.chain), RunFilter(k) PROVE NamedInv'
  BY <1>6, RunFilterStep
<1>7. ASSUME NEW p \in Added, NEW level \in Levels, NEW fails \in BOOLEAN,
             RuntimeAdd(p, level, fails)
      PROVE  NamedInv'
  BY <1>7, RuntimeAddStep
<1>8. CASE Disconnect
  BY <1>8, DisconnectStep
<1>9. CASE UNCHANGED rvars
  BY <1>9 DEF rvars, NamedInv, CallsNamedSub
<1> QED BY <1>1, <1>2, <1>3, <1>4, <1>5, <1>6, <1>7, <1>8, <1>9 DEF ResolveNext

-----------------------------------------------------------------------------
(* The theorems.                                                           *)

\* The invariant that the theorems below rest on: the structures are empty or
\* hold what their names denote, and the interpreters, the counter and the
\* chains agree with them (modperl_mgv_resolve, modperl_callback).
THEOREM NamedInvariant == ResolveSpec => []NamedInv
<1>1. ResolveInit => NamedInv
  BY NamedInit
<1>2. NamedInv /\ [ResolveNext]_rvars => NamedInv'
  BY NamedStep
<1> QED BY <1>1, <1>2, PTL DEF ResolveSpec

LEMMA NamedTypes == NamedInv => ResolveTypeOK
<1> SUFFICES ASSUME NamedInv PROVE ResolveTypeOK
  OBVIOUS
<1>1. ASSUME NEW i \in Interps
      PROVE  perl[i].loaded \subseteq perl[i].stash /\ perl[i].anon \subseteq 1 .. count
  BY DEF NamedInv, PerlOK
<1>2. ASSUME NEW id \in Slots
      PROVE  /\ conf[id].parsed => (conf[id].anon <=> conf[id].cv = NULL)
             /\ conf[id].method /\ conf[id].parsed => conf[id].obj # NoObj
             /\ conf[id].next # NULL => "hasinit" \in conf[id].attrs
  BY DEF NamedInv, ConfOK, HandlerOK
<1>3. /\ opt \in [threaded : BOOLEAN, parent : BOOLEAN, autoload : BOOLEAN]
      /\ stage \in {"main", "vhost", "clone", "serving", "exited"}
      /\ conf \in [Slots -> HandlerType]
      /\ perl \in [Interps -> PerlType]
      /\ count \in Nat
      /\ call \in CallType \cup {NoCall}
      /\ conn \in ConnType
  BY DEF NamedInv, ConfOK, ConnOK
<1> QED BY <1>1, <1>2, <1>3 DEF ResolveTypeOK

\* Whatever packages exist and load, and whatever other servers and requests did
\* with the structure, interpreter and counter before: a callback calls the sub
\* its directive names, or none (modperl_callback); and the state is well typed.
THEOREM CallsAreNamed == ResolveSpec => [](ResolveTypeOK /\ CallsNamedSub)
<1>1. NamedInv => ResolveTypeOK /\ CallsNamedSub
  BY NamedTypes DEF NamedInv
<1> QED BY <1>1, NamedInvariant, PTL

\* A callback of a threaded server leaves the structure in the configuration.
LEMMA CallKeeps ==
    ASSUME NamedInv, opt.threaded, NEW s, NEW i \in Interps, NEW h, HandlerOK(h),
           h.name \in SubNames
    PROVE  Callback(s, h, perl[i], count).keep = h
<1>1. /\ opt \in [threaded : BOOLEAN, parent : BOOLEAN, autoload : BOOLEAN]
      /\ count \in Nat /\ PerlOK(perl[i], count)
  BY DEF NamedInv
<1>2. CallbackOK(Callback(s, h, perl[i], count), h, count)
  BY <1>1, CallbackIsOK
<1> QED BY <1>2 DEF CallbackOK

LEMMA RunHandlerKeeps ==
    ASSUME NamedInv, opt.threaded, NEW s \in Servers, NEW i \in Interps,
           NEW id \in Slots, RunHandler(s, i, id)
    PROVE  conf' = conf
<1>1. conf' = [conf EXCEPT ![id] = Callback(s, conf[id], perl[i], count).keep]
  BY DEF RunHandler
<1>2. HandlerOK(conf[id]) /\ conf[id].name \in SubNames
  BY DEF RunHandler, NamedInv, ConfOK, NoName
<1>3. Callback(s, conf[id], perl[i], count).keep = conf[id]
  BY <1>2, CallKeeps
<1>4. conf \in [Slots -> HandlerType]
  BY DEF NamedInv, ConfOK
<1> QED BY <1>1, <1>3, <1>4

LEMMA RunFilterKeeps ==
    ASSUME NamedInv, opt.threaded, NEW k \in 1 .. Len(conn.chain), RunFilter(k)
    PROVE  conf' = conf
<1> DEFINE e == conn.chain[k]
<1>1. CASE e.id = "rt"
  BY <1>1 DEF RunFilter
<1>2. CASE e.id # "rt"
  <2> DEFINE h == conf[e.id]
  <2>1. conf' = [conf EXCEPT ![e.id] = Callback(conn.s, h, perl[conn.i], count).keep]
        /\ h.name.kind # "httpd"
    BY <1>2, Zenon DEF RunFilter
  <2>2. ChainOK(conn.chain, conf) /\ ConfOK(conf) /\ conn.i \in Interps
    BY DEF RunFilter, NamedInv, ConnOK
  <2>3. e.id \in Slots
    <3>1. conn.chain \in Seq(EntryType)
      BY <2>2 DEF ChainOK
    <3>2. e \in EntryType
      BY <3>1
    <3> HIDE DEF e
    <3> QED BY <1>2, <3>2 DEF EntryType, Slots
  <2>4. h.name # NoName /\ HandlerOK(h)
    BY <1>2, <2>2, <2>3 DEF ChainOK, ConfOK
  <2>5. h.name \in SubNames
    <3>1. h.name \in NameType
      BY <2>4 DEF HandlerOK, HandlerType
    <3> HIDE DEF h
    <3> QED BY <2>1, <2>4, <3>1 DEF NameType, HttpdNames
  <2> HIDE DEF h
  <2>6. Callback(conn.s, h, perl[conn.i], count).keep = h
    BY <2>2, <2>4, <2>5, CallKeeps
  <2>7. conf \in [Slots -> HandlerType]
    BY <2>2 DEF ConfOK
  <2> QED BY <2>1, <2>3, <2>6, <2>7, SMTT(60) DEF h
<1> QED BY <1>1, <1>2

LEMMA FrozenStep ==
    NamedInv /\ [ResolveNext]_rvars
        => [stage = "serving" /\ opt.threaded => UNCHANGED conf]_rvars
<1> SUFFICES ASSUME NamedInv, ResolveNext, stage = "serving", opt.threaded
             PROVE  UNCHANGED conf
  OBVIOUS
<1>1. ASSUME NEW s \in Servers, HashHandlers(s) PROVE FALSE
  BY <1>1 DEF HashHandlers, Servers
<1>2. ASSUME NEW s \in Servers, NEW i \in Interps, NEW id \in Slots,
             RunHandler(s, i, id)
      PROVE  conf' = conf
  BY <1>2, RunHandlerKeeps
<1>3. ASSUME NEW k \in 1 .. Len(conn.chain), RunFilter(k) PROVE conf' = conf
  BY <1>3, RunFilterKeeps, Zenon
<1>4. ASSUME \/ InitClones \/ Disconnect
             \/ \E s \in Servers, i \in Interps, fails \in BOOLEAN :
                  Connect(s, i, fails)
             \/ \E fails \in BOOLEAN : InsertFilters(fails)
             \/ \E p \in Added, level \in Levels, fails \in BOOLEAN :
                  RuntimeAdd(p, level, fails)
      PROVE  conf' = conf
  BY <1>4 DEF InitClones, Disconnect, Connect, InsertFilters, RuntimeAdd
<1> QED BY <1>1, <1>2, <1>3, <1>4 DEF ResolveNext

\* The handler structures that threads share without a lock are never written
\* while a threaded MPM serves: modperl_handler_resolve and modperl_callback
\* fill in a copy.
THEOREM SharedConfigFrozen == ResolveSpec => ConfigFrozen
<1>1. NamedInv /\ [ResolveNext]_rvars
        => [stage = "serving" /\ opt.threaded => UNCHANGED conf]_rvars
  BY FrozenStep
<1> QED BY <1>1, NamedInvariant, PTL DEF ResolveSpec, ConfigFrozen

-----------------------------------------------------------------------------
(* Handlers that may be relied on are found.  The second inductive         *)
(* invariant, FoundInv, and the third, LevelInv, for the filters' levels.  *)


\* An interpreter has a package's base class with it, and a symbol table without
\* a module only where user code or a failed load has left one.
PerlShape(P) ==
    /\ \A p \in P.loaded : Code[p].isa # NULL => Code[p].isa \in P.loaded
    /\ \A p \in P.stash \ P.loaded : p \in Vivified \/ ~Code[p].loads

\* A structure's object is the one its name has, its attributes those of its sub.
Shape(h) ==
    /\ h.obj.kind = "var" => h.name.kind = "object" /\ h.obj.pkg = h.name.pkg
    /\ h.parsed /\ ~h.anon => h.attrs = Code[h.cv].attrs

\* Names that give a package to look in, and load.
ByPackage(name) == name.kind \in {"class", "method"}

\* What the main server's interpreter P must have of a filled-in structure.
Home(h, P) ==
    h.parsed =>
        /\ h.anon => h.obj.id \in P.anon
        /\ ByPackage(h.name) /\ (opt.threaded \/ ~opt.parent) => h.cv \in P.loaded

\* An empty structure that the main server has left to the virtual host, whose
\* interpreter is P.
Left(h, P) ==
    ByPackage(h.name) /\ ~h.parsed =>
        /\ ~h.auto /\ ~opt.autoload
        /\ h.name.pkg \in P.loaded => Denotes(h.name) = NULL

\* What HandlerAlwaysFound rests on: interpreters and structures have their shape,
\* a connection is served by an interpreter of its server, the virtual host starts
\* with no more than the main server has, structures are filled in from packages
\* and anonymous subs of the main server, and clones have what their parent has.
FoundInv ==
    /\ \A i \in Interps : PerlShape(perl[i])
    /\ \A id \in Slots : Shape(conf[id])
    /\ \A k \in 1 .. Len(conn.chain) :
         conn.chain[k].id = "rt" => Shape(conn.chain[k].h)
    /\ conn.on # "no" => conn.i \in InterpsOf(conn.s)
    /\ stage \in {"main", "vhost", "clone"} => call = NoCall /\ conn = NoConn
    /\ stage \in {"main", "vhost"} => perl["vhost"].loaded \subseteq perl["main"].loaded
    /\ stage # "exited" => \A id \in Slots : Home(conf[id], perl["main"])
    /\ stage \notin {"main", "exited"} =>
         \A id \in Slots : conf[id].name.kind = "anon" => conf[id].parsed
    /\ stage = "vhost" => \A id \in Slots : Left(conf[id], perl["vhost"])
    /\ stage = "serving" /\ opt.threaded =>
         \A s \in Servers : \A i \in Clones[s] :
            perl[s].loaded \subseteq perl[i].loaded /\ perl[s].anon \subseteq perl[i].anon
    /\ HandlerAlwaysFound

\* A filter whose sub is known once the server has started: a package that is
\* loaded when the directive is read unless its name begins with `-'.
Certain(h) == h.name.kind = "class" /\ h.prefix # "-"

\* Filter id is not in chain c at that level; it is there exactly once.
Never(c, id, level) ==
    \A j \in 1 .. Len(c) : ~(c[j].id = id /\ c[j].level = level)
Once(c, id, level) ==
    \E k \in 1 .. Len(c) : \A j \in 1 .. Len(c) :
        c[j].id = id /\ c[j].level = level <=> j = k

\* Filter id, with structure h, is in chain c at that level if it belongs there.
LevelOK(c, h, id, level) ==
    IF Takes(level, h) THEN Once(c, id, level) ELSE Never(c, id, level)

\* The chain of connection c, before and after the request's filters are added.
Placed(h, id, c) ==
    /\ c.on = "conn" /\ c.st = "ok" =>
         LevelOK(c.chain, h, id, "conn") /\ Never(c.chain, id, "req")
    /\ c.on = "req" /\ c.st = "ok" =>
         LevelOK(c.chain, h, id, "conn") /\ LevelOK(c.chain, h, id, "req")

\* What FilterLevel rests on: a filter that is certain is loaded by the end of
\* startup, and its place in the chain of the connection.
LevelInv ==
    \A id \in {"f1", "f2"} : Certain(conf[id]) =>
        /\ conf[id].parsed \/ conf[id].auto
        /\ stage \notin {"main", "exited"} \/ conn.on # "no" => conf[id].parsed
        /\ Placed(conf[id], id, conn)

-----------------------------------------------------------------------------
(* Interpreters and names.                                                 *)

\* What an interpreter has is never taken away.
Grows(P, Q) == P.loaded \subseteq Q.loaded /\ P.anon \subseteq Q.anon

\* The init handler that a sub of package q names cannot be one.
BadInit(q) == "hasinit" \in Code[q].attrs /\ Code[q].init = "bad"

\* modperl_require_module
LEMMA RequireShape ==
    ASSUME NEW P, NEW n, PerlOK(P, n), PerlShape(P), NEW p \in Packages
    PROVE  /\ PerlShape(Require(P, p)) /\ Grows(P, Require(P, p))
           /\ Code[p].loads => p \in Require(P, p).loaded
<1> DEFINE W == WithIsa(p)
<1>1. W \subseteq Packages /\ p \in W
  BY DEF WithIsa
<1>2. ASSUME NEW q \in W, Code[q].isa # NULL PROVE Code[q].isa \in W
  <2>1. CASE q = p
    <3>1. Code[p].isa \in Packages
      BY <1>2, <2>1, ResolveAssumption
    <3> QED BY <2>1, <3>1 DEF WithIsa
  <2>2. CASE q # p
    <3>1. Code[p].isa = q /\ q \in Packages
      BY <1>2, <2>2 DEF WithIsa
    <3>2. q # NULL
      BY <3>1, ResolveAssumption
    <3>3. Code[q].isa = NULL
      BY <3>1, <3>2, ResolveAssumption
    <3> QED BY <1>2, <3>3
  <2> QED BY <2>1, <2>2
<1>3. P \in PerlType
  BY DEF PerlOK
<1> HIDE DEF W
<1>4. CASE Code[p].loads
  <2> DEFINE Q == [P EXCEPT !.loaded = @ \cup W, !.stash = @ \cup W]
  <2>1. Require(P, p) = Q
    BY <1>4 DEF Require, W
  <2>2. Q.loaded = P.loaded \cup W /\ Q.stash = P.stash \cup W /\ Q.anon = P.anon
    BY <1>3 DEF PerlType
  <2> HIDE DEF Q
  <2>3. PerlShape(Q)
    BY <1>2, <2>2 DEF PerlShape
  <2> QED BY <1>1, <2>1, <2>2, <2>3 DEF Grows
<1>5. CASE ~Code[p].loads
  <2> DEFINE Q == [P EXCEPT !.stash = @ \cup {p}]
  <2>1. Require(P, p) = Q
    BY <1>5 DEF Require
  <2>2. Q.loaded = P.loaded /\ Q.stash = P.stash \cup {p} /\ Q.anon = P.anon
    BY <1>3 DEF PerlType
  <2> HIDE DEF Q
  <2>3. PerlShape(Q)
    BY <1>5, <2>2 DEF PerlShape
  <2> QED BY <1>5, <2>1, <2>2, <2>3 DEF Grows
<1> QED BY <1>4, <1>5

\* modperl_mgv_lookup_autoload
LEMMA AutoloadShape ==
    ASSUME NEW P, NEW n, PerlOK(P, n), PerlShape(P), NEW s, NEW q \in Packages
    PROVE  /\ PerlShape(LookupAutoload(s, P, q)) /\ Grows(P, LookupAutoload(s, P, q))
           /\ s = "vhost" /\ opt.parent /\ Code[q].loads
                => q \in LookupAutoload(s, P, q).loaded
BY RequireShape DEF LookupAutoload, Grows

\* The package a name denotes can be loaded, and is there when the package that
\* is named has been loaded.
LEMMA DenotesLoads ==
    ASSUME NEW name \in SubNames, Denotes(name) # NULL
    PROVE  /\ Denotes(name) \in Packages /\ Code[Denotes(name)].loads
           /\ name.pkg \in Packages /\ Code[name.pkg].loads /\ name.kind # "anon"
           /\ \A P : PerlShape(P) /\ name.pkg \in P.loaded
                        => Denotes(name) \in P.loaded
<1> DEFINE p == name.pkg
<1>1. name.kind # "anon" /\ Code[p].loads
  BY DEF Denotes
<1>2. p \in Packages
  BY <1>1 DEF SubNames
<1>3. Code[p].isa \in Packages \cup {NULL}
  BY <1>2, ResolveAssumption
<1>4. Denotes(name) = p \/ (Code[p].isa # NULL /\ Denotes(name) = Code[p].isa)
  BY DEF Denotes
<1>5. Code[p].isa # NULL => Code[Code[p].isa].loads
  BY <1>1, <1>2, ResolveAssumption
<1> HIDE DEF p
<1>6. \A P : PerlShape(P) /\ p \in P.loaded => Denotes(name) \in P.loaded
  BY <1>4 DEF PerlShape
<1> QED BY <1>1, <1>2, <1>3, <1>4, <1>5, <1>6 DEF p

\* gv_fetchmethod finds what there is.
LEMMA FetchMethodFinds ==
    ASSUME NEW P, NEW n, PerlOK(P, n), NEW name \in SubNames,
           name.kind \notin {"anon", "func"}, name.pkg \in P.loaded
    PROVE  FetchMethod(P, name.pkg) = Denotes(name)
<1>1. Code[name.pkg].loads
  BY DEF PerlOK
<1> QED BY <1>1 DEF FetchMethod, Denotes

-----------------------------------------------------------------------------
(* modperl_mgv_resolve finds what there is.                                *)

\* What a lookup of the structure h in interpreter P leaves, besides ResOK.
ResMore(r, h, P) ==
    /\ PerlShape(r.P) /\ Grows(P, r.P)
    /\ Shape(r.h) /\ r.h.prefix = h.prefix /\ r.h.auto = h.auto
    /\ r.h.parsed => IF r.h.anon THEN r.h.obj.id \in r.P.anon
                     ELSE r.h.cv \in r.P.loaded

\* A lookup that finds nothing.
LEMMA ResMoreIs ==
    ASSUME NEW st, NEW h, HandlerOK(h), ~h.parsed, Shape(h), NEW P, PerlShape(P),
           NEW n
    PROVE  ResMore(Res(st, h, P, n), h, P)
BY DEF ResMore, Res, Grows

\* The sub has been found in package q, which has been loaded.
LEMMA FoundMore ==
    ASSUME NEW h, HandlerOK(h), ~h.parsed, Shape(h), NEW P, PerlShape(P),
           NEW n, NEW q \in P.loaded, q \in Packages
    PROVE  /\ ResMore(Found(h, P, n, q), h, P)
           /\ Found(h, P, n, q).h.parsed /\ Found(h, P, n, q).P = P
           /\ Found(h, P, n, q).st \in {"1", "croak"}
           /\ ~BadInit(q) => Found(h, P, n, q).st = "1"
<1> DEFINE g == [h EXCEPT !.attrs = AttrsOf(q), !.cv = q, !.parsed = TRUE]
           k == [g EXCEPT !.next = q]
<1>1. h \in HandlerType
  BY DEF HandlerOK
<1>2. ~h.anon
  BY DEF HandlerOK
<1>3. /\ g.name = h.name /\ g.parsed = TRUE /\ g.anon = h.anon /\ g.cv = q
      /\ g.obj = h.obj /\ g.attrs = AttrsOf(q) /\ g.prefix = h.prefix
      /\ g.auto = h.auto
  BY <1>1 DEF HandlerType
<1>4. /\ k.name = h.name /\ k.parsed = TRUE /\ k.anon = h.anon /\ k.cv = q
      /\ k.obj = h.obj /\ k.attrs = AttrsOf(q) /\ k.prefix = h.prefix
      /\ k.auto = h.auto
  BY <1>1 DEF HandlerType
<1>5. k = [g EXCEPT !.next = g.cv]
  BY <1>3
<1>6. Found(h, P, n, q) = DeepResolve(g, P, n)
  BY DEF Found
<1> HIDE DEF g, k
<1>7. Shape(g) /\ Shape(k)
  BY <1>2, <1>3, <1>4 DEF Shape, AttrsOf
<1>8. ASSUME NEW st PROVE /\ ResMore(Res(st, g, P, n), h, P) /\ ResMore(Res(st, k, P, n), h, P)
                          /\ Res(st, g, P, n).h = g /\ Res(st, k, P, n).h = k
                          /\ Res(st, g, P, n).P = P /\ Res(st, k, P, n).P = P
                          /\ Res(st, g, P, n).st = st /\ Res(st, k, P, n).st = st
  BY <1>2, <1>3, <1>4, <1>7 DEF ResMore, Res, Grows
<1>9. \/ Found(h, P, n, q) = Res("1", g, P, n)
      \/ Found(h, P, n, q) = Res("croak", g, P, n) /\ BadInit(q)
      \/ Found(h, P, n, q) = Res("1", k, P, n)
  BY <1>3, <1>5, <1>6 DEF DeepResolve, BadInit, AttrsOf
<1> QED BY <1>3, <1>4, <1>8, <1>9

\* The end of the function.
LEMMA ResolveMethodMore ==
    ASSUME NEW h, HandlerOK(h), ~h.parsed, Shape(h), h.name \in SubNames,
           h.name.kind \notin {"anon", "func"}, NEW P, NEW n \in Nat,
           PerlOK(P, n), PerlShape(P), NEW r,
           r = ResolveMethod(h, P, n, h.name.pkg, FetchMethod(P, h.name.pkg))
    PROVE  /\ ResMore(r, h, P) /\ r.P = P
           /\ r.h.parsed => h.name.pkg \in P.loaded
           /\ h.auto => r.st # "0"
           /\ h.name.pkg \in P.loaded /\ Denotes(h.name) # NULL =>
                r.h.parsed /\ (~BadInit(Denotes(h.name)) => r.st = "1")
<1> DEFINE p == h.name.pkg
           q == FetchMethod(P, p)
           m == h.method \/ Code[q].method
           g == WithClass(h, p, m)
           o == IF m /\ h.obj = NoObj
                THEN [kind |-> "class", pkg |-> p, id |-> 0] ELSE h.obj
<1>1. h \in HandlerType
  BY DEF HandlerOK
<1>2. p \in P.loaded => q = Denotes(h.name)
  BY FetchMethodFinds
<1>3. CASE q = NULL
  <2> DEFINE t == IF h.auto THEN "croak" ELSE "0"
  <2>1. r = Res(t, h, P, n)
    BY <1>3 DEF ResolveMethod
  <2>2. ResMore(Res(t, h, P, n), h, P)
    BY ResMoreIs
  <2>3. r.h = h /\ r.P = P /\ r.st = t
    BY <2>1 DEF Res
  <2>4. h.auto => t # "0"
    OBVIOUS
  <2> HIDE DEF t
  <2> QED BY <1>2, <1>3, <2>1, <2>2, <2>3, <2>4
<1>4. CASE q # NULL
  <2>1. q \in Packages /\ q = Denotes(h.name)
    BY <1>4, FetchMethodDenotes
  <2>2. p \in P.loaded
    BY <1>4 DEF FetchMethod
  <2>3. q \in P.loaded
    BY <1>4, <2>1, <2>2, DenotesLoads
  <2>4. p \in Packages
    BY DEF SubNames
  <2>5. m \in BOOLEAN
    BY <1>1, <2>1, ResolveAssumption DEF HandlerType
  <2>6. o \in ObjType /\ (o.kind = "var" => o = h.obj)
    BY <1>1, <2>4 DEF HandlerType, ObjType
  <2>7. g = [h EXCEPT !.method = m, !.obj = o]
    <3> HIDE DEF m
    <3> QED BY <1>1 DEF WithClass, HandlerType
  <2>8. r = Found(g, P, n, q)
    BY <1>4 DEF ResolveMethod
  <2> HIDE DEF m, o, g
  <2>9. g \in HandlerType
    BY <1>1, <2>5, <2>6, <2>7 DEF HandlerType
  <2>10. /\ g.name = h.name /\ g.parsed = h.parsed /\ g.anon = h.anon
         /\ g.cv = h.cv /\ g.next = h.next /\ g.obj = o /\ g.prefix = h.prefix
         /\ g.auto = h.auto /\ g.attrs = h.attrs
    BY <1>1, <2>7 DEF HandlerType
  <2>11. ~h.anon /\ h.cv = NULL /\ h.next = NULL
    BY DEF HandlerOK
  <2>12. HandlerOK(g)
    BY <2>9, <2>10, <2>11, PreparedOK
  <2>13. Shape(g)
    BY <2>6, <2>10 DEF Shape
  <2> HIDE DEF q
  <2>14. /\ ResMore(r, g, P) /\ r.h.parsed /\ r.P = P
         /\ r.st \in {"1", "croak"} /\ (~BadInit(q) => r.st = "1")
    BY <2>1, <2>3, <2>8, <2>10, <2>12, <2>13, FoundMore
  <2>15. ResMore(r, h, P)
    BY <2>10, <2>14 DEF ResMore
  <2> QED BY <2>1, <2>2, <2>14, <2>15
<1> QED BY <1>3, <1>4

\* A package name, which may be loaded.
LEMMA ResolvePackageMore ==
    ASSUME NEW h, HandlerOK(h), ~h.parsed, Shape(h), h.name \in SubNames,
           h.name.kind \notin {"anon", "func"}, NEW P, NEW n \in Nat,
           PerlOK(P, n), PerlShape(P), NEW log \in BOOLEAN, NEW seen \in BOOLEAN,
           seen => h.name.pkg \in P.stash,
           NEW r, r = ResolvePackage(h, P, n, log, seen)
    PROVE  /\ ResMore(r, h, P)
           /\ h.auto /\ log => r.st # "0"
           /\ ~h.auto => /\ r.P = P
                         /\ r.h.parsed => h.name.pkg \in P.loaded
                         /\ h.name.pkg \in P.loaded /\ Denotes(h.name) # NULL
                              => r.h.parsed
           /\ h.auto /\ (seen => h.name.pkg \in P.loaded) /\ Denotes(h.name) # NULL
                /\ ~BadInit(Denotes(h.name)) => r.st = "1"
<1> DEFINE p == h.name.pkg
           load == ~seen /\ h.auto /\ p \notin P.loaded
           Q == IF load THEN Require(P, p) ELSE P
           v == ResolveMethod(h, Q, n, p, FetchMethod(Q, p))
<1>1. p \in Packages
  BY DEF SubNames
<1>2. PerlOK(Q, n) /\ PerlShape(Q) /\ Grows(P, Q) /\ (load /\ Code[p].loads => p \in Q.loaded)
  BY <1>1, RequireOK, RequireShape DEF Grows
<1>3. r = InStash(h, Q, n, log, load, p)
  BY DEF ResolvePackage
<1>4. ~load => Q = P
  OBVIOUS
<1>5. load <=> ~seen /\ h.auto /\ p \notin P.loaded
  OBVIOUS
<1> HIDE DEF load, Q
<1>6. Q.loaded \subseteq Q.stash
  BY <1>2 DEF PerlOK
<1>7. /\ ResMore(v, h, Q) /\ v.P = Q
      /\ v.h.parsed => p \in Q.loaded
      /\ h.auto => v.st # "0"
      /\ p \in Q.loaded /\ Denotes(h.name) # NULL =>
           v.h.parsed /\ (~BadInit(Denotes(h.name)) => v.st = "1")
  BY <1>2, ResolveMethodMore
<1>8. ASSUME NEW t PROVE /\ ResMore(Res(t, h, Q, n), h, Q) /\ Res(t, h, Q, n).st = t
                         /\ ~Res(t, h, Q, n).h.parsed /\ Res(t, h, Q, n).P = Q
  BY <1>2, ResMoreIs DEF Res
<1> HIDE DEF v
<1>9. Denotes(h.name) # NULL => Code[p].loads
  BY DenotesLoads
<1>10. \/ load /\ p \notin Q.loaded /\ r = Res("croak", h, Q, n) /\ log
       \/ load /\ p \notin Q.loaded /\ r = Res("0", h, Q, n) /\ ~log
       \/ (load => p \in Q.loaded) /\ p \notin Q.stash /\ r = Res("0", h, Q, n)
       \/ (load => p \in Q.loaded) /\ p \in Q.stash /\ r = v
  BY <1>3 DEF InStash, v
<1>11. ResMore(r, h, Q)
  BY <1>7, <1>8, <1>10
<1>12. ResMore(r, h, P)
  BY <1>2, <1>11 DEF ResMore, Grows
<1>13. h.auto /\ p \notin Q.stash => load
  BY <1>4, <1>5, <1>6
<1>14. h.auto /\ log => r.st # "0"
  BY <1>6, <1>7, <1>8, <1>10, <1>13
<1>15. ASSUME ~h.auto
       PROVE  r.P = P /\ (r.h.parsed => p \in P.loaded)
              /\ (p \in P.loaded /\ Denotes(h.name) # NULL => r.h.parsed)
  BY <1>4, <1>5, <1>6, <1>7, <1>8, <1>10, <1>15
<1>16. ASSUME h.auto, seen => p \in P.loaded, Denotes(h.name) # NULL,
              ~BadInit(Denotes(h.name))
       PROVE  r.st = "1"
  <2>1. p \in Q.loaded
    BY <1>2, <1>4, <1>5, <1>9, <1>16
  <2> QED BY <1>6, <1>7, <1>10, <1>16, <2>1
<1> QED BY <1>12, <1>14, <1>15, <1>16

\* modperl_mgv_resolve finds what there is and what it may load.
Finds(r, h, P, log) ==
    /\ ResMore(r, h, P)
    /\ h.name.kind = "anon" => r.st = "1"
    /\ ~ByPackage(h.name) => r.P.loaded = P.loaded
    /\ ByPackage(h.name) /\ h.auto /\ log => r.st # "0"
    /\ ByPackage(h.name) /\ ~h.auto =>
         /\ r.P = P
         /\ r.h.parsed => h.name.pkg \in P.loaded
         /\ h.name.pkg \in P.loaded /\ Denotes(h.name) # NULL => r.h.parsed
    /\ ByPackage(h.name) /\ h.auto /\ Callable(h.name)
         /\ (h.name.kind = "method" => h.name.pkg \notin Vivified)
         => r.st = "1"
    /\ h.name.kind \in {"func", "object"} /\ h.name.pkg \in P.loaded
         /\ Callable(h.name) => r.st = "1"

\* The whole of modperl_mgv_resolve, by the kind of name.
LEMMA ResolveFinds ==
    ASSUME NEW h, HandlerOK(h), ~h.parsed, Shape(h), h.name \in SubNames, NEW P,
           NEW n \in Nat, PerlOK(P, n), PerlShape(P), NEW log \in BOOLEAN,
           NEW r, r = Resolve(h, P, n, log)
    PROVE  Finds(r, h, P, log)
<1> DEFINE p == h.name.pkg
           Good == Denotes(h.name) # NULL /\ ~BadInit(Denotes(h.name))
           o == [h EXCEPT !.method = TRUE,
                          !.obj = [kind |-> "var", pkg |-> p, id |-> 0]]
<1>1. ~h.anon /\ h \in HandlerType
  BY DEF HandlerOK
<1>2. h.name.kind \in {"class", "method", "func", "object", "anon"}
  BY DEF SubNames
<1>3. h.name.kind # "anon" /\ Callable(h.name) =>
         Good /\ (h.name.kind = "object" => Code[p].object)
  BY DEF Callable, BadInit
<1> HIDE DEF Good
<1>4. CASE h.name.kind = "anon"
  <2> DEFINE x == [kind |-> "anon", pkg |-> NULL, id |-> n + 1]
             g == [h EXCEPT !.parsed = TRUE, !.anon = TRUE, !.obj = x]
             Q == [P EXCEPT !.anon = @ \cup {n + 1}]
  <2>1. r = Res("1", g, Q, n + 1)
    BY <1>1, <1>4 DEF Resolve, ResolveAnon, AnonNext, AnonAdd
  <2>2. /\ g.name = h.name /\ g.parsed = TRUE /\ g.anon = TRUE /\ g.obj = x
        /\ g.prefix = h.prefix /\ g.auto = h.auto
    <3> HIDE DEF x
    <3> QED BY <1>1 DEF HandlerType
  <2>3. Q.loaded = P.loaded /\ Q.stash = P.stash /\ Q.anon = P.anon \cup {n + 1}
    BY DEF PerlOK, PerlType
  <2>4. x.kind = "anon" /\ x.id = n + 1
    OBVIOUS
  <2>5. r.st = "1" /\ r.h = g /\ r.P = Q
    BY <2>1 DEF Res
  <2> HIDE DEF x, g, Q
  <2>6. Shape(g)
    BY <2>2, <2>4 DEF Shape
  <2>7. PerlShape(Q) /\ Grows(P, Q)
    BY <2>3 DEF PerlShape, Grows
  <2>8. ResMore(r, h, P)
    BY <2>2, <2>3, <2>4, <2>5, <2>6, <2>7 DEF ResMore
  <2> QED BY <1>4, <2>3, <2>5, <2>8 DEF ByPackage, Finds
<1>5. CASE h.name.kind \in {"class", "method"}
  <2> DEFINE method == h.name.kind = "method"
             b == h.method \/ method
             g == [h EXCEPT !.method = b]
             seen == method /\ p \in P.stash
  <2>1. r = ResolvePackage(g, P, n, log, seen)
    BY <1>1, <1>5 DEF Resolve
  <2>2. b \in BOOLEAN /\ seen \in BOOLEAN
    BY <1>1 DEF HandlerType
  <2>3. seen => p \in P.stash /\ h.name.kind = "method"
    OBVIOUS
  <2> HIDE DEF b, seen
  <2>4. HandlerOK(g) /\ ~g.parsed /\ g.name = h.name
    BY <1>5, <2>2, MethodOK
  <2>5. g.obj = h.obj /\ g.auto = h.auto /\ g.prefix = h.prefix
    BY <1>1 DEF HandlerType
  <2> HIDE DEF g
  <2>6. Shape(g)
    BY <2>4, <2>5 DEF Shape
  <2>7. g.name \in SubNames /\ g.name.kind \notin {"anon", "func"}
        /\ (seen => g.name.pkg \in P.stash)
    BY <1>5, <2>3, <2>4
  <2>8. /\ ResMore(r, g, P)
        /\ h.auto /\ log => r.st # "0"
        /\ ~h.auto => /\ r.P = P
                      /\ r.h.parsed => p \in P.loaded
                      /\ p \in P.loaded /\ Denotes(h.name) # NULL => r.h.parsed
        /\ h.auto /\ (seen => p \in P.loaded) /\ Good => r.st = "1"
    <3>1. /\ ResMore(r, g, P)
          /\ g.auto /\ log => r.st # "0"
          /\ ~g.auto => /\ r.P = P
                        /\ r.h.parsed => g.name.pkg \in P.loaded
                        /\ g.name.pkg \in P.loaded /\ Denotes(g.name) # NULL
                             => r.h.parsed
          /\ g.auto /\ (seen => g.name.pkg \in P.loaded) /\ Denotes(g.name) # NULL
               /\ ~BadInit(Denotes(g.name)) => r.st = "1"
      BY <2>1, <2>2, <2>4, <2>6, <2>7, ResolvePackageMore
    <3> QED BY <2>4, <2>5, <3>1 DEF Good
  <2>9. ResMore(r, h, P)
    BY <2>5, <2>8 DEF ResMore
  <2>10. h.name.kind = "method" /\ p \notin Vivified /\ Good /\ seen => p \in P.loaded
    <3>1. Good => Code[p].loads
      BY DenotesLoads DEF Good
    <3> QED BY <2>3, <3>1 DEF PerlShape
  <2> QED BY <1>3, <1>5, <2>3, <2>8, <2>9, <2>10 DEF ByPackage, Finds
<1>6. CASE h.name.kind = "object"
  <2> DEFINE x == [kind |-> "var", pkg |-> p, id |-> 0]
             v == ResolveMethod(o, P, n, p, FetchMethod(P, p))
  <2>1. HandlerOK(o) /\ ~o.parsed /\ o.name = h.name
    BY <1>6, ObjectOK
  <2>2. o.obj = x /\ o.prefix = h.prefix /\ o.auto = h.auto
    <3>1. o = [h EXCEPT !.method = TRUE, !.obj = x]
      OBVIOUS
    <3> HIDE DEF x, o
    <3> QED BY <1>1, <3>1 DEF HandlerType
  <2>3. \/ r = v /\ p \in P.loaded
        \/ r = Res("0", o, P, n) /\ ~(p \in P.loaded /\ Code[p].object)
    BY <1>1, <1>6 DEF Resolve
  <2>4. x.kind = "var" /\ x.pkg = p
    OBVIOUS
  <2> HIDE DEF o, x
  <2>5. Shape(o)
    BY <1>6, <2>1, <2>2, <2>4 DEF Shape
  <2>6. o.name \in SubNames /\ o.name.kind \notin {"anon", "func"}
        /\ v = ResolveMethod(o, P, n, o.name.pkg, FetchMethod(P, o.name.pkg))
    BY <1>6, <2>1
  <2> HIDE DEF v
  <2>7. /\ ResMore(v, o, P) /\ v.P = P
        /\ o.name.pkg \in P.loaded /\ Denotes(o.name) # NULL =>
             v.h.parsed /\ (~BadInit(Denotes(o.name)) => v.st = "1")
    BY <2>1, <2>5, <2>6, ResolveMethodMore
  <2>8. ResMore(Res("0", o, P, n), o, P) /\ Res("0", o, P, n).P = P
    BY <2>1, <2>5, ResMoreIs DEF Res
  <2>9. ResMore(r, o, P) /\ r.P = P
    BY <2>3, <2>7, <2>8
  <2>10. ResMore(r, h, P)
    BY <2>2, <2>9 DEF ResMore
  <2>11. p \in P.loaded /\ Code[p].object /\ Good => r.st = "1"
    BY <2>1, <2>3, <2>7 DEF Good
  <2> QED BY <1>3, <1>6, <2>9, <2>10, <2>11 DEF ByPackage, Finds
<1>7. CASE h.name.kind = "func"
  <2>1. CASE p \in P.loaded /\ Code[p].sub
    <3>1. p \in Packages /\ p = Denotes(h.name)
      BY <1>7, <2>1 DEF PerlOK, PerlType, Denotes
    <3>2. r = Found(h, P, n, p)
      BY <1>1, <1>7, <2>1 DEF Resolve
    <3>3. ResMore(r, h, P) /\ r.P = P /\ (~BadInit(p) => r.st = "1")
      BY <2>1, <3>1, <3>2, FoundMore
    <3> QED BY <1>3, <1>7, <3>1, <3>3 DEF ByPackage, Good, Finds
  <2>2. CASE ~(p \in P.loaded /\ Code[p].sub)
    <3>1. r \in {Res("croak", h, P, n), Res("0", h, P, n)}
      BY <1>1, <1>7, <2>2 DEF Resolve
    <3>2. ResMore(Res("croak", h, P, n), h, P) /\ ResMore(Res("0", h, P, n), h, P)
      BY ResMoreIs
    <3>3. r.P = P /\ ResMore(r, h, P)
      BY <3>1, <3>2 DEF Res
    <3>4. p \in P.loaded => ~Good
      BY <1>7, <2>2 DEF Good, Denotes
    <3> QED BY <1>3, <1>7, <3>3, <3>4 DEF ByPackage, Finds
  <2> QED BY <2>1, <2>2
<1> QED BY <1>2, <1>4, <1>5, <1>6, <1>7

-----------------------------------------------------------------------------
(* Startup.                                                                *)

\* What modperl_hash_handlers leaves of the structure h in interpreter P.
HashMore(r, h, P) ==
    /\ PerlShape(r.P) /\ Grows(P, r.P)
    /\ Shape(r.h) /\ r.h.prefix = h.prefix /\ (h.auto => r.h.auto)
    /\ h.parsed => r.h = h
    /\ r.h.parsed /\ ~h.parsed => IF r.h.anon THEN r.h.obj.id \in r.P.anon
                                  ELSE r.h.cv \in r.P.loaded

\* The loop body of modperl_hash_handlers.
LEMMA HashHandlerMore ==
    ASSUME opt \in [threaded : BOOLEAN, parent : BOOLEAN, autoload : BOOLEAN],
           NEW h, HandlerOK(h), Shape(h), NEW P, NEW n \in Nat, PerlOK(P, n),
           PerlShape(P), NEW s, NEW r, r = HashHandler(s, h, P, n)
    PROVE  /\ HashMore(r, h, P)
           /\ r.st # "croak" /\ h.name.kind = "anon" => r.h.parsed
           /\ r.st # "croak" /\ ByPackage(h.name) /\ (h.auto \/ opt.autoload)
                => r.h.parsed
           /\ ~opt.autoload /\ (h.parsed \/ ~ByPackage(h.name) \/ ~h.auto)
                => r.P.loaded = P.loaded
           /\ ByPackage(h.name) /\ ~h.parsed /\ ~h.auto /\ ~opt.autoload =>
                /\ ~r.h.auto
                /\ r.h.parsed <=> h.name.pkg \in P.loaded /\ Denotes(h.name) # NULL
<1>1. h \in HandlerType /\ h.name \in NameType
  BY DEF HandlerOK, HandlerType
<1>2. ASSUME NEW t PROVE HashMore(Res(t, h, P, n), h, P) /\ Res(t, h, P, n).P = P
                         /\ Res(t, h, P, n).h = h /\ Res(t, h, P, n).st = t
  BY DEF HashMore, Res, Grows
<1>3. CASE h.name.kind \in {"httpd", "unset"}
  <2>1. r = Res("1", h, P, n)
    BY <1>3 DEF HashHandler
  <2> QED BY <1>2, <1>3, <2>1 DEF ByPackage
<1>4. CASE h.name.kind \notin {"httpd", "unset"} /\ ~h.parsed
  <2> DEFINE a == h.auto \/ opt.autoload
             g == [h EXCEPT !.auto = a]
  <2>1. r = Resolve(g, P, n, TRUE)
    BY <1>4 DEF HashHandler
  <2>2. a \in BOOLEAN
    BY <1>1 DEF HandlerType
  <2>3. a <=> h.auto \/ opt.autoload
    OBVIOUS
  <2> HIDE DEF a
  <2>4. HandlerOK(g) /\ ~g.parsed /\ g.name = h.name
    BY <1>4, <2>2, AutoOK
  <2>5. g.auto = a /\ g.prefix = h.prefix /\ g.obj = h.obj
    BY <1>1 DEF HandlerType
  <2> HIDE DEF g
  <2>6. Shape(g)
    BY <2>4, <2>5 DEF Shape
  <2>7. g.name \in SubNames
    BY <1>1, <1>4, <2>4 DEF NameType, HttpdNames, NoName
  <2>8. ResOK(r, g.name, n)
    BY <2>1, <2>4, <2>7, ResolveOK
  <2> DEFINE log == TRUE
  <2> HIDE DEF log
  <2>0. log \in BOOLEAN /\ log /\ r = Resolve(g, P, n, log)
    BY <2>1 DEF log
  <2>9. /\ ResMore(r, g, P)
        /\ g.name.kind = "anon" => r.st = "1"
        /\ ~ByPackage(g.name) => r.P.loaded = P.loaded
        /\ ByPackage(g.name) /\ g.auto => r.st # "0"
        /\ ByPackage(g.name) /\ ~g.auto =>
             /\ r.P = P
             /\ r.h.parsed => g.name.pkg \in P.loaded
             /\ g.name.pkg \in P.loaded /\ Denotes(g.name) # NULL => r.h.parsed
    <3>1. Finds(r, g, P, log)
      BY <2>0, <2>4, <2>6, <2>7, ResolveFinds
    <3> QED BY <2>0, <3>1 DEF Finds
  <2>10. r.st \in {"0", "1", "croak"} /\ (r.st = "1" => r.h.parsed) /\ HandlerOK(r.h)
         /\ r.h.name = h.name
    BY <2>4, <2>8 DEF ResOK
  <2>11. HashMore(r, h, P)
    BY <1>4, <2>2, <2>3, <2>5, <2>9 DEF ResMore, HashMore
  <2>12. r.h.auto = a
    BY <2>5, <2>9 DEF ResMore
  <2>13. ByPackage(h.name) /\ r.h.parsed => Denotes(h.name) # NULL
    BY <2>10 DEF HandlerOK, ByPackage
  <2> QED BY <1>4, <2>3, <2>4, <2>5, <2>9, <2>10, <2>11, <2>12, <2>13
<1>5. CASE h.name.kind \notin {"httpd", "unset"} /\ h.parsed
  <2>1. CASE \E t : r = Res(t, h, P, n)
    BY <1>2, <1>5, <2>1
  <2>2. CASE ~h.anon /\ opt.autoload /\ r = Res("1", h, Require(P, h.cv), n)
    <3>1. h.cv \in Packages
      BY <1>1, <1>5, <2>2 DEF HandlerOK, HandlerType
    <3> DEFINE Q == Require(P, h.cv)
    <3>2. PerlShape(Q) /\ Grows(P, Q)
      BY <3>1, RequireShape
    <3> HIDE DEF Q
    <3>3. r.h = h /\ r.P = Q
      BY <2>2 DEF Res, Q
    <3> QED BY <1>5, <2>2, <3>2, <3>3 DEF HashMore
  <2>3. \/ r = Res("1", h, P, n) \/ r = Res("croak", h, P, n)
        \/ ~h.anon /\ opt.autoload /\ r = Res("1", h, Require(P, h.cv), n)
    BY <1>5 DEF HashHandler
  <2> QED BY <2>1, <2>2, <2>3
<1> QED BY <1>3, <1>4, <1>5

\* One step of the walk, and the whole of it.
VisitOne(s, acc, id) ==
    IF acc.st = "croak" THEN acc
    ELSE LET r == HashHandler(s, acc.conf[id], acc.P, acc.n)
         IN  [st |-> r.st, conf |-> [acc.conf EXCEPT ![id] = r.h], P |-> r.P, n |-> r.n]

\* Before the walk, and after its four structures.
WalkStart(s) == [st |-> "1", conf |-> conf, P |-> perl[ParentOf(s)], n |-> count]

WalkEnd(s) ==
    VisitOne(s, VisitOne(s, VisitOne(s, VisitOne(s, WalkStart(s), "h1"), "h2"),
                         "f1"), "f2")

\* HashHandlers with the walk unrolled.
LEMMA HashHandlersIs ==
    ASSUME NEW s, HashHandlers(s)
    PROVE  /\ stage = s
           /\ stage' = IF WalkEnd(s).st = "croak" THEN "exited"
                       ELSE IF s = "main" THEN "vhost" ELSE "clone"
           /\ conf' = WalkEnd(s).conf
           /\ perl' = [perl EXCEPT ![ParentOf(s)] = WalkEnd(s).P]
           /\ count' = WalkEnd(s).n
           /\ UNCHANGED <<opt, call, conn>>
<1> DEFINE i == ParentOf(s)
           e == [st |-> "1", conf |-> conf, P |-> perl[i], n |-> count]
           Filled(acc, id, r) == [st |-> r.st, conf |-> [acc.conf EXCEPT ![id] = r.h],
                                  P |-> r.P, n |-> r.n]
           Visit(acc, id) ==
               IF acc.st = "croak" THEN acc
               ELSE Filled(acc, id, HashHandler(s, acc.conf[id], acc.P, acc.n))
           n == Len(Order)
           Body(g, k) == IF k = 0 THEN e ELSE Visit(g[k - 1], Order[k])
           F == CHOOSE g : g = [k \in 0 .. n |-> Body(g, k)]
<1>1. n = 4 /\ Order[1] = "h1" /\ Order[2] = "h2" /\ Order[3] = "f1" /\ Order[4] = "f2"
  BY DEF Order
<1>2. \E v1, v2, v3, v4 :
        /\ v1 = Visit(e, "h1") /\ v2 = Visit(v1, "h2")
        /\ v3 = Visit(v2, "f1") /\ v4 = Visit(v3, "f2")
  <2> HIDE DEF Visit, e
  <2> QED OBVIOUS
<1>3. PICK v1, v2, v3, v4 :
        /\ v1 = Visit(e, "h1") /\ v2 = Visit(v1, "h2")
        /\ v3 = Visit(v2, "f1") /\ v4 = Visit(v3, "f2")
  BY <1>2
<1> DEFINE G == [k \in 0 .. n |-> IF k = 0 THEN e ELSE IF k = 1 THEN v1
                                  ELSE IF k = 2 THEN v2 ELSE IF k = 3 THEN v3 ELSE v4]
<1>4. G = [k \in 0 .. n |-> Body(G, k)]
  <2>2. \A k \in 1 .. n : Body(G, k) = Visit(G[k - 1], Order[k])
    <3> HIDE DEF Visit, G, e
    <3> QED BY <1>1
  <2>3. Body(G, 0) = e
    <3> HIDE DEF Visit, G, e
    <3> QED OBVIOUS
  <2> HIDE DEF Body, Visit, e
  <2>4. 0 .. n = {0, 1, 2, 3, 4} /\ 1 .. n = {1, 2, 3, 4}
    BY <1>1
  <2> HIDE DEF n
  <2>5. G[0] = e /\ G[1] = v1 /\ G[2] = v2 /\ G[3] = v3 /\ G[4] = v4
    BY <2>4
  <2>6. G = [k \in 0 .. n |-> G[k]]
    OBVIOUS
  <2> HIDE DEF G
  <2>7. /\ 1 - 1 = 0 /\ 2 - 1 = 1 /\ 3 - 1 = 2 /\ 4 - 1 = 3
    OBVIOUS
  <2>8. \A k \in 0 .. n : G[k] = Body(G, k)
    BY <1>1, <1>3, <2>2, <2>3, <2>4, <2>5, <2>7
  <2> QED BY <2>6, <2>8
<1>5. F = [k \in 0 .. n |-> Body(F, k)]
  <2> HIDE DEF Body, n, G
  <2> QED BY <1>4, Zenon
<1>6. ASSUME NEW k \in 0 .. n PROVE F[k] = Body(F, k)
  <2> HIDE DEF F, Body, n
  <2> QED BY <1>5
<1>7. F[n] = v4
  <2> HIDE DEF F
  <2>1. F[0] = e
    <3>1. F[0] = Body(F, 0)
      BY ONLY <1>1, <1>6
    <3> HIDE DEF Visit, e
    <3> QED BY <3>1
  <2>2. ASSUME NEW k \in 1 .. n PROVE F[k] = Visit(F[k - 1], Order[k])
    <3>1. k \in 0 .. n /\ k # 0
      BY ONLY <1>1
    <3>2. F[k] = Body(F, k)
      BY ONLY <1>6, <3>1
    <3> HIDE DEF Visit, e
    <3> QED BY <3>1, <3>2
  <2> HIDE DEF Visit, e
  <2>3. F[1] = v1
    BY <1>1, <1>3, <2>1, <2>2
  <2>4. F[2] = v2
    BY <1>1, <1>3, <2>2, <2>3
  <2>5. F[3] = v3
    BY <1>1, <1>3, <2>2, <2>4
  <2> QED BY <1>1, <1>3, <2>2, <2>5
<1> HIDE DEF G
<1>8. PICK end \in {F[n]} :
             /\ stage' = IF end.st = "croak" THEN "exited"
                         ELSE IF s = "main" THEN "vhost" ELSE "clone"
             /\ conf' = end.conf
             /\ perl' = [perl EXCEPT ![i] = end.P]
             /\ count' = end.n
  BY ZenonT(60) DEF HashHandlers
<1>9. stage = s /\ UNCHANGED <<opt, call, conn>>
  BY DEF HashHandlers
<1> HIDE DEF F, n
<1>10. WalkEnd(s) = v4
  <2>1. \A a, id : VisitOne(s, a, id) = Visit(a, id)
    BY DEF VisitOne
  <2>2. e = WalkStart(s)
    BY DEF WalkStart
  <2> HIDE DEF Visit, e
  <2> QED BY <1>3, <2>1, <2>2 DEF WalkEnd
<1> QED BY <1>7, <1>8, <1>9, <1>10

\* What every step of a walk leaves of a configuration C, with what was there
\* before: nothing that was filled in is changed.
Kept(D, C) ==
    \A id \in Slots :
        /\ Shape(D[id]) /\ D[id].prefix = C[id].prefix /\ D[id].name = C[id].name
        /\ C[id].auto => D[id].auto
        /\ C[id].parsed => D[id] = C[id]

\* One visit.
LEMMA VisitKept ==
    ASSUME opt \in [threaded : BOOLEAN, parent : BOOLEAN, autoload : BOOLEAN],
           NEW C, NEW n \in Nat, NEW a \in Walked(C, n), PerlShape(a.P),
           Kept(a.conf, C), NEW id \in Slots, NEW s, a.st # "croak", NEW r,
           r = HashHandler(s, a.conf[id], a.P, a.n)
    PROVE  /\ VisitOne(s, a, id) \in Walked(C, n)
           /\ VisitOne(s, a, id).st = r.st /\ VisitOne(s, a, id).P = r.P
           /\ PerlShape(r.P) /\ Kept(VisitOne(s, a, id).conf, C)
           /\ VisitOne(s, a, id).conf[id] = r.h
           /\ \A j \in Slots \ {id} : VisitOne(s, a, id).conf[j] = a.conf[j]
           /\ HandlerOK(a.conf[id]) /\ HandlerOK(r.h) /\ HashMore(r, a.conf[id], a.P)
<1> DEFINE D == [a.conf EXCEPT ![id] = r.h]
           v == [st |-> r.st, conf |-> D, P |-> r.P, n |-> r.n]
<1>1. VisitOne(s, a, id) = v
  BY DEF VisitOne
<1>2. v \in Walked(C, n)
  BY VisitOK
<1>3. a.conf \in [Slots -> HandlerType] /\ PerlOK(a.P, a.n) /\ a.n \in Nat
      /\ ConfOK(a.conf) /\ \A j \in Slots : a.conf[j].name = C[j].name
  BY DEF Walked
<1>4. HandlerOK(a.conf[id]) /\ Shape(a.conf[id])
  BY <1>3 DEF ConfOK, Kept
<1>5. HashMore(r, a.conf[id], a.P)
  BY <1>3, <1>4, HashHandlerMore
<1>6. \A j \in Slots : D[j] = IF j = id THEN r.h ELSE a.conf[j]
  BY <1>3
<1>7. v.st = r.st /\ v.P = r.P /\ v.conf = D
  OBVIOUS
<1> HIDE DEF v, D
<1>8. HandlerOK(r.h) /\ r.h.name = C[id].name
  BY <1>2, <1>6, <1>7 DEF Walked, ConfOK
<1>9. Kept(D, C)
  BY <1>5, <1>6, <1>8 DEF Kept, HashMore
<1> QED BY <1>1, <1>2, <1>4, <1>5, <1>6, <1>7, <1>8, <1>9 DEF HashMore

\* The walk of a server that uses the main server's interpreters, after the
\* structures in D.
Looked(h) ==
    /\ h.name.kind = "anon" => h.parsed
    /\ Left(h, perl["vhost"])

\* A walk with the main server's interpreter that has visited the structures D.
MainWalk(a, D) ==
    /\ a \in Walked(conf, count)
    /\ PerlShape(a.P) /\ Grows(perl["main"], a.P)
    /\ Kept(a.conf, conf)
    /\ \A id \in Slots : Home(a.conf[id], a.P)
    /\ \A id \in Slots \ D : a.conf[id] = conf[id]
    /\ a.st # "croak" => \A id \in D : Looked(a.conf[id])

\* The main server keeps what it has.
LEMMA HomeGrows ==
    ASSUME NEW h, NEW P, NEW Q, Home(h, P), Grows(P, Q)
    PROVE  Home(h, Q)
BY DEF Home, Grows

\* A structure that has just been filled in, or was before.
LEMMA HashHome ==
    ASSUME NEW r, NEW h, NEW P, HashMore(r, h, P), HandlerOK(r.h), Home(h, P)
    PROVE  Home(r.h, r.P)
<1>1. CASE h.parsed
  BY <1>1, HomeGrows DEF HashMore
<1>2. CASE ~h.parsed
  <2>1. r.h.parsed /\ ByPackage(r.h.name) => ~r.h.anon
    BY DEF HandlerOK, ByPackage
  <2> QED BY <1>2, <2>1 DEF HashMore, Home
<1> QED BY <1>1, <1>2

\* One visit of that walk.
LEMMA VisitMain ==
    ASSUME NamedInv, perl["vhost"].loaded \subseteq perl["main"].loaded,
           NEW s, NEW D \in SUBSET Slots, NEW a, MainWalk(a, D), NEW id \in Slots,
           id \notin D
    PROVE  MainWalk(VisitOne(s, a, id), D \cup {id})
<1> DEFINE v == VisitOne(s, a, id)
           h == a.conf[id]
<1>0. /\ opt \in [threaded : BOOLEAN, parent : BOOLEAN, autoload : BOOLEAN]
      /\ count \in Nat
  BY DEF NamedInv
<1>1. CASE a.st = "croak"
  <2>1. v = a
    BY <1>1 DEF VisitOne
  <2> QED BY <1>1, <2>1 DEF MainWalk
<1>2. CASE a.st # "croak"
  <2> DEFINE r == HashHandler(s, a.conf[id], a.P, a.n)
  <2>1. /\ a \in Walked(conf, count) /\ PerlShape(a.P) /\ Kept(a.conf, conf)
        /\ Grows(perl["main"], a.P) /\ \A j \in Slots : Home(a.conf[j], a.P)
        /\ PerlOK(a.P, a.n) /\ a.n \in Nat
    BY DEF MainWalk, Walked
  <2> HIDE DEF r
  <2>2. r = HashHandler(s, a.conf[id], a.P, a.n)
    BY DEF r
  <2>3. /\ v \in Walked(conf, count) /\ v.st = r.st /\ v.P = r.P
        /\ PerlShape(r.P) /\ Kept(v.conf, conf) /\ v.conf[id] = r.h
        /\ \A j \in Slots \ {id} : v.conf[j] = a.conf[j]
        /\ HandlerOK(h) /\ HandlerOK(r.h) /\ HashMore(r, h, a.P)
    BY <1>0, <1>2, <2>1, <2>2, VisitKept
  <2>4. Shape(h) /\ r.h.name = h.name
    BY <2>1, <2>3 DEF Kept
  <2>5. /\ r.st # "croak" /\ h.name.kind = "anon" => r.h.parsed
        /\ r.st # "croak" /\ ByPackage(h.name) /\ (h.auto \/ opt.autoload)
             => r.h.parsed
        /\ ByPackage(h.name) /\ ~h.parsed /\ ~h.auto /\ ~opt.autoload =>
             /\ ~r.h.auto
             /\ r.h.parsed <=> h.name.pkg \in a.P.loaded /\ Denotes(h.name) # NULL
    BY <1>0, <2>1, <2>2, <2>3, <2>4, HashHandlerMore
  <2> HIDE DEF v, h
  <2>6. r.st # "croak" => Looked(r.h)
    <3>1. h.parsed => r.h.parsed
      BY <2>3 DEF HashMore
    <3>2. perl["vhost"].loaded \subseteq a.P.loaded
      BY <2>1 DEF Grows
    <3> QED BY <2>4, <2>5, <3>1, <3>2 DEF Looked, Left
  <2>7. Grows(a.P, r.P)
    BY <2>3 DEF HashMore
  <2>8. ASSUME NEW j \in Slots PROVE Home(v.conf[j], v.P)
    <3>1. CASE j = id
      BY <2>1, <2>3, <3>1, HashHome DEF h
    <3>2. CASE j # id
      BY <2>1, <2>3, <2>7, <3>2, HomeGrows
    <3> QED BY <3>1, <3>2
  <2>9. Grows(perl["main"], v.P)
    BY <2>1, <2>3, <2>7 DEF Grows
  <2>10. \A j \in Slots \ (D \cup {id}) : v.conf[j] = conf[j]
    BY <2>3 DEF MainWalk
  <2>11. v.st # "croak" => \A j \in D \cup {id} : Looked(v.conf[j])
    BY <1>2, <2>3, <2>6 DEF MainWalk
  <2>12. MainWalk(v, D \cup {id})
    BY <2>3, <2>8, <2>9, <2>10, <2>11 DEF MainWalk
  <2> QED BY <2>12 DEF v
<1> QED BY <1>1, <1>2

\* The walk of a virtual host with interpreters of its own: it fills in no
\* structure of a package name, and without +AutoLoad it loads nothing.
OwnWalk(a) ==
    /\ a \in Walked(conf, count)
    /\ PerlShape(a.P)
    /\ Kept(a.conf, conf)
    /\ ~opt.autoload => a.P.loaded = perl["vhost"].loaded
    /\ \A id \in Slots : ByPackage(conf[id].name) /\ ~conf[id].parsed
                            => ~a.conf[id].parsed /\ ~a.conf[id].auto

\* One visit of that walk.
LEMMA VisitOwn ==
    ASSUME NamedInv, \A id \in Slots : Left(conf[id], perl["vhost"]),
           NEW s, NEW a, OwnWalk(a), NEW id \in Slots
    PROVE  OwnWalk(VisitOne(s, a, id))
<1> DEFINE v == VisitOne(s, a, id)
           h == a.conf[id]
<1>0. /\ opt \in [threaded : BOOLEAN, parent : BOOLEAN, autoload : BOOLEAN]
      /\ count \in Nat
  BY DEF NamedInv
<1>1. CASE a.st = "croak"
  BY <1>1 DEF VisitOne
<1>2. CASE a.st # "croak"
  <2> DEFINE r == HashHandler(s, a.conf[id], a.P, a.n)
  <2>1. /\ a \in Walked(conf, count) /\ PerlShape(a.P) /\ Kept(a.conf, conf)
        /\ PerlOK(a.P, a.n) /\ a.n \in Nat
    BY DEF OwnWalk, Walked
  <2> HIDE DEF r
  <2>2. r = HashHandler(s, a.conf[id], a.P, a.n)
    BY DEF r
  <2>3. /\ v \in Walked(conf, count) /\ v.st = r.st /\ v.P = r.P
        /\ PerlShape(r.P) /\ Kept(v.conf, conf) /\ v.conf[id] = r.h
        /\ \A j \in Slots \ {id} : v.conf[j] = a.conf[j]
        /\ HandlerOK(h) /\ HandlerOK(r.h) /\ HashMore(r, h, a.P)
    BY <1>0, <1>2, <2>1, <2>2, VisitKept
  <2>4. Shape(h) /\ h.name = conf[id].name /\ (conf[id].parsed => h.parsed)
    BY <2>1, <2>3 DEF Kept
  <2>5. /\ ~opt.autoload /\ (h.parsed \/ ~ByPackage(h.name) \/ ~h.auto)
             => r.P.loaded = a.P.loaded
        /\ ByPackage(h.name) /\ ~h.parsed /\ ~h.auto /\ ~opt.autoload =>
             /\ ~r.h.auto
             /\ r.h.parsed <=> h.name.pkg \in a.P.loaded /\ Denotes(h.name) # NULL
    BY <1>0, <2>1, <2>2, <2>3, <2>4, HashHandlerMore
  <2> HIDE DEF v, h
  <2>6. ByPackage(h.name) /\ ~conf[id].parsed => ~h.parsed /\ ~h.auto /\ ~opt.autoload
             /\ (h.name.pkg \in perl["vhost"].loaded => Denotes(h.name) = NULL)
    BY <2>4 DEF OwnWalk, Left, h
  <2>7. ~opt.autoload => r.P.loaded = perl["vhost"].loaded
    BY <2>4, <2>5, <2>6 DEF OwnWalk
  <2>8. ByPackage(h.name) /\ ~conf[id].parsed => ~r.h.parsed /\ ~r.h.auto
    BY <2>5, <2>6 DEF OwnWalk
  <2>9. ASSUME NEW j \in Slots, ByPackage(conf[j].name), ~conf[j].parsed
        PROVE  ~v.conf[j].parsed /\ ~v.conf[j].auto
    BY <2>3, <2>4, <2>8, <2>9 DEF OwnWalk
  <2>10. OwnWalk(v)
    BY <2>3, <2>7, <2>9 DEF OwnWalk
  <2> QED BY <2>10 DEF v
<1> QED BY <1>1, <1>2

\* The walk begins well.
LEMMA WalkStarts ==
    ASSUME NamedInv, FoundInv, NEW s \in Servers
    PROVE  /\ WalkStart(s) \in Walked(conf, count)
           /\ PerlShape(WalkStart(s).P) /\ Kept(WalkStart(s).conf, conf)
<1> DEFINE i == ParentOf(s)
           e == [st |-> "1", conf |-> conf, P |-> perl[i], n |-> count]
<1>1. i \in Interps
  BY DEF ParentOf, Interps, Servers
<1>2. PerlOK(perl[i], count) /\ perl[i] \in PerlType /\ ConfOK(conf)
      /\ conf \in [Slots -> HandlerType] /\ count \in Nat
  BY <1>1 DEF NamedInv, ConfOK
<1>3. PerlShape(perl[i]) /\ \A id \in Slots : Shape(conf[id])
  BY <1>1 DEF FoundInv
<1>4. WalkStart(s) = e
  BY DEF WalkStart
<1> HIDE DEF i
<1>5. e \in Walked(conf, count)
  BY <1>2 DEF Walked
<1>6. Kept(conf, conf)
  BY <1>3 DEF Kept
<1> QED BY <1>3, <1>4, <1>5, <1>6

\* The walk with the main server's interpreter, of either server.
LEMMA MainWalkEnd ==
    ASSUME NamedInv, FoundInv, NEW s \in Servers, ParentOf(s) = "main",
           stage \in {"main", "vhost"}
    PROVE  MainWalk(WalkEnd(s), Slots)
<1>1. perl["vhost"].loaded \subseteq perl["main"].loaded
  BY DEF FoundInv
<1>2. WalkStart(s).P = perl["main"] /\ WalkStart(s).conf = conf
  BY DEF WalkStart
<1>3. \A id \in Slots : Home(conf[id], perl["main"])
  BY DEF FoundInv
<1>4. Grows(perl["main"], perl["main"])
  BY DEF Grows
<1>5. MainWalk(WalkStart(s), {})
  BY <1>2, <1>3, <1>4, WalkStarts DEF MainWalk
<1> DEFINE v1 == VisitOne(s, WalkStart(s), "h1")
           v2 == VisitOne(s, v1, "h2")
           v3 == VisitOne(s, v2, "f1")
           v4 == VisitOne(s, v3, "f2")
<1>6. /\ "h1" \in Slots /\ "h2" \in Slots /\ "f1" \in Slots /\ "f2" \in Slots
      /\ {} \in SUBSET Slots /\ {"h1"} \in SUBSET Slots
      /\ {"h1", "h2"} \in SUBSET Slots /\ {"h1", "h2", "f1"} \in SUBSET Slots
  BY DEF Slots
<1>7. MainWalk(v1, {"h1"})
  <2>1. MainWalk(v1, {} \cup {"h1"})
    BY <1>1, <1>5, <1>6, VisitMain
  <2>2. {} \cup {"h1"} = {"h1"}
    OBVIOUS
  <2> HIDE DEF v1
  <2> QED BY <2>1, <2>2
<1> HIDE DEF v1
<1>8. MainWalk(v2, {"h1", "h2"})
  <2>1. "h2" \notin {"h1"}
    OBVIOUS
  <2>2. MainWalk(v2, {"h1"} \cup {"h2"})
    BY <1>1, <1>6, <1>7, <2>1, VisitMain
  <2>3. {"h1"} \cup {"h2"} = {"h1", "h2"}
    OBVIOUS
  <2> HIDE DEF v2
  <2> QED BY <2>2, <2>3
<1> HIDE DEF v2
<1>9. MainWalk(v3, {"h1", "h2", "f1"})
  <2>1. "f1" \notin {"h1", "h2"}
    OBVIOUS
  <2>2. MainWalk(v3, {"h1", "h2"} \cup {"f1"})
    BY <1>1, <1>6, <1>8, <2>1, VisitMain
  <2>3. {"h1", "h2"} \cup {"f1"} = {"h1", "h2", "f1"}
    OBVIOUS
  <2> HIDE DEF v3
  <2> QED BY <2>2, <2>3
<1> HIDE DEF v3
<1>10. MainWalk(v4, Slots)
  <2>1. "f2" \notin {"h1", "h2", "f1"}
    OBVIOUS
  <2>2. MainWalk(v4, {"h1", "h2", "f1"} \cup {"f2"})
    BY <1>1, <1>6, <1>9, <2>1, VisitMain
  <2>3. {"h1", "h2", "f1"} \cup {"f2"} = Slots
    BY DEF Slots
  <2> HIDE DEF v4
  <2> QED BY <2>2, <2>3
<1> QED BY <1>10 DEF WalkEnd, v1, v2, v3, v4

\* The walk of a virtual host that has its own.
LEMMA OwnWalkEnd ==
    ASSUME NamedInv, FoundInv, ParentOf("vhost") = "vhost", stage = "vhost"
    PROVE  OwnWalk(WalkEnd("vhost"))
<1>1. \A id \in Slots : Left(conf[id], perl["vhost"])
  BY DEF FoundInv
<1>2. WalkStart("vhost").P = perl["vhost"] /\ WalkStart("vhost").conf = conf
  BY DEF WalkStart
<1>3. OwnWalk(WalkStart("vhost"))
  <2>1. "vhost" \in Servers
    BY DEF Servers
  <2> QED BY <1>1, <1>2, <2>1, WalkStarts DEF OwnWalk, Left
<1>4. "h1" \in Slots /\ "h2" \in Slots /\ "f1" \in Slots /\ "f2" \in Slots
  BY DEF Slots
<1>5. \A a : \A id \in Slots : OwnWalk(a) => OwnWalk(VisitOne("vhost", a, id))
  BY <1>1, VisitOwn
<1> QED BY <1>3, <1>4, <1>5 DEF WalkEnd

\* modperl_mgv_hash_handlers
LEMMA HashHandlersFound ==
    ASSUME NamedInv, FoundInv, NEW s \in Servers, HashHandlers(s)
    PROVE  FoundInv' /\ Kept(conf', conf)
           /\ (stage' # "exited" => \A id \in Slots :
                 conf[id].name.kind = "class" /\ conf[id].auto => conf'[id].parsed)
<1> DEFINE w == WalkEnd(s)
           i == ParentOf(s)
<1>1. /\ stage = s
      /\ stage' = IF w.st = "croak" THEN "exited"
                  ELSE IF s = "main" THEN "vhost" ELSE "clone"
      /\ conf' = w.conf
      /\ perl' = [perl EXCEPT ![i] = w.P]
      /\ count' = w.n
      /\ UNCHANGED <<opt, call, conn>>
  BY HashHandlersIs
<1> HIDE DEF w
<1>2. stage \in {"main", "vhost"} /\ call = NoCall /\ conn = NoConn
  BY <1>1 DEF Servers, FoundInv
<1>3. i \in {"main", "vhost"} /\ "main" \in Interps /\ "vhost" \in Interps
      /\ perl \in [Interps -> PerlType] /\ (s = "main" => i = "main")
  BY DEF ParentOf, Interps, Servers, NamedInv
<1>4. Len(conn'.chain) = 0 /\ conn'.on = "no" /\ conn' = NoConn /\ call' = NoCall
  BY <1>1, <1>2 DEF NoConn
<1>5. HandlerAlwaysFound'
  BY <1>4 DEF HandlerAlwaysFound
<1>6. \A j \in Interps : perl'[j] = IF j = i THEN w.P ELSE perl[j]
  BY <1>1, <1>3
<1>7. perl["vhost"].loaded \subseteq perl["main"].loaded
  BY <1>2 DEF FoundInv
<1>8. \A j \in Interps : PerlShape(perl[j])
  BY DEF FoundInv
<1>9. stage' \in {"exited", "vhost", "clone"} /\ (stage' = "vhost" => s = "main")
      /\ (stage' # "exited" => w.st # "croak")
      /\ (stage' = "clone" => s = "vhost" /\ stage = "vhost")
  BY <1>1 DEF Servers
<1> HIDE DEF i
<1>10. CASE i = "main"
  <2>1. MainWalk(w, Slots)
    BY <1>2, <1>10, MainWalkEnd DEF w, i
  <2>2. /\ PerlShape(w.P) /\ Grows(perl["main"], w.P) /\ Kept(w.conf, conf)
        /\ \A id \in Slots : Home(w.conf[id], w.P)
        /\ w.st # "croak" => \A id \in Slots : Looked(w.conf[id])
    BY <2>1 DEF MainWalk
  <2>3. perl'["main"] = w.P /\ perl'["vhost"] = perl["vhost"]
    BY <1>3, <1>6, <1>10
  <2>4. \A j \in Interps : PerlShape(perl'[j])
    BY <1>6, <1>8, <2>2
  <2>5. \A id \in Slots : Shape(conf'[id])
    BY <1>1, <2>2 DEF Kept
  <2>6. perl'["vhost"].loaded \subseteq perl'["main"].loaded
    BY <1>7, <2>2, <2>3 DEF Grows
  <2>7. \A id \in Slots : Home(conf[id], perl["main"])'
    BY <1>1, <2>2, <2>3 DEF Home
  <2>8. stage' # "exited" =>
          \A id \in Slots : /\ conf'[id].name.kind = "anon" => conf'[id].parsed
                            /\ Left(conf[id], perl["vhost"])'
    BY <1>1, <1>9, <2>2, <2>3 DEF Looked, Left
  <2>9. FoundInv'
    BY <1>4, <1>5, <1>9, <2>4, <2>5, <2>6, <2>7, <2>8 DEF FoundInv
  <2>10. stage' # "exited" => \A id \in Slots :
           conf[id].name.kind = "class" /\ conf[id].auto => conf'[id].parsed
    BY <1>1, <1>9, <2>2 DEF Looked, Left, Kept, ByPackage
  <2> QED BY <1>1, <2>2, <2>9, <2>10
<1>11. CASE i = "vhost"
  <2>0. s = "vhost"
    BY <1>3, <1>11 DEF Servers
  <2>1. OwnWalk(w)
    BY <1>1, <1>11, <2>0, OwnWalkEnd DEF w, i
  <2>2. /\ PerlShape(w.P) /\ Kept(w.conf, conf)
        /\ \A id \in Slots : ByPackage(conf[id].name) /\ ~conf[id].parsed
                                => ~w.conf[id].parsed
    BY <2>1 DEF OwnWalk
  <2>3. perl'["main"] = perl["main"]
    BY <1>3, <1>6, <1>11
  <2>4. \A j \in Interps : PerlShape(perl'[j])
    BY <1>6, <1>8, <2>2
  <2>5. \A id \in Slots : Shape(conf'[id])
    BY <1>1, <2>2 DEF Kept
  <2>6. /\ \A id \in Slots : Home(conf[id], perl["main"])
        /\ \A id \in Slots : conf[id].name.kind = "anon" => conf[id].parsed
        /\ \A id \in Slots : Left(conf[id], perl["vhost"])
    BY <1>1, <2>0 DEF FoundInv
  <2>7. ASSUME NEW id \in Slots PROVE Home(conf[id], perl["main"])'
    <3>1. CASE conf[id].parsed
      BY <1>1, <2>2, <2>3, <2>6, <3>1 DEF Home, Kept
    <3>2. CASE ~conf[id].parsed
      <4>1. HandlerOK(w.conf[id])
        BY <2>1 DEF OwnWalk, Walked, ConfOK
      <4>2. w.conf[id].name = conf[id].name
        BY <2>2 DEF Kept
      <4>3. w.conf[id].parsed => ~w.conf[id].anon /\ ~ByPackage(w.conf[id].name)
        BY <2>2, <2>6, <3>2, <4>1, <4>2 DEF HandlerOK
      <4> QED BY <1>1, <4>3 DEF Home
    <3> QED BY <3>1, <3>2
  <2>8. \A id \in Slots : conf'[id].name.kind = "anon" => conf'[id].parsed
    BY <1>1, <2>2, <2>6 DEF Kept
  <2>9. FoundInv'
    BY <1>4, <1>5, <1>9, <2>0, <2>4, <2>5, <2>7, <2>8 DEF FoundInv
  <2>10. \A id \in Slots :
           conf[id].name.kind = "class" /\ conf[id].auto => conf'[id].parsed
    BY <1>1, <2>2, <2>6 DEF Left, Kept, ByPackage
  <2> QED BY <1>1, <2>2, <2>9, <2>10
<1> QED BY <1>3, <1>10, <1>11

\* The clones start with all that their parents have.
LEMMA InitClonesFound == ASSUME NamedInv, FoundInv, InitClones PROVE FoundInv'
<1>1. call = NoCall /\ conn = NoConn /\ stage' = "serving"
      /\ UNCHANGED <<opt, conf, count, call, conn>>
  BY DEF InitClones, FoundInv
<1>2. \A i \in Interps :
        perl'[i] = IF i \in Clones["main"] THEN perl["main"]
                   ELSE IF i \in Clones["vhost"] THEN perl["vhost"] ELSE perl[i]
  BY DEF InitClones
<1>3. "main" \in Interps /\ "vhost" \in Interps
  BY DEF Interps, Servers
<1>4. \A s \in Servers : /\ s \notin Clones["main"] /\ s \notin Clones["vhost"]
  BY ResolveAssumption DEF Servers
<1>5. perl'["main"] = perl["main"] /\ perl'["vhost"] = perl["vhost"]
  BY <1>2, <1>3, <1>4 DEF Servers
<1>6. ASSUME NEW s \in Servers, NEW i \in Clones[s] PROVE perl'[i] = perl[s]
  <2>1. i \in Interps
    BY DEF Interps, CloneIds
  <2>2. i \in Clones["vhost"] => i \notin Clones["main"]
    BY ResolveAssumption
  <2> QED BY <1>2, <2>1, <2>2 DEF Servers
<1>7. \A i \in Interps : PerlShape(perl'[i])
  BY <1>2, <1>3 DEF FoundInv
<1>8. Len(conn'.chain) = 0 /\ conn'.on = "no"
  BY <1>1 DEF NoConn
<1>9. HandlerAlwaysFound'
  BY <1>1 DEF HandlerAlwaysFound
<1>10. \A id \in Slots : Home(conf[id], perl["main"])'
  BY <1>1, <1>5 DEF FoundInv, InitClones, Home
<1>11. /\ \A id \in Slots : conf'[id].name.kind = "anon" => conf'[id].parsed
       /\ \A id \in Slots : Shape(conf'[id])
  BY <1>1 DEF FoundInv, InitClones
<1>12. \A s \in Servers : \A i \in Clones[s] :
          perl'[s].loaded \subseteq perl'[i].loaded /\ perl'[s].anon \subseteq perl'[i].anon
  BY <1>5, <1>6 DEF Servers
<1> QED BY <1>1, <1>7, <1>8, <1>9, <1>10, <1>11, <1>12 DEF FoundInv

-----------------------------------------------------------------------------
(* A callback.                                                             *)

\* What is to be had in interpreter P of server s for a call of h.
CanCall(s, h, P) ==
    \/ /\ ByPackage(h.name)
       /\ h.name.kind = "method" => h.name.pkg \notin Vivified
       /\ h.parsed => (s = "vhost" /\ opt.parent) \/ h.cv \in P.loaded
    \/ h.name.kind = "anon" /\ h.parsed /\ h.obj.id \in P.anon
    \/ h.name.kind \in {"func", "object"} /\ h.name.pkg \in P.loaded

\* What a lookup or a call keeps in the structure h, when the interpreter is Q
\* afterwards.
KeepMore(keep, h, Q) ==
    /\ Shape(keep) /\ keep.prefix = h.prefix /\ (h.auto => keep.auto)
    /\ h.parsed => keep = h
    /\ keep.parsed /\ ~h.parsed => IF keep.anon THEN keep.obj.id \in Q.anon
                                   ELSE keep.cv \in Q.loaded

\* What modperl_handler_resolve leaves for modperl_callback.
ResolvedMore(r, s, h, P) ==
    /\ PerlShape(r.P) /\ Grows(P, r.P)
    /\ Shape(r.h)
    /\ KeepMore(r.keep, h, r.P)
    /\ Callable(h.name) /\ CanCall(s, h, P) =>
         /\ r.st = "1"
         /\ r.h.anon => r.h.obj.id \in r.P.anon
         /\ ~r.h.anon => (s = "vhost" /\ opt.parent) \/ r.h.cv \in r.P.loaded
         /\ r.h.obj.kind = "var" => r.h.obj.pkg \in r.P.loaded

\* An empty structure that is looked up for a call, or its copy.
LEMMA LookupMore ==
    ASSUME NEW h, HandlerOK(h), ~h.parsed, h.name \in SubNames, NEW P,
           NEW n \in Nat, PerlOK(P, n), PerlShape(P), NEW s, NEW g, HandlerOK(g),
           ~g.parsed, Shape(g), g.name = h.name, g.auto, NEW r,
           r = Resolve(g, P, n, FALSE), NEW t, t.P = r.P, t.h = r.h, t.st = r.st,
           KeepMore(t.keep, h, r.P)
    PROVE  ResolvedMore(t, s, h, P)
<1> DEFINE log == FALSE
<1>1. log \in BOOLEAN
  OBVIOUS
<1>2. r = Resolve(g, P, n, log)
  OBVIOUS
<1> HIDE DEF log
<1>3. Finds(r, g, P, log)
  BY <1>1, <1>2, ResolveFinds
<1>4. ResOK(r, g.name, n)
  BY <1>1, <1>2, ResolveOK
<1>5. ResMore(r, g, P)
  BY <1>3 DEF Finds
<1>6. ASSUME Callable(h.name), CanCall(s, h, P)
      PROVE  /\ r.st = "1" /\ r.h.parsed
             /\ r.h.obj.kind = "var" => r.h.obj.pkg \in r.P.loaded
  <2>1. CASE ByPackage(h.name)
    <3>1. r.st = "1"
      BY <1>3, <1>6, <2>1 DEF Finds, CanCall, ByPackage
    <3> QED BY <1>4, <1>5, <2>1, <3>1 DEF ResOK, ResMore, Shape, ByPackage
  <2>2. CASE h.name.kind \in {"func", "object"}
    <3>1. r.st = "1" /\ h.name.pkg \in P.loaded
      BY <1>3, <1>6, <2>2 DEF Finds, CanCall, ByPackage
    <3> QED BY <1>4, <1>5, <3>1 DEF ResOK, ResMore, Shape, Grows
  <2> QED BY <1>6, <2>1, <2>2 DEF CanCall
<1>7. PerlShape(r.P) /\ Grows(P, r.P) /\ Shape(r.h)
      /\ (r.h.parsed => IF r.h.anon THEN r.h.obj.id \in r.P.anon
                        ELSE r.h.cv \in r.P.loaded)
  BY <1>5 DEF ResMore
<1> QED BY <1>6, <1>7 DEF ResolvedMore

\* modperl_handler_resolve.
LEMMA HandlerResolveMore ==
    ASSUME opt \in [threaded : BOOLEAN, parent : BOOLEAN, autoload : BOOLEAN],
           NEW h, HandlerOK(h), Shape(h), h.name \in SubNames, NEW P,
           NEW n \in Nat, PerlOK(P, n), PerlShape(P), NEW s, NEW t,
           t = HandlerResolve(h, P, n)
    PROVE  ResolvedMore(t, s, h, P)
<1>0. h \in HandlerType
  BY DEF HandlerOK
<1>1. CASE h.parsed
  <2>1. t = Keeping(Res("1", h, P, n), h)
    BY <1>1 DEF HandlerResolve
  <2>2. t.st = "1" /\ t.h = h /\ t.P = P /\ t.keep = h
    BY <2>1 DEF Keeping, Res
  <2>3. Grows(P, P) /\ KeepMore(h, h, P)
    BY <1>1 DEF Grows, KeepMore
  <2>4. (h.anon <=> h.name.kind = "anon") /\ h.cv = Denotes(h.name)
        /\ (h.anon <=> h.cv = NULL)
    BY <1>1 DEF HandlerOK
  <2>5. ASSUME h.name.kind \in {"func", "object"}, h.name.pkg \in P.loaded
        PROVE  h.cv \in P.loaded
    BY <2>4, <2>5, DenotesLoads
  <2>6. h.obj.kind = "var" => h.name.kind = "object" /\ h.obj.pkg = h.name.pkg
    BY DEF Shape
  <2>7. ASSUME CanCall(s, h, P)
        PROVE  /\ h.anon => h.obj.id \in P.anon
               /\ ~h.anon => (s = "vhost" /\ opt.parent) \/ h.cv \in P.loaded
               /\ h.obj.kind = "var" => h.obj.pkg \in P.loaded
    BY <1>1, <2>4, <2>5, <2>6, <2>7 DEF CanCall, ByPackage
  <2> QED BY <2>2, <2>3, <2>7 DEF ResolvedMore
<1>2. CASE ~h.parsed /\ opt.threaded
  <2> DEFINE d == Dup(h)
             g == [d EXCEPT !.auto = TRUE]
             r == Resolve(g, P, n, FALSE)
  <2>1. t = Keeping(r, h)
    BY <1>2 DEF HandlerResolve
  <2>2. HandlerOK(d) /\ ~d.parsed /\ d.name = h.name /\ d.obj = NoObj
    <3>1. h.name \in NameType /\ "none" \in Prefixes
      BY DEF NameType, Prefixes
    <3>2. d.obj = NoObj
      BY DEF Dup, NewHandler
    <3> QED BY <3>1, <3>2, NewHandlerOK DEF Dup
  <2> HIDE DEF d
  <2>3. HandlerOK(g) /\ ~g.parsed /\ g.name = h.name
    BY <2>2, AutoOK
  <2>4. g.auto = TRUE /\ g.obj = NoObj
    BY <2>2 DEF HandlerOK, HandlerType
  <2> HIDE DEF g
  <2>5. Shape(g)
    BY <2>3, <2>4 DEF Shape, NoObj
  <2> HIDE DEF r
  <2>6. t.P = r.P /\ t.h = r.h /\ t.st = r.st /\ t.keep = h
    BY <2>1 DEF Keeping
  <2>7. KeepMore(t.keep, h, r.P)
    BY <1>2, <2>6 DEF KeepMore
  <2> QED BY <1>2, <2>3, <2>4, <2>5, <2>6, <2>7, LookupMore DEF r
<1>3. CASE ~h.parsed /\ ~opt.threaded
  <2> DEFINE g == [h EXCEPT !.auto = TRUE]
             r == Resolve(g, P, n, FALSE)
  <2>1. t = Keeping(r, r.h)
    BY <1>3 DEF HandlerResolve, KeepingResult
  <2>2. HandlerOK(g) /\ ~g.parsed /\ g.name = h.name
    BY <1>3, AutoOK
  <2>3. g.auto = TRUE /\ g.obj = h.obj /\ g.prefix = h.prefix
    BY <1>0 DEF HandlerType
  <2> HIDE DEF g
  <2>4. Shape(g)
    BY <2>2, <2>3 DEF Shape
  <2>5. t.P = r.P /\ t.h = r.h /\ t.st = r.st /\ t.keep = r.h
    <3> HIDE DEF r
    <3> QED BY <2>1 DEF Keeping
  <2>6. ResMore(r, g, P)
    <3> DEFINE log == FALSE
    <3>1. log \in BOOLEAN /\ r = Resolve(g, P, n, log)
      OBVIOUS
    <3> HIDE DEF log, r
    <3>2. Finds(r, g, P, log)
      BY <2>2, <2>4, <3>1, ResolveFinds
    <3> QED BY <3>2 DEF Finds
  <2> HIDE DEF r
  <2>7. KeepMore(t.keep, h, r.P)
    BY <1>3, <2>3, <2>5, <2>6 DEF KeepMore, ResMore
  <2> QED BY <1>3, <2>2, <2>3, <2>4, <2>5, <2>7, LookupMore DEF r
<1> QED BY <1>1, <1>2, <1>3

\* modperl_callback
CallMore(c, s, h, P) ==
    /\ PerlShape(c.P) /\ Grows(P, c.P)
    /\ KeepMore(c.keep, h, c.P)
    /\ c.out = "ok" => h.name.kind = "anon" \/ Denotes(h.name) # NULL
    /\ Callable(h.name) /\ CanCall(s, h, P) => c.out = "ok"

\* The module may be loaded after the structure is filled in.
LEMMA KeepGrows ==
    ASSUME NEW k, NEW h, NEW P, NEW Q, KeepMore(k, h, P), Grows(P, Q)
    PROVE  KeepMore(k, h, Q)
BY DEF KeepMore, Grows

\* modperl_callback.
LEMMA CallbackMore ==
    ASSUME opt \in [threaded : BOOLEAN, parent : BOOLEAN, autoload : BOOLEAN],
           NEW h, HandlerOK(h), Shape(h), h.name \in SubNames, NEW P,
           NEW n \in Nat, PerlOK(P, n), PerlShape(P), NEW s, NEW c,
           c = Callback(s, h, P, n)
    PROVE  CallMore(c, s, h, P)
<1> DEFINE r == HandlerResolve(h, P, n)
           Out(out, pkg, R) == [out |-> out, pkg |-> pkg, P |-> R, n |-> r.n,
                                keep |-> r.keep]
           R == LookupAutoload(s, r.P, r.h.cv)
           Call == Callable(h.name) /\ CanCall(s, h, P)
<1>1. ResolvedOK(r, h, n)
  BY HandlerResolveOK
<1>2. ResolvedMore(r, s, h, P)
  BY HandlerResolveMore
<1>3. c = CallResolved(s, r)
  BY DEF Callback
<1> HIDE DEF r
<1>4. ASSUME NEW out, NEW pkg, NEW Q, PerlShape(Q), Grows(r.P, Q),
             out = "ok" => h.name.kind = "anon" \/ Denotes(h.name) # NULL,
             Call => out = "ok"
      PROVE  CallMore(Out(out, pkg, Q), s, h, P)
  <2>1. KeepMore(r.keep, h, Q) /\ Grows(P, Q)
    BY <1>2, <1>4, KeepGrows DEF ResolvedMore, Grows
  <2> QED BY <1>4, <2>1 DEF CallMore
<1>5. PerlShape(r.P) /\ Grows(r.P, r.P)
  BY <1>2 DEF ResolvedMore, Grows
<1>6. Call => /\ r.st = "1"
              /\ r.h.anon => r.h.obj.id \in r.P.anon
              /\ ~r.h.anon => (s = "vhost" /\ opt.parent) \/ r.h.cv \in r.P.loaded
              /\ r.h.obj.kind = "var" => r.h.obj.pkg \in r.P.loaded
  BY <1>2 DEF ResolvedMore
<1> HIDE DEF Call
<1>7. CASE r.st # "1" \/ (r.h.obj.kind = "var" /\ r.h.obj.pkg \notin r.P.loaded)
  <2>1. c \in {Out("exit", NULL, r.P), Out("error", NULL, r.P)}
    BY <1>1, <1>3, <1>7 DEF CallResolved, ResolvedOK
  <2>2. ~Call
    BY <1>6, <1>7
  <2> HIDE DEF Out
  <2> QED BY <1>4, <1>5, <2>1, <2>2
<1>8. CASE r.st = "1" /\ ~(r.h.obj.kind = "var" /\ r.h.obj.pkg \notin r.P.loaded)
           /\ r.h.anon
  <2> DEFINE o == IF r.h.obj.id \in r.P.anon THEN "ok" ELSE "exit"
  <2>1. c = Out(o, NULL, r.P)
    BY <1>1, <1>3, <1>8 DEF CallResolved, ResolvedOK, AnonGet
  <2>2. h.name.kind = "anon"
    <3>1. HandlerOK(r.h) /\ r.h.parsed /\ r.h.name = h.name
      BY <1>1, <1>8 DEF ResolvedOK
    <3> QED BY <1>8, <3>1 DEF HandlerOK
  <2>3. Call => o = "ok"
    BY <1>6, <1>8
  <2> HIDE DEF Out, o
  <2> QED BY <1>4, <1>5, <2>1, <2>2, <2>3
<1>9. CASE r.st = "1" /\ ~(r.h.obj.kind = "var" /\ r.h.obj.pkg \notin r.P.loaded)
           /\ ~r.h.anon
  <2>1. HandlerOK(r.h) /\ r.h.parsed /\ r.h.name = h.name /\ PerlOK(r.P, r.n)
    BY <1>1, <1>9 DEF ResolvedOK
  <2>2. r.h.cv \in Packages /\ r.h.cv = Denotes(h.name) /\ Denotes(h.name) # NULL
    BY <1>9, <2>1 DEF HandlerOK, HandlerType
  <2>3. Code[r.h.cv].loads
    BY <2>2, DenotesLoads
  <2>4. /\ PerlShape(R) /\ Grows(r.P, R)
        /\ s = "vhost" /\ opt.parent => r.h.cv \in R.loaded
    BY <1>5, <2>1, <2>2, <2>3, AutoloadShape
  <2>5. \/ c = Out("ok", r.h.cv, R)
        \/ c = Out("error", NULL, R) /\ r.h.cv \notin R.loaded
    BY <1>3, <1>9 DEF CallResolved
  <2> HIDE DEF Out, R
  <2>6. Call => r.h.cv \in R.loaded
    BY <1>6, <1>9, <2>4 DEF Grows
  <2> QED BY <1>4, <2>2, <2>4, <2>5, <2>6
<1> QED BY <1>7, <1>8, <1>9

-----------------------------------------------------------------------------
(* Serving.                                                                *)

\* The interpreters of a server.
LEMMA InterpsOfIs ==
    ASSUME NEW s \in Servers
    PROVE  /\ InterpsOf(s) \subseteq Interps /\ ParentOf(s) \in Servers
           /\ opt.threaded => InterpsOf(s) = Clones[ParentOf(s)]
           /\ ~opt.threaded => InterpsOf(s) = {ParentOf(s)}
<1>1. ParentOf(s) \in Servers
  BY DEF ParentOf, Servers
<1>2. Clones[ParentOf(s)] \subseteq Interps
  BY <1>1 DEF Interps, CloneIds
<1>3. {ParentOf(s)} \subseteq Interps
  BY <1>1 DEF Interps
<1> QED BY <1>1, <1>2, <1>3 DEF InterpsOf

\* An interpreter that serves has become Q: the parents of clones stay as they
\* are, and all interpreters still have what they had.
Served ==
    /\ \A j \in Interps : PerlShape(perl'[j])
    /\ Grows(perl["main"], perl'["main"])
    /\ opt.threaded =>
         /\ \A s \in Servers : perl'[s] = perl[s]
         /\ \A s \in Servers : \A j \in Clones[s] :
              perl'[s].loaded \subseteq perl'[j].loaded
              /\ perl'[s].anon \subseteq perl'[j].anon

\* A step on one of a server's interpreters leaves the others alone.
LEMMA ServeStep ==
    ASSUME NamedInv, FoundInv, stage = "serving", NEW s \in Servers,
           NEW i \in InterpsOf(s), NEW Q, PerlShape(Q), Grows(perl[i], Q),
           perl' = [perl EXCEPT ![i] = Q]
    PROVE  Served
<1>1. i \in Interps /\ perl \in [Interps -> PerlType] /\ Servers \subseteq Interps
  BY InterpsOfIs DEF NamedInv, Interps
<1>2. \A j \in Interps : perl'[j] = IF j = i THEN Q ELSE perl[j]
  BY <1>1
<1>3. \A j \in Interps : PerlShape(perl'[j])
  BY <1>2 DEF FoundInv
<1>4. "main" \in Interps
  BY <1>1 DEF Servers
<1>5. Grows(perl["main"], perl'["main"])
  BY <1>2, <1>4 DEF Grows
<1>6. ASSUME opt.threaded
      PROVE  /\ \A t \in Servers : perl'[t] = perl[t]
             /\ \A t \in Servers : \A j \in Clones[t] :
                  perl'[t].loaded \subseteq perl'[j].loaded
                  /\ perl'[t].anon \subseteq perl'[j].anon
  <2>1. i \notin Servers
    <3>1. ParentOf(s) \in Servers /\ i \in Clones[ParentOf(s)]
      BY <1>6, InterpsOfIs
    <3> QED BY <3>1, ResolveAssumption
  <2>2. \A t \in Servers : perl'[t] = perl[t]
    BY <1>1, <1>2, <2>1
  <2>3. ASSUME NEW t \in Servers, NEW j \in Clones[t]
        PROVE  perl'[t].loaded \subseteq perl'[j].loaded
               /\ perl'[t].anon \subseteq perl'[j].anon
    <3>1. j \in Interps
      BY DEF Interps, CloneIds
    <3>2. perl[t].loaded \subseteq perl[j].loaded /\ perl[t].anon \subseteq perl[j].anon
      BY <1>6 DEF FoundInv
    <3> QED BY <1>2, <2>2, <3>1, <3>2 DEF Grows
  <2> QED BY <2>2, <2>3
<1> QED BY <1>3, <1>5, <1>6 DEF Served

\* A call of h, a structure of the configuration or one of a filter that was
\* added at run time.
LEMMA CallFound ==
    ASSUME NamedInv, FoundInv, stage = "serving", NEW s \in Servers,
           NEW i \in InterpsOf(s), NEW h, HandlerOK(h), Shape(h),
           h.name \in SubNames, Home(h, perl["main"]),
           h.name.kind = "anon" => h.parsed, NEW c, Calls(s, i, h, c), opt' = opt
    PROVE  /\ CallMore(c, s, h, perl[i]) /\ Served /\ HandlerAlwaysFound'
           /\ opt.threaded => c.keep = h
<1>1. /\ opt \in [threaded : BOOLEAN, parent : BOOLEAN, autoload : BOOLEAN]
      /\ count \in Nat /\ i \in Interps /\ PerlOK(perl[i], count)
      /\ PerlShape(perl[i])
  BY InterpsOfIs DEF NamedInv, FoundInv
<1>2. CallMore(c, s, h, perl[i])
  BY <1>1, CallbackMore DEF Calls
<1>3. Served
  BY <1>2, ServeStep DEF CallMore, Calls
<1>4. CallbackOK(c, h, count)
  BY <1>1, CallbackIsOK DEF Calls
<1>5. call'.s = s /\ call'.name = h.name /\ call'.out = c.out
  BY DEF Calls, Called
<1>6. h.name.kind \in {"class", "method", "func", "object", "anon"}
  BY DEF SubNames
<1>7. h.parsed => (h.anon <=> h.name.kind = "anon")
  BY DEF HandlerOK
<1>8. ASSUME ~(s = "vhost" /\ opt.parent)
      PROVE  /\ perl["main"].loaded \subseteq perl[i].loaded
             /\ perl["main"].anon \subseteq perl[i].anon
  <2>1. ParentOf(s) = "main"
    BY <1>8 DEF ParentOf
  <2>2. CASE opt.threaded
    <3>1. i \in Clones["main"] /\ "main" \in Servers
      BY <2>1, <2>2, InterpsOfIs
    <3> QED BY <2>2, <3>1 DEF FoundInv
  <2>3. CASE ~opt.threaded
    <3>1. i = "main"
      BY <2>1, <2>3, InterpsOfIs
    <3> QED BY <3>1
  <2> QED BY <2>2, <2>3
<1>9. ASSUME Reliable(call)' PROVE CanCall(s, h, perl[i])
  <2>1. CASE ByPackage(h.name)
    <3>1. /\ ~(s = "main" /\ opt.parent /\ ~opt.threaded)
          /\ h.name.kind = "method" => h.name.pkg \notin Vivified
      BY <1>5, <1>9, <2>1 DEF Reliable, ByPackage
    <3>2. h.parsed => (s = "vhost" /\ opt.parent) \/ h.cv \in perl[i].loaded
      <4>1. ~(s = "vhost" /\ opt.parent) => opt.threaded \/ ~opt.parent
        BY <3>1 DEF Servers
      <4> QED BY <1>8, <2>1, <4>1 DEF Home
    <3> QED BY <2>1, <3>1, <3>2 DEF CanCall
  <2>2. CASE h.name.kind = "anon"
    <3>1. ~(s = "vhost" /\ opt.parent)
      BY <1>5, <1>9, <2>2 DEF Reliable
    <3> QED BY <1>7, <1>8, <2>2, <3>1 DEF Home, CanCall
  <2>3. CASE h.name.kind \in {"func", "object"}
    <3>1. opt.threaded /\ h.name.pkg \in perl'[ParentOf(s)].loaded
      BY <1>5, <1>9, <2>3 DEF Reliable, ParentOf
    <3>2. ParentOf(s) \in Servers /\ i \in Clones[ParentOf(s)]
      BY <3>1, InterpsOfIs
    <3>3. perl'[ParentOf(s)] = perl[ParentOf(s)]
      BY <1>3, <3>1, <3>2 DEF Served
    <3>4. perl[ParentOf(s)].loaded \subseteq perl[i].loaded
      BY <3>1, <3>2 DEF FoundInv
    <3> QED BY <2>3, <3>1, <3>3, <3>4 DEF CanCall
  <2> QED BY <1>6, <2>1, <2>2, <2>3 DEF ByPackage
<1>10. HandlerAlwaysFound'
  <2>1. Reliable(call)' =>
          /\ Callable(h.name) => c.out = "ok"
          /\ c.out = "ok" => h.name.kind = "anon" \/ Denotes(h.name) # NULL
    BY <1>2, <1>9 DEF CallMore
  <2> QED BY <1>5, <2>1 DEF HandlerAlwaysFound
<1> QED BY <1>2, <1>3, <1>4, <1>10 DEF CallbackOK

\* A call leaves the rest of the invariant when it replaces structure id by what
\* it keeps.
LEMMA KeepHome ==
    ASSUME NamedInv, FoundInv, stage = "serving", NEW s \in Servers,
           NEW i \in InterpsOf(s), NEW id \in Slots, NEW c,
           CallMore(c, s, conf[id], perl[i]), opt.threaded => c.keep = conf[id],
           HandlerOK(c.keep), c.keep.name = conf[id].name,
           perl' = [perl EXCEPT ![i] = c.P], opt' = opt,
           conf' = [conf EXCEPT ![id] = c.keep]
    PROVE  /\ \A j \in Slots : Shape(conf'[j])
           /\ \A j \in Slots : Home(conf[j], perl["main"])'
           /\ \A j \in Slots : conf'[j].name.kind = "anon" => conf'[j].parsed
<1> DEFINE h == conf[id]
           k == c.keep
<1>1. conf \in [Slots -> HandlerType] /\ perl \in [Interps -> PerlType]
      /\ i \in Interps /\ "main" \in Interps
  BY InterpsOfIs DEF NamedInv, ConfOK, Interps, Servers
<1>2. \A j \in Slots : conf'[j] = IF j = id THEN k ELSE conf[j]
  BY <1>1
<1>3. /\ \A j \in Slots : Shape(conf[j])
      /\ \A j \in Slots : Home(conf[j], perl["main"])
      /\ \A j \in Slots : conf[j].name.kind = "anon" => conf[j].parsed
  BY DEF FoundInv
<1>4. KeepMore(k, h, c.P) /\ PerlShape(c.P) /\ Grows(perl[i], c.P)
  BY DEF CallMore
<1>5. Served
  BY <1>4, ServeStep
<1>6. Grows(perl["main"], perl'["main"])
  BY <1>5 DEF Served
<1> HIDE DEF k, h
<1>7. Shape(k) /\ (h.parsed => k = h)
  BY <1>4 DEF KeepMore
<1>8. Home(k, perl'["main"])
  <2>1. Home(h, perl'["main"])
    BY <1>3, <1>6, HomeGrows DEF h
  <2>2. CASE h.parsed \/ opt.threaded
    BY <1>7, <2>1, <2>2 DEF h, k
  <2>3. CASE ~h.parsed /\ ~opt.threaded
    <3>1. k.parsed => ~k.anon
      BY <1>3, <2>3 DEF HandlerOK, h, k
    <3>2. k.parsed => k.cv \in c.P.loaded
      BY <1>4, <2>3, <3>1 DEF KeepMore
    <3>3. ~opt.parent => perl'["main"] = c.P
      <4>1. ~opt.parent => i = "main"
        BY <2>3, InterpsOfIs DEF ParentOf
      <4> QED BY <1>1, <4>1
    <3> QED BY <2>3, <3>1, <3>2, <3>3 DEF Home
  <2> QED BY <2>2, <2>3
<1>9. ASSUME NEW j \in Slots PROVE Home(conf[j], perl["main"])'
  <2>1. Home(conf'[j], perl'["main"])
    BY <1>2, <1>3, <1>6, <1>8, HomeGrows
  <2> QED BY <2>1 DEF Home
<1>10. k.name.kind = "anon" => k.parsed
  BY <1>3, <1>7 DEF h, k
<1> QED BY <1>2, <1>3, <1>7, <1>9, <1>10

\* A phase of a request.
LEMMA RunHandlerFound ==
    ASSUME NamedInv, FoundInv, NEW s \in Servers, NEW i \in Interps,
           NEW id \in Slots, RunHandler(s, i, id)
    PROVE  FoundInv'
<1>1. PICK c : Calls(s, i, conf[id], c) /\ conf' = [conf EXCEPT ![id] = c.keep]
  BY DEF RunHandler, Calls
<1>2. UNCHANGED <<opt, conn>> /\ stage = "serving" /\ i \in InterpsOf(s)
  BY DEF RunHandler
<1>3. HandlerOK(conf[id]) /\ conf[id].name \in SubNames
  BY DEF RunHandler, NamedInv, ConfOK, NoName
<1>4. Shape(conf[id]) /\ Home(conf[id], perl["main"])
      /\ (conf[id].name.kind = "anon" => conf[id].parsed)
  BY <1>2 DEF FoundInv
<1>5. CallLeaves(conf[id], c)
  BY <1>1, <1>3, CallStep
<1>6. HandlerOK(c.keep) /\ c.keep.name = conf[id].name
  BY <1>5 DEF CallLeaves
<1>7. /\ CallMore(c, s, conf[id], perl[i]) /\ Served /\ HandlerAlwaysFound'
      /\ opt.threaded => c.keep = conf[id]
  BY <1>1, <1>2, <1>3, <1>4, CallFound
<1>8. perl' = [perl EXCEPT ![i] = c.P] /\ stage' \in {"serving", "exited"}
  BY <1>1, <1>2 DEF Calls
<1>9. /\ \A j \in Slots : Shape(conf'[j])
      /\ \A j \in Slots : Home(conf[j], perl["main"])'
      /\ \A j \in Slots : conf'[j].name.kind = "anon" => conf'[j].parsed
  BY <1>1, <1>2, <1>6, <1>7, <1>8, KeepHome
<1>10. /\ \A k \in 1 .. Len(conn'.chain) :
             conn'.chain[k].id = "rt" => Shape(conn'.chain[k].h)
       /\ conn'.on # "no" => conn'.i \in InterpsOf(conn.s)'
  BY <1>2 DEF FoundInv, InterpsOf, ParentOf
<1> QED BY <1>2, <1>7, <1>8, <1>9, <1>10 DEF FoundInv, Served

-----------------------------------------------------------------------------
(* Filters.                                                                *)

\* An init handler may load its module.
LEMMA RunInitMore ==
    ASSUME NEW s, NEW P, NEW n, PerlOK(P, n), PerlShape(P), NEW q \in Packages,
           NEW fails
    PROVE  PerlShape(RunInit(s, P, q, fails).P) /\ Grows(P, RunInit(s, P, q, fails).P)
<1> DEFINE Q == LookupAutoload(s, P, q)
<1>1. PerlShape(Q) /\ Grows(P, Q)
  BY AutoloadShape
<1>2. RunInit(s, P, q, fails) =
        [P |-> Q, st |-> IF q \in Q.loaded /\ ~fails THEN "ok" ELSE "failed"]
  BY DEF RunInit
<1> HIDE DEF Q
<1> QED BY <1>1, <1>2

\* How often a filter is at a level of a chain that gets longer.
LEMMA LevelsAppend ==
    ASSUME NEW c \in Seq(EntryType), NEW e \in EntryType, NEW id, NEW level
    PROVE  /\ Never(c, id, level) /\ ~(e.id = id /\ e.level = level)
                => Never(Append(c, e), id, level)
           /\ Once(c, id, level) /\ ~(e.id = id /\ e.level = level)
                => Once(Append(c, e), id, level)
           /\ Never(c, id, level) /\ e.id = id /\ e.level = level
                => Once(Append(c, e), id, level)
<1> DEFINE d == Append(c, e)
<1>1. Len(c) \in Nat /\ Len(d) = Len(c) + 1
      /\ \A k \in 1 .. Len(d) : d[k] = IF k <= Len(c) THEN c[k] ELSE e
  OBVIOUS
<1> HIDE DEF d
<1>2. \A k \in 1 .. Len(d) : k \in 1 .. Len(c) \/ (k = Len(d) /\ ~(k <= Len(c)))
  BY <1>1
<1>3. \A k \in 1 .. Len(c) : k \in 1 .. Len(d) /\ d[k] = c[k] /\ k # Len(d)
  BY <1>1
<1>4. Len(d) \in 1 .. Len(d) /\ d[Len(d)] = e
  BY <1>1
<1>5. Never(c, id, level) /\ ~(e.id = id /\ e.level = level) => Never(d, id, level)
  BY <1>2, <1>3, <1>4 DEF Never
<1>6. Once(c, id, level) /\ ~(e.id = id /\ e.level = level) => Once(d, id, level)
  <2> SUFFICES ASSUME Once(c, id, level), ~(e.id = id /\ e.level = level)
               PROVE  Once(d, id, level)
    OBVIOUS
  <2>1. PICK k \in 1 .. Len(c) : \A j \in 1 .. Len(c) :
          c[j].id = id /\ c[j].level = level <=> j = k
    BY DEF Once
  <2>2. ASSUME NEW j \in 1 .. Len(d)
        PROVE  d[j].id = id /\ d[j].level = level <=> j = k
    <3>1. CASE j \in 1 .. Len(c)
      BY <1>3, <2>1, <3>1
    <3>2. CASE j = Len(d)
      BY <1>3, <1>4, <3>2
    <3> QED BY <1>2, <3>1, <3>2
  <2>3. k \in 1 .. Len(d)
    BY <1>3
  <2> QED BY <2>2, <2>3 DEF Once
<1>7. Never(c, id, level) /\ e.id = id /\ e.level = level => Once(d, id, level)
  <2> SUFFICES ASSUME Never(c, id, level), e.id = id, e.level = level
               PROVE  Once(d, id, level)
    OBVIOUS
  <2>1. \A j \in 1 .. Len(d) : d[j].id = id /\ d[j].level = level <=> j = Len(d)
    BY <1>2, <1>3, <1>4 DEF Never
  <2> QED BY <1>4, <2>1 DEF Once
<1> QED BY <1>5, <1>6, <1>7 DEF d

\* The entries of two chains put together.
LEMMA ConcatIs ==
    ASSUME NEW c \in Seq(EntryType), NEW d \in Seq(EntryType)
    PROVE  \A k \in 1 .. Len(d \o c) :
             \/ k \in 1 .. Len(d) /\ (d \o c)[k] = d[k]
             \/ /\ k - Len(d) \in 1 .. Len(c) /\ (d \o c)[k] = c[k - Len(d)]
                /\ k \notin 1 .. Len(d)
<1> DEFINE f == d \o c
<1>1. Len(c) \in Nat /\ Len(d) \in Nat /\ Len(f) = Len(d) + Len(c)
      /\ \A k \in 1 .. Len(f) : f[k] = IF k <= Len(d) THEN d[k] ELSE c[k - Len(d)]
  OBVIOUS
<1> HIDE DEF f
<1>2. \A k \in 1 .. Len(f) :
        \/ k \in 1 .. Len(d) /\ f[k] = d[k]
        \/ k - Len(d) \in 1 .. Len(c) /\ f[k] = c[k - Len(d)] /\ k \notin 1 .. Len(d)
  BY <1>1
<1> QED BY <1>2 DEF f

\* Where a filter is in them.
LEMMA LevelsConcat ==
    ASSUME NEW c \in Seq(EntryType), NEW d \in Seq(EntryType), NEW id, NEW level
    PROVE  /\ Never(d, id, level) /\ Never(c, id, level) => Never(d \o c, id, level)
           /\ Never(d, id, level) /\ Once(c, id, level) => Once(d \o c, id, level)
           /\ Once(d, id, level) /\ Never(c, id, level) => Once(d \o c, id, level)
<1> DEFINE f == d \o c
<1>1. Len(c) \in Nat /\ Len(d) \in Nat /\ Len(f) = Len(d) + Len(c)
      /\ \A k \in 1 .. Len(f) : f[k] = IF k <= Len(d) THEN d[k] ELSE c[k - Len(d)]
  OBVIOUS
<1> HIDE DEF f
<1>2. \A k \in 1 .. Len(f) :
        \/ k \in 1 .. Len(d) /\ f[k] = d[k]
        \/ k - Len(d) \in 1 .. Len(c) /\ f[k] = c[k - Len(d)] /\ k \notin 1 .. Len(d)
  BY ConcatIs DEF f
<1>3. \A k \in 1 .. Len(d) : k \in 1 .. Len(f) /\ f[k] = d[k]
  BY <1>1
<1>4. \A k \in 1 .. Len(c) : k + Len(d) \in 1 .. Len(f) /\ f[k + Len(d)] = c[k]
                             /\ (k + Len(d)) \notin 1 .. Len(d)
  BY <1>1
<1>5. Never(d, id, level) /\ Never(c, id, level) => Never(f, id, level)
  BY <1>2 DEF Never
<1>6. ASSUME Never(d, id, level), Once(c, id, level) PROVE Once(f, id, level)
  <2>1. PICK k \in 1 .. Len(c) : \A j \in 1 .. Len(c) :
          c[j].id = id /\ c[j].level = level <=> j = k
    BY <1>6 DEF Once
  <2>2. ASSUME NEW j \in 1 .. Len(f)
        PROVE  f[j].id = id /\ f[j].level = level <=> j = k + Len(d)
    <3>1. CASE j \in 1 .. Len(d) /\ f[j] = d[j]
      BY <1>4, <1>6, <3>1 DEF Never
    <3>2. CASE j - Len(d) \in 1 .. Len(c) /\ f[j] = c[j - Len(d)]
      <4>1. f[j].id = id /\ f[j].level = level <=> j - Len(d) = k
        BY <2>1, <3>2
      <4> QED BY <1>1, <4>1
    <3> QED BY <1>2, <3>1, <3>2
  <2> QED BY <1>4, <2>2 DEF Once
<1>7. ASSUME Once(d, id, level), Never(c, id, level) PROVE Once(f, id, level)
  <2>1. PICK k \in 1 .. Len(d) : \A j \in 1 .. Len(d) :
          d[j].id = id /\ d[j].level = level <=> j = k
    BY <1>7 DEF Once
  <2>2. ASSUME NEW j \in 1 .. Len(f)
        PROVE  f[j].id = id /\ f[j].level = level <=> j = k
    BY <1>2, <1>7, <2>1 DEF Never
  <2> QED BY <1>3, <2>2 DEF Once
<1> QED BY <1>5, <1>6, <1>7 DEF f

\* Where a filter is depends on the ids and levels only.
LEMMA LevelsSame ==
    ASSUME NEW c, NEW d, Len(d) = Len(c),
           \A k \in 1 .. Len(c) : d[k].id = c[k].id /\ d[k].level = c[k].level,
           NEW id, NEW level
    PROVE  /\ Never(c, id, level) => Never(d, id, level)
           /\ Once(c, id, level) => Once(d, id, level)
<1>1. Never(c, id, level) => Never(d, id, level)
  BY DEF Never
<1>2. ASSUME Once(c, id, level) PROVE Once(d, id, level)
  <2>1. PICK k \in 1 .. Len(c) : \A j \in 1 .. Len(c) :
          c[j].id = id /\ c[j].level = level <=> j = k
    BY <1>2 DEF Once
  <2>2. ASSUME NEW j \in 1 .. Len(d)
        PROVE  d[j].id = id /\ d[j].level = level <=> j = k
    BY <2>1
  <2>3. k \in 1 .. Len(d)
    OBVIOUS
  <2> QED BY <2>2, <2>3 DEF Once
<1> QED BY <1>1, <1>2

\* One step of the loop that adds filters, and the whole of it.
AddOne(s, level, fails, acc, id) ==
    LET h == conf[id]
        i == IF "hasinit" \in h.attrs /\ h.next # NULL
             THEN RunInit(s, acc.P, h.next, fails) ELSE [P |-> acc.P, st |-> "ok"]
    IN  IF acc.st # "ok" \/ h.name.kind = "unset" \/ ~Takes(level, h) THEN acc
        ELSE [chain |-> Append(acc.chain, Entry(id, level, Unset)),
              P |-> i.P, st |-> i.st]

\* Before the loop of modperl_filter_add_connection and _add_request.
AddStart(P) == [P |-> P, st |-> "ok", chain |-> <<>>]

\* AddFilters with the loop unrolled.
LEMMA AddFiltersIs ==
    ASSUME NEW s, NEW P, NEW level, NEW fails
    PROVE  AddFilters(s, P, level, fails) =
             AddOne(s, level, fails, AddOne(s, level, fails, AddStart(P), "f1"), "f2")
<1> DEFINE e == [P |-> P, st |-> "ok", chain |-> <<>>]
           Init(acc, h) == IF "hasinit" \in h.attrs /\ h.next # NULL
                           THEN RunInit(s, acc.P, h.next, fails)
                           ELSE [P |-> acc.P, st |-> "ok"]
           Add(acc, id) ==
               LET h == conf[id] IN
               IF acc.st # "ok" \/ h.name.kind = "unset" \/ ~Takes(level, h) THEN acc
               ELSE [chain |-> Append(acc.chain, Entry(id, level, Unset)),
                     P |-> Init(acc, h).P, st |-> Init(acc, h).st]
           n == Len(FilterOrder)
           Body(g, k) == IF k = 0 THEN e ELSE Add(g[k - 1], FilterOrder[k])
           F == CHOOSE g : g = [k \in 0 .. n |-> Body(g, k)]
<1>1. n = 2 /\ FilterOrder[1] = "f1" /\ FilterOrder[2] = "f2"
  BY DEF FilterOrder
<1>2. \E v1, v2 : v1 = Add(e, "f1") /\ v2 = Add(v1, "f2")
  <2> HIDE DEF Add, e
  <2> QED OBVIOUS
<1>3. PICK v1, v2 : v1 = Add(e, "f1") /\ v2 = Add(v1, "f2")
  BY <1>2
<1> DEFINE G == [k \in 0 .. n |-> IF k = 0 THEN e ELSE IF k = 1 THEN v1 ELSE v2]
<1>4. G = [k \in 0 .. n |-> Body(G, k)]
  <2>1. \A k \in 1 .. n : Body(G, k) = Add(G[k - 1], FilterOrder[k])
    <3> HIDE DEF Add, G, e
    <3> QED BY <1>1
  <2>2. Body(G, 0) = e
    <3> HIDE DEF Add, G, e
    <3> QED OBVIOUS
  <2> HIDE DEF Body, Add, e
  <2>3. 0 .. n = {0, 1, 2} /\ 1 .. n = {1, 2} /\ 1 - 1 = 0 /\ 2 - 1 = 1
    BY <1>1
  <2> HIDE DEF n
  <2>4. G[0] = e /\ G[1] = v1 /\ G[2] = v2 /\ G = [k \in 0 .. n |-> G[k]]
    BY <2>3
  <2> HIDE DEF G
  <2>5. \A k \in 0 .. n : G[k] = Body(G, k)
    BY <1>1, <1>3, <2>1, <2>2, <2>3, <2>4
  <2> QED BY <2>4, <2>5
<1>5. F = [k \in 0 .. n |-> Body(F, k)]
  <2> HIDE DEF Body, n, G
  <2> QED BY <1>4, Zenon
<1>6. ASSUME NEW k \in 0 .. n PROVE F[k] = Body(F, k)
  <2> HIDE DEF F, Body, n
  <2> QED BY <1>5
<1>7. F[n] = v2
  <2> HIDE DEF F
  <2>1. F[0] = e
    <3>1. F[0] = Body(F, 0)
      BY ONLY <1>1, <1>6
    <3> HIDE DEF Add, e
    <3> QED BY <3>1
  <2>2. ASSUME NEW k \in 1 .. n PROVE F[k] = Add(F[k - 1], FilterOrder[k])
    <3>1. k \in 0 .. n /\ k # 0
      BY ONLY <1>1
    <3>2. F[k] = Body(F, k)
      BY ONLY <1>6, <3>1
    <3> HIDE DEF Add, e
    <3> QED BY <3>1, <3>2
  <2> HIDE DEF Add, e
  <2>3. F[1] = v1
    BY <1>1, <1>3, <2>1, <2>2
  <2> QED BY <1>1, <1>3, <2>2, <2>3
<1> HIDE DEF G
<1>8. AddFilters(s, P, level, fails) = F[n]
  BY DEF AddFilters
<1> HIDE DEF F, n
<1>9. v2 = AddOne(s, level, fails, AddOne(s, level, fails, AddStart(P), "f1"), "f2")
  <2>1. \A a, id : AddOne(s, level, fails, a, id) = Add(a, id)
    BY DEF AddOne
  <2>2. e = AddStart(P)
    BY DEF AddStart
  <2> HIDE DEF Add, e
  <2> QED BY <1>3, <2>1, <2>2
<1> QED BY <1>7, <1>8, <1>9

\* The loop after the filters in D: each one is in the chain once if it is of
\* that level, unless an init handler has failed.
Inserted(c, id, level) ==
    IF conf[id].name.kind # "unset" /\ Takes(level, conf[id])
    THEN Once(c, id, level) ELSE Never(c, id, level)

\* After the filters D have been looked at.
AddState(a, D, P, level) ==
    /\ a \in Adding(conf, count)
    /\ PerlShape(a.P) /\ Grows(P, a.P)
    /\ \A k \in 1 .. Len(a.chain) : a.chain[k].id \in D /\ a.chain[k].level = level
    /\ a.st = "ok" => \A id \in D : Inserted(a.chain, id, level)

\* One of them.
LEMMA AddOneMore ==
    ASSUME NamedInv, NEW s, NEW P, NEW level \in Levels, NEW fails \in BOOLEAN,
           NEW D \in SUBSET {"f1", "f2"}, NEW a, AddState(a, D, P, level),
           NEW id \in {"f1", "f2"}, id \notin D
    PROVE  AddState(AddOne(s, level, fails, a, id), D \cup {id}, P, level)
<1> DEFINE h == conf[id]
           i == IF "hasinit" \in h.attrs /\ h.next # NULL
                THEN RunInit(s, a.P, h.next, fails) ELSE [P |-> a.P, st |-> "ok"]
           e == Entry(id, level, Unset)
           b == [chain |-> Append(a.chain, e), P |-> i.P, st |-> i.st]
           v == AddOne(s, level, fails, a, id)
<1>1. /\ a \in Adding(conf, count) /\ a.chain \in Seq(EntryType)
      /\ PerlOK(a.P, count) /\ PerlShape(a.P) /\ Grows(P, a.P)
      /\ \A k \in 1 .. Len(a.chain) : a.chain[k].id \in D /\ a.chain[k].level = level
      /\ a.st = "ok" => \A j \in D : Inserted(a.chain, j, level)
  BY DEF AddState, Adding
<1>2. Never(a.chain, id, level)
  BY <1>1 DEF Never
<1>3. CASE a.st # "ok" \/ h.name.kind = "unset" \/ ~Takes(level, h)
  <2>1. v = a
    BY <1>3 DEF AddOne
  <2>2. a.st = "ok" => \A j \in D \cup {id} : Inserted(a.chain, j, level)
    BY <1>1, <1>2, <1>3 DEF Inserted
  <2>3. AddState(a, D \cup {id}, P, level)
    BY <1>1, <2>2 DEF AddState
  <2> QED BY <2>1, <2>3
<1>4. CASE ~(a.st # "ok" \/ h.name.kind = "unset" \/ ~Takes(level, h))
  <2>1. v = b
    <3>1. v = IF a.st # "ok" \/ h.name.kind = "unset" \/ ~Takes(level, h)
              THEN a ELSE b
      BY DEF AddOne
    <3> HIDE DEF v, b
    <3> QED BY <1>4, <3>1
  <2>2. b \in Adding(conf, count)
    <3>1. conf[id].name.kind # "unset"
      BY <1>4
    <3>2. i = IF "hasinit" \in conf[id].attrs /\ conf[id].next # NULL
              THEN RunInit(s, a.P, conf[id].next, fails)
              ELSE [P |-> a.P, st |-> "ok"]
      OBVIOUS
    <3> HIDE DEF i
    <3> QED BY <1>1, <3>1, <3>2, AddOK
  <2>3. h.next \in Packages \cup {NULL}
    <3>1. HandlerOK(h)
      BY DEF NamedInv, ConfOK, Slots
    <3> QED BY <3>1 DEF HandlerOK, HandlerType
  <2>4. PerlShape(i.P) /\ Grows(a.P, i.P)
    <3>1. CASE "hasinit" \in h.attrs /\ h.next # NULL
      <4>1. h.next \in Packages /\ i = RunInit(s, a.P, h.next, fails)
        BY <2>3, <3>1
      <4> HIDE DEF i, h
      <4> QED BY <1>1, <4>1, RunInitMore
    <3>2. CASE ~("hasinit" \in h.attrs /\ h.next # NULL)
      <4>1. i = [P |-> a.P, st |-> "ok"]
        BY <3>2
      <4> HIDE DEF i
      <4> QED BY <1>1, <4>1 DEF Grows
    <3> QED BY <3>1, <3>2
  <2>5. e \in EntryType /\ e.id = id /\ e.level = level
    <3>1. NoName \in NameType /\ "none" \in Prefixes
      BY DEF NameType, Prefixes
    <3>2. Unset \in HandlerType
      BY <3>1, NewHandlerOK DEF Unset, HandlerOK
    <3> QED BY <3>2 DEF Entry, EntryType
  <2> DEFINE d == Append(a.chain, e)
  <2>6. b.chain = d /\ b.P = i.P
    OBVIOUS
  <2> HIDE DEF i, e, b
  <2>7. \A k \in 1 .. Len(d) : d[k].id \in D \cup {id} /\ d[k].level = level
    <3>1. Len(d) = Len(a.chain) + 1 /\ Len(a.chain) \in Nat
          /\ \A k \in 1 .. Len(d) : d[k] = IF k <= Len(a.chain) THEN a.chain[k] ELSE e
      BY <1>1, <2>5
    <3> HIDE DEF d
    <3>2. ASSUME NEW k \in 1 .. Len(d)
          PROVE  d[k] = e \/ (k \in 1 .. Len(a.chain) /\ d[k] = a.chain[k])
      BY <3>1
    <3> QED BY <1>1, <2>5, <3>2
  <2>8. ASSUME NEW j \in D PROVE Inserted(d, j, level)
    <3>1. Inserted(a.chain, j, level) /\ e.id # j
      BY <1>1, <1>4, <2>5
    <3> HIDE DEF d
    <3>2. /\ Never(a.chain, j, level) => Never(d, j, level)
          /\ Once(a.chain, j, level) => Once(d, j, level)
      BY <1>1, <2>5, <3>1, LevelsAppend DEF d
    <3> QED BY <3>1, <3>2 DEF Inserted
  <2>9. Inserted(d, id, level)
    <3>1. Once(d, id, level)
      BY <1>1, <1>2, <2>5, LevelsAppend
    <3> HIDE DEF d
    <3> QED BY <1>4, <3>1 DEF Inserted
  <2>10. Grows(P, i.P)
    BY <1>1, <2>4 DEF Grows
  <2> HIDE DEF d
  <2>11. AddState(b, D \cup {id}, P, level)
    BY <2>2, <2>4, <2>6, <2>7, <2>8, <2>9, <2>10 DEF AddState
  <2> QED BY <2>1, <2>11
<1> QED BY <1>3, <1>4

\* modperl_filter_add_connection and modperl_filter_add_request
LEMMA AddFiltersMore ==
    ASSUME NamedInv, NEW s, NEW P, PerlOK(P, count), PerlShape(P),
           NEW level \in Levels, NEW fails \in BOOLEAN
    PROVE  AddState(AddFilters(s, P, level, fails), {"f1", "f2"}, P, level)
<1> DEFINE e == AddStart(P)
           v == AddOne(s, level, fails, e, "f1")
           w == AddOne(s, level, fails, v, "f2")
<1>1. AddState(e, {}, P, level)
  <2>1. e.P = P /\ e.st = "ok" /\ e.chain = <<>>
        /\ e \in [P : PerlType, st : {"ok", "failed"}, chain : Seq(EntryType)]
    BY DEF AddStart, PerlOK
  <2>2. Len(<<>>) = 0 /\ <<>> \in Seq(EntryType)
    OBVIOUS
  <2> HIDE DEF e
  <2>3. e \in Adding(conf, count)
    BY <2>1, <2>2 DEF Adding, ChainOK
  <2>4. Grows(P, P)
    BY DEF Grows
  <2> QED BY <2>1, <2>2, <2>3, <2>4 DEF AddState
<1> HIDE DEF e
<1>2. AddState(v, {"f1"}, P, level)
  <2>1. AddState(v, {} \cup {"f1"}, P, level)
    BY <1>1, AddOneMore
  <2>2. {} \cup {"f1"} = {"f1"}
    OBVIOUS
  <2> HIDE DEF v
  <2> QED BY <2>1, <2>2
<1> HIDE DEF v
<1>3. AddState(w, {"f1", "f2"}, P, level)
  <2>1. {"f1"} \in SUBSET {"f1", "f2"} /\ "f2" \notin {"f1"} /\ "f2" \in {"f1", "f2"}
    OBVIOUS
  <2>2. AddState(w, {"f1"} \cup {"f2"}, P, level)
    BY <1>2, <2>1, AddOneMore
  <2>3. {"f1"} \cup {"f2"} = {"f1", "f2"}
    OBVIOUS
  <2> HIDE DEF w
  <2> QED BY <2>2, <2>3
<1>4. AddFilters(s, P, level, fails) = w
  BY AddFiltersIs DEF w, v, e
<1> QED BY <1>3, <1>4

\* What is left to show of a step of a serving process.
LEMMA ServeFound ==
    ASSUME stage = "serving", stage' \in {"serving", "exited"}, opt' = opt, Served,
           HandlerAlwaysFound',
           \A j \in Slots : Shape(conf'[j]),
           \A j \in Slots : Home(conf[j], perl["main"])',
           \A j \in Slots : conf'[j].name.kind = "anon" => conf'[j].parsed,
           \A k \in 1 .. Len(conn'.chain) :
             conn'.chain[k].id = "rt" => Shape(conn'.chain[k].h),
           conn'.on # "no" => conn'.i \in InterpsOf(conn'.s)
    PROVE  FoundInv'
<1>1. InterpsOf(conn.s)' = InterpsOf(conn'.s)
  BY DEF InterpsOf, ParentOf
<1> QED BY <1>1 DEF FoundInv, Served

\* The same, with the configuration as it was.
LEMMA ServeFrame ==
    ASSUME NamedInv, FoundInv, stage = "serving", stage' \in {"serving", "exited"},
           UNCHANGED <<opt, conf>>, Served, HandlerAlwaysFound',
           \A k \in 1 .. Len(conn'.chain) :
             conn'.chain[k].id = "rt" => Shape(conn'.chain[k].h),
           conn'.on # "no" => conn'.i \in InterpsOf(conn'.s)
    PROVE  FoundInv'
<1>1. /\ \A j \in Slots : Shape(conf'[j])
      /\ \A j \in Slots : conf'[j].name.kind = "anon" => conf'[j].parsed
  BY DEF FoundInv
<1>2. ASSUME NEW j \in Slots PROVE Home(conf[j], perl["main"])'
  <2>1. Home(conf[j], perl["main"])
    BY DEF FoundInv
  <2>2. Home(conf[j], perl'["main"])
    BY <2>1, HomeGrows DEF Served
  <2> QED BY <2>2 DEF Home
<1> QED BY <1>1, <1>2, ServeFound

\* Where nothing is called there is nothing to find.
LEMMA NoCallFound == ASSUME call' = NoCall PROVE HandlerAlwaysFound'
BY DEF HandlerAlwaysFound

\* The filters of a connection.
LEMMA ConnectFound ==
    ASSUME NamedInv, FoundInv, NEW s \in Servers, NEW i \in Interps,
           NEW fails \in BOOLEAN, Connect(s, i, fails)
    PROVE  FoundInv'
<1>1. PICK r \in {AddFilters(s, perl[i], "conn", fails)} :
         /\ conn' = [on |-> "conn", s |-> s, i |-> i, chain |-> r.chain, st |-> r.st]
         /\ perl' = [perl EXCEPT ![i] = r.P]
  BY DEF Connect
<1>2. UNCHANGED <<opt, stage, conf, count>> /\ call' = NoCall /\ stage = "serving"
      /\ i \in InterpsOf(s)
  BY DEF Connect
<1>3. PerlOK(perl[i], count) /\ PerlShape(perl[i]) /\ "conn" \in Levels
  BY DEF NamedInv, FoundInv, Levels
<1>4. AddState(r, {"f1", "f2"}, perl[i], "conn")
  BY <1>1, <1>3, AddFiltersMore
<1>5. PerlShape(r.P) /\ Grows(perl[i], r.P)
      /\ \A k \in 1 .. Len(r.chain) : r.chain[k].id \in {"f1", "f2"}
  BY <1>4 DEF AddState
<1>6. Served
  BY <1>1, <1>2, <1>5, ServeStep
<1>7. conn'.chain = r.chain /\ conn'.i = i /\ conn'.s = s
  BY <1>1
<1>8. \A k \in 1 .. Len(conn'.chain) :
        conn'.chain[k].id = "rt" => Shape(conn'.chain[k].h)
  BY <1>5, <1>7
<1> QED BY <1>2, <1>6, <1>7, <1>8, NoCallFound, ServeFrame

\* The filters of a request.
LEMMA InsertFiltersFound ==
    ASSUME NamedInv, FoundInv, NEW fails \in BOOLEAN, InsertFilters(fails)
    PROVE  FoundInv'
<1>1. PICK r \in {AddFilters(conn.s, perl[conn.i], "req", fails)} :
         /\ conn' = [conn EXCEPT !.on = "req", !.chain = r.chain \o @,
                                 !.st = IF @ = "ok" THEN r.st ELSE @]
         /\ perl' = [perl EXCEPT ![conn.i] = r.P]
  BY DEF InsertFilters
<1>2. UNCHANGED <<opt, stage, conf, count>> /\ call' = NoCall /\ conn.on = "conn"
      /\ stage = "serving"
  BY DEF InsertFilters
<1>3. /\ conn.s \in Servers /\ conn.i \in Interps /\ conn.i \in InterpsOf(conn.s)
      /\ conn \in ConnType /\ conn.chain \in Seq(EntryType)
      /\ PerlOK(perl[conn.i], count) /\ PerlShape(perl[conn.i]) /\ "req" \in Levels
  BY <1>2 DEF NamedInv, ConnOK, ChainOK, FoundInv, Levels
<1>4. AddState(r, {"f1", "f2"}, perl[conn.i], "req")
  BY <1>1, <1>3, AddFiltersMore
<1>5. PerlShape(r.P) /\ Grows(perl[conn.i], r.P) /\ r.chain \in Seq(EntryType)
      /\ \A k \in 1 .. Len(r.chain) : r.chain[k].id \in {"f1", "f2"}
  BY <1>4 DEF AddState, Adding
<1>6. Served
  BY <1>1, <1>2, <1>3, <1>5, ServeStep
<1> DEFINE f == r.chain \o conn.chain
           t == IF conn.st = "ok" THEN r.st ELSE conn.st
<1>7. conn'.chain = f /\ conn'.i = conn.i /\ conn'.s = conn.s
  <2>1. conn' = [conn EXCEPT !.on = "req", !.chain = f, !.st = t]
    BY <1>1
  <2> HIDE DEF f, t
  <2> QED BY <1>3, <2>1 DEF ConnType
<1>8. ASSUME NEW k \in 1 .. Len(f), f[k].id = "rt" PROVE Shape(f[k].h)
  <2>1. \/ k \in 1 .. Len(r.chain) /\ f[k] = r.chain[k]
        \/ k - Len(r.chain) \in 1 .. Len(conn.chain)
             /\ f[k] = conn.chain[k - Len(r.chain)]
    BY <1>3, <1>5, ConcatIs
  <2> HIDE DEF f
  <2> QED BY <1>5, <1>8, <2>1 DEF FoundInv
<1> HIDE DEF f
<1>9. \A k \in 1 .. Len(conn'.chain) :
        conn'.chain[k].id = "rt" => Shape(conn'.chain[k].h)
  BY <1>7, <1>8
<1> QED BY <1>2, <1>3, <1>6, <1>7, <1>9, NoCallFound, ServeFrame

\* What modperl_run_filter calls.
RunsFilter(k, h, c) ==
    /\ stage = "serving" /\ opt' = opt
    /\ conn.chain[k] \in EntryType /\ conn \in ConnType
    /\ conn.chain \in Seq(EntryType)
    /\ conn.s \in Servers /\ conn.i \in InterpsOf(conn.s) /\ conn.i \in Interps
    /\ HandlerOK(h) /\ h.name \in SubNames
    /\ Calls(conn.s, conn.i, h, c)
    /\ HandlerOK(c.keep) /\ c.keep.name = h.name
    /\ \/ /\ conn.chain[k].id = "rt" /\ h = conn.chain[k].h
          /\ h.name.kind = "func"
          /\ conn' = [conn EXCEPT !.chain = [conn.chain EXCEPT ![k].h = c.keep]]
          /\ conf' = conf
       \/ /\ conn.chain[k].id \in {"f1", "f2"} /\ h = conf[conn.chain[k].id]
          /\ conf' = [conf EXCEPT ![conn.chain[k].id] = c.keep]
          /\ conn' = conn

\* RunFilter calls the structure of the configuration, or of the entry.
LEMMA RunFilterIs ==
    ASSUME NamedInv, FoundInv, NEW k \in 1 .. Len(conn.chain), RunFilter(k)
    PROVE  \E h, c : RunsFilter(k, h, c)
<1> DEFINE e == conn.chain[k]
           h == IF e.id = "rt" THEN e.h ELSE conf[e.id]
<1>1. /\ conn \in ConnType /\ ChainOK(conn.chain, conf) /\ ConfOK(conf)
      /\ conn.s \in Servers /\ conn.i \in Interps /\ conn.i \in InterpsOf(conn.s)
      /\ stage = "serving" /\ opt' = opt /\ conn.chain \in Seq(EntryType)
  BY DEF RunFilter, NamedInv, ConnOK, ChainOK, FoundInv
<1>2. e \in EntryType /\ e.id \in {"f1", "f2", "rt"}
  <2>1. e \in EntryType
    <3>1. conn.chain \in Seq(EntryType)
      BY <1>1 DEF ChainOK
    <3> QED BY <3>1
  <2> HIDE DEF e
  <2> QED BY <2>1 DEF EntryType
<1>3. HandlerOK(h) /\ h.name # NoName /\ (e.id = "rt" => h.name.kind = "func")
  <2>1. e.id = "rt" \/ e.id \in Slots
    BY <1>2 DEF Slots
  <2> QED BY <1>1, <1>2, <2>1 DEF ChainOK, ConfOK, NoName
<1>4. h.name \in SubNames
  <2>1. h.name \in NameType
    BY <1>3, SMTT(60) DEF HandlerOK, HandlerType
  <2>2. h.name.kind # "httpd"
    BY Zenon DEF RunFilter
  <2> HIDE DEF h
  <2> QED BY <1>3, <2>1, <2>2, SMTT(60) DEF NameType, HttpdNames
<1>5. PICK c : /\ Calls(conn.s, conn.i, h, c)
               /\ IF e.id = "rt"
                  THEN /\ conn' = [conn EXCEPT !.chain[k].h = c.keep]
                       /\ UNCHANGED conf
                  ELSE /\ conf' = [conf EXCEPT ![e.id] = c.keep]
                       /\ UNCHANGED conn
  BY DEF RunFilter, Calls
<1>6. CallLeaves(h, c)
  <2> HIDE DEF h
  <2> QED BY <1>1, <1>3, <1>4, <1>5, CallStep
<1>7. HandlerOK(c.keep) /\ c.keep.name = h.name
  BY <1>6 DEF CallLeaves
<1>8. /\ e.id = "rt" => h = e.h
      /\ e.id # "rt" => h = conf[e.id]
      /\ [conn EXCEPT !.chain[k].h = c.keep]
           = [conn EXCEPT !.chain = [conn.chain EXCEPT ![k].h = c.keep]]
  OBVIOUS
<1> HIDE DEF h
<1>9. RunsFilter(k, h, c)
  BY <1>1, <1>2, <1>3, <1>4, <1>5, <1>7, <1>8, Zenon DEF RunsFilter, e
<1> QED BY <1>9

\* The chain in which the structure of entry k is replaced.
LEMMA ReplaceIs ==
    ASSUME NEW c \in Seq(EntryType), NEW k \in 1 .. Len(c), NEW h, HandlerOK(h),
           NEW d, d = [c EXCEPT ![k].h = h]
    PROVE  /\ Len(d) = Len(c) /\ d \in Seq(EntryType)
           /\ \A j \in 1 .. Len(c) : /\ d[j].id = c[j].id /\ d[j].level = c[j].level
                                     /\ d[j].h = IF j = k THEN h ELSE c[j].h
<1> DEFINE e == [c[k] EXCEPT !.h = h]
<1>1. c[k] \in EntryType
  OBVIOUS
<1>2. e \in EntryType /\ e.id = c[k].id /\ e.level = c[k].level /\ e.h = h
  BY <1>1 DEF EntryType, HandlerOK
<1>3. d = [c EXCEPT ![k] = e]
  OBVIOUS
<1> HIDE DEF e
<1>4. d \in Seq(EntryType) /\ Len(d) = Len(c)
      /\ \A j \in 1 .. Len(c) : d[j] = IF j = k THEN e ELSE c[j]
  BY <1>2, <1>3
<1> QED BY <1>2, <1>4

\* A filter is called.
LEMMA RunFilterFound ==
    ASSUME NamedInv, FoundInv, NEW k \in 1 .. Len(conn.chain), RunFilter(k)
    PROVE  FoundInv'
<1>1. PICK h, c : RunsFilter(k, h, c)
  BY RunFilterIs
<1> DEFINE e == conn.chain[k]
           s == conn.s
           i == conn.i
<1>2. /\ stage = "serving" /\ opt' = opt /\ conn \in ConnType
      /\ conn.chain \in Seq(EntryType)
      /\ s \in Servers /\ i \in InterpsOf(s) /\ HandlerOK(h) /\ h.name \in SubNames
      /\ Calls(s, i, h, c) /\ HandlerOK(c.keep) /\ c.keep.name = h.name
  BY <1>1 DEF RunsFilter
<1>3. perl' = [perl EXCEPT ![i] = c.P] /\ stage' \in {"serving", "exited"}
  BY <1>2 DEF Calls
<1> HIDE DEF s, i
<1>4. CASE e.id = "rt"
  <2> DEFINE d == [conn.chain EXCEPT ![k].h = c.keep]
  <2>1. h = e.h /\ h.name.kind = "func" /\ conf' = conf
        /\ conn' = [conn EXCEPT !.chain = d]
    BY <1>1, <1>4 DEF RunsFilter
  <2>2. Shape(h)
    BY <1>4, <2>1 DEF FoundInv
  <2>3. Home(h, perl["main"])
    BY <1>2, <2>1 DEF Home, HandlerOK, ByPackage
  <2>4. CallMore(c, s, h, perl[i]) /\ Served /\ HandlerAlwaysFound'
    BY <1>2, <2>1, <2>2, <2>3, CallFound
  <2>5. Shape(c.keep)
    BY <2>4 DEF CallMore, KeepMore
  <2>6. /\ Len(d) = Len(conn.chain)
        /\ \A j \in 1 .. Len(conn.chain) : /\ d[j].id = conn.chain[j].id
             /\ d[j].h = IF j = k THEN c.keep ELSE conn.chain[j].h
    BY <1>2, ReplaceIs
  <2> HIDE DEF d
  <2>7. conn'.chain = d /\ conn'.i = i /\ conn'.s = s
    BY <1>2, <2>1 DEF ConnType, i, s
  <2>8. \A j \in 1 .. Len(conn'.chain) :
          conn'.chain[j].id = "rt" => Shape(conn'.chain[j].h)
    BY <2>5, <2>6, <2>7 DEF FoundInv
  <2> QED BY <1>2, <1>3, <2>1, <2>4, <2>7, <2>8, ServeFrame
<1>5. CASE e.id # "rt"
  <2> DEFINE id == e.id
  <2>1. id \in Slots /\ h = conf[id] /\ conn' = conn
        /\ conf' = [conf EXCEPT ![id] = c.keep]
    BY <1>1, <1>5 DEF RunsFilter, Slots
  <2> HIDE DEF id
  <2>2. Shape(h) /\ Home(h, perl["main"]) /\ (h.name.kind = "anon" => h.parsed)
    BY <1>2, <2>1 DEF FoundInv
  <2>3. CallMore(c, s, h, perl[i]) /\ Served /\ HandlerAlwaysFound'
        /\ (opt.threaded => c.keep = h)
    BY <1>2, <2>2, CallFound
  <2>4. /\ \A j \in Slots : Shape(conf'[j])
        /\ \A j \in Slots : Home(conf[j], perl["main"])'
        /\ \A j \in Slots : conf'[j].name.kind = "anon" => conf'[j].parsed
    BY <1>2, <1>3, <2>1, <2>3, KeepHome
  <2>5. /\ \A j \in 1 .. Len(conn'.chain) :
             conn'.chain[j].id = "rt" => Shape(conn'.chain[j].h)
        /\ conn'.i = i /\ conn'.s = s
    BY <2>1 DEF FoundInv, i, s
  <2> QED BY <1>2, <1>3, <2>3, <2>4, <2>5, ServeFound
<1> QED BY <1>4, <1>5

\* What modperl_filter_runtime_add leaves.
AddsFilter(level, h, Q, t) ==
    /\ stage = "serving" /\ conn.on = "req" /\ UNCHANGED <<opt, stage, conf>>
    /\ call' = NoCall
    /\ conn \in ConnType /\ conn.chain \in Seq(EntryType)
    /\ conn.s \in Servers /\ conn.i \in InterpsOf(conn.s)
    /\ HandlerOK(h) /\ Shape(h)
    /\ PerlShape(Q) /\ Grows(perl[conn.i], Q)
    /\ perl' = [perl EXCEPT ![conn.i] = Q]
    /\ t = "ok" => conn.st = "ok"
    /\ conn' = [conn EXCEPT !.chain = <<Entry("rt", level, h)>> \o conn.chain, !.st = t]

\* RuntimeAdd puts the entry in front.
LEMMA RuntimeAddIs ==
    ASSUME NamedInv, FoundInv, NEW p \in Added, NEW level \in Levels,
           NEW fails \in BOOLEAN, RuntimeAdd(p, level, fails)
    PROVE  \E h, Q, t : AddsFilter(level, h, Q, t)
<1> DEFINE name == [kind |-> "func", pkg |-> p]
           h == NewHandler(name, "none")
           Kind(g) == IF level = "conn" THEN "conn" \in g.attrs
                      ELSE g.attrs = {} \/ "req" \in g.attrs
           Init(r, ok) == IF ok /\ r.h.next # NULL
                          THEN RunInit(conn.s, r.P, r.h.next, fails)
                          ELSE [P |-> r.P, st |-> IF ok THEN "ok" ELSE "failed"]
<1>1. PICK r \in {Resolve(h, perl[conn.i], count, TRUE)} :
       \E run \in {Init(r, r.st = "1" /\ Kind(r.h))} :
         /\ conn' = [conn EXCEPT !.chain = <<Entry("rt", level, r.h)>> \o @,
                                 !.st = IF @ = "ok" THEN run.st ELSE @]
         /\ perl' = [perl EXCEPT ![conn.i] = run.P]
         /\ count' = r.n
  BY DEF RuntimeAdd
<1>2. PICK run \in {Init(r, r.st = "1" /\ Kind(r.h))} :
         /\ conn' = [conn EXCEPT !.chain = <<Entry("rt", level, r.h)>> \o @,
                                 !.st = IF @ = "ok" THEN run.st ELSE @]
         /\ perl' = [perl EXCEPT ![conn.i] = run.P]
  BY <1>1
<1>3. UNCHANGED <<opt, stage, conf>> /\ call' = NoCall /\ conn.on = "req"
      /\ stage = "serving"
  BY DEF RuntimeAdd
<1>4. /\ count \in Nat /\ conn \in ConnType /\ conn.chain \in Seq(EntryType)
      /\ conn.s \in Servers /\ conn.i \in Interps /\ conn.i \in InterpsOf(conn.s)
      /\ PerlOK(perl[conn.i], count) /\ PerlShape(perl[conn.i])
  BY <1>3 DEF NamedInv, ConnOK, ChainOK, FoundInv
<1>5. HandlerOK(h) /\ ~h.parsed /\ h.name \in SubNames /\ Shape(h)
  <2>1. name \in SubNames /\ name \in NameType /\ "none" \in Prefixes
    BY ResolveAssumption DEF SubNames, NameType, Prefixes
  <2> HIDE DEF name
  <2>2. h.obj = NoObj
    BY DEF NewHandler
  <2>3. HandlerOK(h) /\ ~h.parsed /\ h.name = name
    BY <2>1, NewHandlerOK
  <2> HIDE DEF h
  <2>4. Shape(h)
    BY <2>2, <2>3 DEF Shape, NoObj
  <2> QED BY <2>1, <2>3, <2>4
<1>6. ResOK(r, h.name, count) /\ ResMore(r, h, perl[conn.i])
  <2> DEFINE log == TRUE
  <2>1. log \in BOOLEAN
    OBVIOUS
  <2>2. r = Resolve(h, perl[conn.i], count, log)
    BY <1>1
  <2> HIDE DEF h, log
  <2>3. Finds(r, h, perl[conn.i], log)
    BY <1>4, <1>5, <2>1, <2>2, ResolveFinds
  <2>4. ResOK(Resolve(h, perl[conn.i], count, log), h.name, count)
    BY <1>4, <1>5, <2>1, ResolveOK
  <2> QED BY <2>2, <2>3, <2>4 DEF Finds
<1>7. HandlerOK(r.h) /\ Shape(r.h) /\ PerlOK(r.P, r.n) /\ PerlShape(r.P)
      /\ Grows(perl[conn.i], r.P)
  <2> HIDE DEF h
  <2> QED BY <1>6 DEF ResOK, ResMore
<1>8. r.h.next \in Packages \cup {NULL}
  BY <1>7 DEF HandlerOK, HandlerType
<1>9. PerlShape(run.P) /\ Grows(perl[conn.i], run.P)
  <2> DEFINE ok == r.st = "1" /\ Kind(r.h)
  <2>1. run = IF ok /\ r.h.next # NULL
              THEN RunInit(conn.s, r.P, r.h.next, fails)
              ELSE [P |-> r.P, st |-> IF ok THEN "ok" ELSE "failed"]
    BY <1>2
  <2> HIDE DEF ok
  <2>2. CASE ok /\ r.h.next # NULL
    <3>1. r.h.next \in Packages /\ run = RunInit(conn.s, r.P, r.h.next, fails)
      BY <1>8, <2>1, <2>2
    <3>2. PerlShape(run.P) /\ Grows(r.P, run.P)
      BY <1>7, <3>1, RunInitMore
    <3> QED BY <1>7, <3>2 DEF Grows
  <2>3. CASE ~(ok /\ r.h.next # NULL)
    <3>1. run = [P |-> r.P, st |-> IF ok THEN "ok" ELSE "failed"]
      BY <2>1, <2>3
    <3> QED BY <1>7, <3>1
  <2> QED BY <2>2, <2>3
<1> DEFINE t == IF conn.st = "ok" THEN run.st ELSE conn.st
<1>10. t = "ok" => conn.st = "ok"
  OBVIOUS
<1>11. conn' = [conn EXCEPT !.chain = <<Entry("rt", level, r.h)>> \o conn.chain,
                            !.st = t]
  BY <1>2
<1> HIDE DEF t, h
<1>12. AddsFilter(level, r.h, run.P, t)
  BY <1>2, <1>3, <1>4, <1>7, <1>9, <1>10, <1>11 DEF AddsFilter
<1> QED BY <1>12

\* The chain after it.
LEMMA PrependIs ==
    ASSUME NEW c \in Seq(EntryType), NEW h, HandlerOK(h), NEW level \in Levels
    PROVE  /\ Entry("rt", level, h) \in EntryType
           /\ <<Entry("rt", level, h)>> \in Seq(EntryType)
           /\ Len(<<Entry("rt", level, h)>>) = 1
           /\ <<Entry("rt", level, h)>>[1].id = "rt"
           /\ <<Entry("rt", level, h)>>[1].h = h
<1>1. Entry("rt", level, h) \in EntryType /\ Entry("rt", level, h).id = "rt"
      /\ Entry("rt", level, h).h = h
  BY DEF Entry, EntryType, HandlerOK
<1> QED BY <1>1

\* A filter is added at run time.
LEMMA RuntimeAddFound ==
    ASSUME NamedInv, FoundInv, NEW p \in Added, NEW level \in Levels,
           NEW fails \in BOOLEAN, RuntimeAdd(p, level, fails)
    PROVE  FoundInv'
<1>1. PICK h, Q, t : AddsFilter(level, h, Q, t)
  BY RuntimeAddIs
<1> DEFINE d == <<Entry("rt", level, h)>>
           f == d \o conn.chain
<1>2. /\ stage = "serving" /\ UNCHANGED <<opt, stage, conf>> /\ call' = NoCall
      /\ conn \in ConnType /\ conn.chain \in Seq(EntryType)
      /\ conn.s \in Servers /\ conn.i \in InterpsOf(conn.s)
      /\ HandlerOK(h) /\ Shape(h) /\ PerlShape(Q) /\ Grows(perl[conn.i], Q)
      /\ perl' = [perl EXCEPT ![conn.i] = Q]
      /\ conn' = [conn EXCEPT !.chain = f, !.st = t]
  BY <1>1 DEF AddsFilter
<1>3. Served
  BY <1>2, ServeStep
<1>4. d \in Seq(EntryType) /\ Len(d) = 1 /\ d[1].id = "rt" /\ d[1].h = h
  BY <1>2, PrependIs
<1> HIDE DEF d
<1>5. ASSUME NEW k \in 1 .. Len(f), f[k].id = "rt" PROVE Shape(f[k].h)
  <2>1. \/ k \in 1 .. Len(d) /\ f[k] = d[k]
        \/ k - Len(d) \in 1 .. Len(conn.chain) /\ f[k] = conn.chain[k - Len(d)]
    BY <1>2, <1>4, ConcatIs
  <2> HIDE DEF f
  <2>2. CASE k \in 1 .. Len(d) /\ f[k] = d[k]
    <3>1. k = 1
      BY <1>4, <2>2
    <3> QED BY <1>2, <1>4, <2>2, <3>1
  <2>3. CASE k - Len(d) \in 1 .. Len(conn.chain) /\ f[k] = conn.chain[k - Len(d)]
    BY <1>5, <2>3 DEF FoundInv
  <2> QED BY <2>1, <2>2, <2>3
<1> HIDE DEF f
<1>6. conn'.chain = f /\ conn'.i = conn.i /\ conn'.s = conn.s
  BY <1>2 DEF ConnType
<1>7. \A k \in 1 .. Len(conn'.chain) :
        conn'.chain[k].id = "rt" => Shape(conn'.chain[k].h)
  BY <1>5, <1>6
<1> QED BY <1>2, <1>3, <1>6, <1>7, NoCallFound, ServeFrame

\* The end of a connection.
LEMMA DisconnectFound == ASSUME NamedInv, FoundInv, Disconnect PROVE FoundInv'
<1>1. conn' = NoConn /\ call' = NoCall /\ UNCHANGED <<opt, stage, conf, perl, count>>
      /\ conn.on = "req"
  BY DEF Disconnect
<1>2. Len(conn'.chain) = 0 /\ conn'.on = "no"
  BY <1>1 DEF NoConn
<1>3. \A j \in Slots : Home(conf[j], perl["main"]) => Home(conf[j], perl["main"])'
  BY <1>1 DEF Home
<1>4. \A j \in Slots : Left(conf[j], perl["vhost"]) => Left(conf[j], perl["vhost"])'
  BY <1>1 DEF Left
<1> QED BY <1>1, <1>2, <1>3, <1>4, NoCallFound DEF FoundInv

\* The initial states.
LEMMA NewShape ==
    ASSUME NEW name, NEW prefix
    PROVE  /\ Shape(NewHandler(name, prefix)) /\ Shape(PushFilter(name, prefix))
           /\ ~NewHandler(name, prefix).parsed /\ ~PushFilter(name, prefix).parsed
<1> DEFINE h == NewHandler(name, prefix)
<1>1. h.obj = NoObj /\ ~h.parsed
  BY DEF NewHandler
<1>2. PushFilter(name, prefix).obj = NoObj /\ ~PushFilter(name, prefix).parsed
  BY DEF PushFilter, NewHandler
<1> QED BY <1>1, <1>2 DEF Shape, NoObj

\* Nothing is filled in and nothing has been called.
LEMMA FoundInit == ASSUME ResolveInit PROVE FoundInv
<1>1. stage = "main" /\ call = NoCall /\ conn = NoConn
  BY DEF ResolveInit
<1>2. ASSUME NEW id \in Slots PROVE Shape(conf[id]) /\ ~conf[id].parsed
  <2> DEFINE H == {NewHandler(f[1], f[2]) : f \in Names}
             F == {PushFilter(f[1], f[2]) : f \in Filters}
             U == {Unset}
  <2>1. conf \in [h1 : H, h2 : H, f1 : U, f2 : U] \/ conf \in [h1 : U, h2 : U, f1 : F, f2 : F]
    BY DEF ResolveInit, Configs
  <2>2. \A h \in H \cup F \cup U : Shape(h) /\ ~h.parsed
    BY NewShape DEF Unset
  <2>3. conf[id] \in H \cup F \cup U
    <3> HIDE DEF H, F, U
    <3> QED BY <2>1 DEF Slots
  <2> QED BY <2>2, <2>3
<1>3. \A i \in Interps : PerlShape(perl[i]) /\ perl["vhost"].loaded = perl["main"].loaded
  <2>1. PICK L \in Preloads, V \in SUBSET Vivified :
         perl = [i \in Interps |->
                   [NewPerl EXCEPT !.loaded = UNION {WithIsa(p) : p \in L},
                                   !.stash = V \cup UNION {WithIsa(p) : p \in L}]]
    BY DEF ResolveInit
  <2> DEFINE U == UNION {WithIsa(p) : p \in L}
  <2>2. L \subseteq Packages
    BY ResolveAssumption
  <2>3. ASSUME NEW q \in U, Code[q].isa # NULL PROVE Code[q].isa \in U
    <3>1. PICK p \in L : q \in WithIsa(p)
      OBVIOUS
    <3>2. p \in Packages /\ WithIsa(p) \subseteq U
      BY <2>2
    <3>3. CASE q = p
      <4>1. Code[p].isa \in Packages
        BY <2>3, <3>2, <3>3, ResolveAssumption
      <4>2. Code[p].isa \in WithIsa(p)
        BY <4>1 DEF WithIsa
      <4> QED BY <3>2, <3>3, <4>2
    <3>4. CASE q # p
      <4>1. Code[p].isa = q /\ q \in Packages
        BY <3>1, <3>4 DEF WithIsa
      <4>2. Code[q].isa = NULL
        BY <3>2, <4>1, ResolveAssumption
      <4> QED BY <2>3, <4>2
    <3> QED BY <3>3, <3>4
  <2> HIDE DEF U
  <2>4. ASSUME NEW i \in Interps
        PROVE  perl[i].loaded = U /\ perl[i].stash = V \cup U
    BY <2>1 DEF NewPerl, U
  <2>5. "main" \in Interps /\ "vhost" \in Interps
    BY DEF Interps, Servers
  <2> QED BY <2>3, <2>4, <2>5 DEF PerlShape
<1>4. \A id \in Slots : Home(conf[id], perl["main"])
  BY <1>2 DEF Home
<1>5. HandlerAlwaysFound
  BY <1>1 DEF HandlerAlwaysFound
<1>6. Len(conn.chain) = 0 /\ conn.on = "no"
  BY <1>1 DEF NoConn
<1>7. perl["vhost"].loaded \subseteq perl["main"].loaded
  <2>1. "main" \in Interps
    BY DEF Interps, Servers
  <2> QED BY <1>3, <2>1
<1> QED BY <1>1, <1>2, <1>3, <1>4, <1>5, <1>6, <1>7 DEF FoundInv

\* A stuttering step.
LEMMA FoundStutter == ASSUME FoundInv, UNCHANGED rvars PROVE FoundInv'
<1>1. UNCHANGED <<opt, stage, conf, perl, count, call, conn>>
  BY DEF rvars
<1>2. \A j \in Slots : Home(conf[j], perl["main"]) => Home(conf[j], perl["main"])'
  BY <1>1 DEF Home
<1>3. \A j \in Slots : Left(conf[j], perl["vhost"]) => Left(conf[j], perl["vhost"])'
  BY <1>1 DEF Left
<1>4. HandlerAlwaysFound'
  BY <1>1 DEF FoundInv, HandlerAlwaysFound, Reliable, ParentOf
<1>5. InterpsOf(conn.s)' = InterpsOf(conn.s)
  BY <1>1 DEF InterpsOf, ParentOf
<1> QED BY <1>1, <1>2, <1>3, <1>4, <1>5 DEF FoundInv

\* Every step.
LEMMA FoundStep == NamedInv /\ FoundInv /\ [ResolveNext]_rvars => FoundInv'
<1> SUFFICES ASSUME NamedInv, FoundInv, [ResolveNext]_rvars PROVE FoundInv'
  OBVIOUS
<1>1. ASSUME NEW s \in Servers, HashHandlers(s) PROVE FoundInv'
  BY <1>1, HashHandlersFound
<1>2. CASE InitClones
  BY <1>2, InitClonesFound
<1>3. ASSUME NEW s \in Servers, NEW i \in Interps, NEW id \in Slots,
             RunHandler(s, i, id)
      PROVE  FoundInv'
  BY <1>3, RunHandlerFound
<1>4. ASSUME NEW s \in Servers, NEW i \in Interps, NEW fails \in BOOLEAN,
             Connect(s, i, fails)
      PROVE  FoundInv'
  BY <1>4, ConnectFound
<1>5. ASSUME NEW fails \in BOOLEAN, InsertFilters(fails) PROVE FoundInv'
  BY <1>5, InsertFiltersFound
<1>6. ASSUME NEW k \in 1 .. Len(conn.chain), RunFilter(k) PROVE FoundInv'
  BY <1>6, RunFilterFound
<1>7. ASSUME NEW p \in Added, NEW level \in Levels, NEW fails \in BOOLEAN,
             RuntimeAdd(p, level, fails)
      PROVE  FoundInv'
  BY <1>7, RuntimeAddFound
<1>8. CASE Disconnect
  BY <1>8, DisconnectFound
<1>9. CASE UNCHANGED rvars
  BY <1>9, FoundStutter
<1> QED BY <1>1, <1>2, <1>3, <1>4, <1>5, <1>6, <1>7, <1>8, <1>9 DEF ResolveNext

\* FoundInv is an invariant.
LEMMA FoundInvariant == ResolveSpec => []FoundInv
<1>1. ResolveInit => FoundInv
  BY FoundInit
<1>2. NamedInv /\ FoundInv /\ [ResolveNext]_rvars => FoundInv'
  BY FoundStep
<1> QED BY <1>1, <1>2, NamedInvariant, PTL DEF ResolveSpec

\* On every server and interpreter, threaded or not, and whatever ran before: a
\* handler whose name may be relied on is called whenever it can be, and nothing
\* else is (modperl_mgv_resolve, modperl_handler_resolve, modperl_callback).
THEOREM HandlersAreFound == ResolveSpec => []HandlerAlwaysFound
<1>1. FoundInv => HandlerAlwaysFound
  BY DEF FoundInv
<1> QED BY <1>1, FoundInvariant, PTL

-----------------------------------------------------------------------------
(* The levels of the filters.                                              *)

\* A filter's module is to be loaded unless its name begins with `-'.
LEMMA LevelInit == ASSUME ResolveInit PROVE LevelInv
<1>1. conn.on = "no" /\ stage = "main"
  BY DEF ResolveInit, NoConn
<1>2. ASSUME NEW id \in {"f1", "f2"}, Certain(conf[id]) PROVE conf[id].auto
  <2> DEFINE H == {NewHandler(f[1], f[2]) : f \in Names}
             F == {PushFilter(f[1], f[2]) : f \in Filters}
             U == {Unset}
  <2>1. conf \in [h1 : H, h2 : H, f1 : U, f2 : U] \/ conf \in [h1 : U, h2 : U, f1 : F, f2 : F]
    BY DEF ResolveInit, Configs
  <2>2. \A h \in F \cup U : Certain(h) => h.auto
    <3>1. ASSUME NEW name, NEW prefix, Certain(PushFilter(name, prefix))
          PROVE  PushFilter(name, prefix).auto
      BY <3>1 DEF PushFilter, NewHandler, Certain
    <3>2. ~Certain(Unset)
      BY DEF Certain, Unset, NewHandler, NoName
    <3> QED BY <3>1, <3>2
  <2>3. conf[id] \in F \cup U
    <3> HIDE DEF H, F, U
    <3> QED BY <2>1
  <2> HIDE DEF F, U
  <2> QED BY <1>2, <2>2, <2>3
<1>3. ASSUME NEW id PROVE Placed(conf[id], id, conn)
  BY <1>1 DEF Placed
<1> QED BY <1>1, <1>2, <1>3 DEF LevelInv

\* A step that leaves the structures that are filled in as they are, and the
\* filters of the connection where they are or puts them where they belong.
LEMMA LevelFrame ==
    ASSUME LevelInv, stage \notin {"main", "exited"} \/ conn.on # "no",
           \A id \in {"f1", "f2"} :
             /\ conf'[id].name = conf[id].name /\ conf'[id].prefix = conf[id].prefix
             /\ conf[id].parsed => conf'[id] = conf[id],
           \A id \in {"f1", "f2"} :
             Certain(conf[id]) /\ Placed(conf[id], id, conn)
                => Placed(conf[id], id, conn')
    PROVE  LevelInv'
<1> SUFFICES ASSUME NEW id \in {"f1", "f2"}, Certain(conf'[id])
             PROVE  conf'[id].parsed /\ Placed(conf'[id], id, conn')
  BY DEF LevelInv, Certain, Placed
<1>1. Certain(conf[id])
  BY DEF Certain
<1>2. conf[id].parsed /\ Placed(conf[id], id, conn)
  BY <1>1 DEF LevelInv
<1>3. conf'[id] = conf[id]
  BY <1>2
<1> QED BY <1>1, <1>2, <1>3

\* Startup loads it, or ends the process.
LEMMA HashHandlersLevel ==
    ASSUME NamedInv, FoundInv, LevelInv, NEW s \in Servers, HashHandlers(s)
    PROVE  LevelInv'
<1>1. Kept(conf', conf) /\ (stage' # "exited" => \A id \in Slots :
         conf[id].name.kind = "class" /\ conf[id].auto => conf'[id].parsed)
  BY HashHandlersFound
<1>2. conn' = conn /\ stage = s
  BY HashHandlersIs
<1>3. conn.on = "no"
  BY <1>2 DEF FoundInv, Servers, NoConn
<1> SUFFICES ASSUME NEW id \in {"f1", "f2"}, Certain(conf'[id])
             PROVE  /\ conf'[id].parsed \/ conf'[id].auto
                    /\ stage' # "exited" => conf'[id].parsed
                    /\ Placed(conf'[id], id, conn')
  BY <1>2, <1>3 DEF LevelInv, Certain, Placed
<1>4. /\ conf'[id].prefix = conf[id].prefix /\ conf'[id].name = conf[id].name
      /\ conf[id].auto => conf'[id].auto
      /\ conf[id].parsed => conf'[id] = conf[id]
  BY <1>1 DEF Kept, Slots
<1>5. Certain(conf[id])
  BY <1>4 DEF Certain
<1>6. conf[id].parsed \/ conf[id].auto
  BY <1>5 DEF LevelInv
<1>7. stage' # "exited" => conf'[id].parsed
  BY <1>1, <1>4, <1>5, <1>6 DEF Certain, Slots
<1>8. Placed(conf'[id], id, conn')
  BY <1>2, <1>3 DEF Placed
<1> QED BY <1>4, <1>6, <1>7, <1>8

\* Cloning changes no structure.
LEMMA InitClonesLevel == ASSUME LevelInv, InitClones PROVE LevelInv'
BY LevelFrame DEF InitClones

\* A phase changes no filter.
LEMMA RunHandlerLevel ==
    ASSUME LevelInv, NEW s \in Servers, NEW i \in Interps, NEW id \in Slots,
           RunHandler(s, i, id), NamedInv
    PROVE  LevelInv'
<1>1. PICK c : conf' = [conf EXCEPT ![id] = c.keep]
  BY DEF RunHandler
<1>2. stage = "serving" /\ id \in {"h1", "h2"} /\ conn' = conn
  BY DEF RunHandler
<1>3. \A j \in {"f1", "f2"} : conf'[j] = conf[j]
  BY <1>1, <1>2 DEF NamedInv, ConfOK, Slots
<1> QED BY <1>2, <1>3, LevelFrame

\* The filters that were just inserted at a level.
LEMMA InsertedAre ==
    ASSUME NEW a, NEW P, NEW level \in Levels, AddState(a, {"f1", "f2"}, P, level)
    PROVE  \A id \in {"f1", "f2"} :
             /\ \A other \in Levels : other # level => Never(a.chain, id, other)
             /\ Certain(conf[id]) /\ a.st = "ok" => LevelOK(a.chain, conf[id], id, level)
<1>1. \A k \in 1 .. Len(a.chain) : a.chain[k].level = level
  BY DEF AddState
<1>2. a.st = "ok" => \A id \in {"f1", "f2"} : Inserted(a.chain, id, level)
  BY DEF AddState
<1> QED BY <1>1, <1>2 DEF Never, Certain, LevelOK, Inserted

\* The filters of a connection.
LEMMA ConnectLevel ==
    ASSUME NamedInv, FoundInv, LevelInv, NEW s \in Servers, NEW i \in Interps,
           NEW fails \in BOOLEAN, Connect(s, i, fails)
    PROVE  LevelInv'
<1>1. PICK r \in {AddFilters(s, perl[i], "conn", fails)} :
         conn' = [on |-> "conn", s |-> s, i |-> i, chain |-> r.chain, st |-> r.st]
  BY DEF Connect
<1>2. conf' = conf /\ stage = "serving"
  BY DEF Connect
<1>3. PerlOK(perl[i], count) /\ PerlShape(perl[i]) /\ "conn" \in Levels /\ "req" \in Levels
  BY DEF NamedInv, FoundInv, Levels
<1>4. AddState(r, {"f1", "f2"}, perl[i], "conn")
  BY <1>1, <1>3, AddFiltersMore
<1>5. \A id \in {"f1", "f2"} :
        /\ Never(r.chain, id, "req")
        /\ Certain(conf[id]) /\ r.st = "ok" => LevelOK(r.chain, conf[id], id, "conn")
  BY <1>3, <1>4, InsertedAre
<1>6. conn'.on = "conn" /\ conn'.st = r.st /\ conn'.chain = r.chain
  BY <1>1
<1>7. \A id \in {"f1", "f2"} : Certain(conf[id]) => Placed(conf[id], id, conn')
  BY <1>5, <1>6 DEF Placed
<1> QED BY <1>2, <1>7, LevelFrame

\* The filters of a request come before them.
LEMMA InsertFiltersLevel ==
    ASSUME NamedInv, FoundInv, LevelInv, NEW fails \in BOOLEAN, InsertFilters(fails)
    PROVE  LevelInv'
<1>1. PICK r \in {AddFilters(conn.s, perl[conn.i], "req", fails)} :
         conn' = [conn EXCEPT !.on = "req", !.chain = r.chain \o @,
                              !.st = IF @ = "ok" THEN r.st ELSE @]
  BY DEF InsertFilters
<1>2. conf' = conf /\ stage = "serving" /\ conn.on = "conn"
  BY DEF InsertFilters
<1>3. /\ conn \in ConnType /\ conn.chain \in Seq(EntryType) /\ conn.i \in Interps
      /\ PerlOK(perl[conn.i], count) /\ PerlShape(perl[conn.i])
      /\ "conn" \in Levels /\ "req" \in Levels
  BY <1>2 DEF NamedInv, ConnOK, ChainOK, FoundInv, Levels
<1>4. AddState(r, {"f1", "f2"}, perl[conn.i], "req")
  BY <1>1, <1>3, AddFiltersMore
<1>5. \A id \in {"f1", "f2"} :
        /\ Never(r.chain, id, "conn")
        /\ Certain(conf[id]) /\ r.st = "ok" => LevelOK(r.chain, conf[id], id, "req")
  BY <1>3, <1>4, InsertedAre
<1>6. r.chain \in Seq(EntryType)
  BY <1>4 DEF AddState, Adding
<1>7. conn'.on = "req" /\ (conn'.st = "ok" => conn.st = "ok" /\ r.st = "ok")
      /\ conn'.chain = r.chain \o conn.chain
  BY <1>1, <1>3 DEF ConnType
<1>8. ASSUME NEW id \in {"f1", "f2"}, Certain(conf[id]), Placed(conf[id], id, conn)
      PROVE  Placed(conf[id], id, conn')
  <2> SUFFICES ASSUME conn'.st = "ok"
               PROVE  /\ LevelOK(r.chain \o conn.chain, conf[id], id, "conn")
                      /\ LevelOK(r.chain \o conn.chain, conf[id], id, "req")
    BY <1>7 DEF Placed
  <2>1. LevelOK(conn.chain, conf[id], id, "conn") /\ Never(conn.chain, id, "req")
    BY <1>2, <1>7, <1>8 DEF Placed
  <2>2. Never(r.chain, id, "conn") /\ LevelOK(r.chain, conf[id], id, "req")
    BY <1>5, <1>7, <1>8
  <2> QED BY <1>3, <1>6, <2>1, <2>2, LevelsConcat DEF LevelOK
<1> QED BY <1>2, <1>8, LevelFrame

\* A filter that is called stays where it is, with its attributes.
LEMMA RunFilterLevel ==
    ASSUME NamedInv, FoundInv, LevelInv, NEW k \in 1 .. Len(conn.chain), RunFilter(k)
    PROVE  LevelInv'
<1>1. PICK h, c : RunsFilter(k, h, c)
  BY RunFilterIs
<1>2. /\ stage = "serving" /\ opt' = opt /\ conn \in ConnType
      /\ conn.chain \in Seq(EntryType) /\ HandlerOK(h) /\ h.name \in SubNames
      /\ conn.i \in Interps /\ Calls(conn.s, conn.i, h, c) /\ HandlerOK(c.keep)
      /\ c.keep.name = h.name
  BY <1>1 DEF RunsFilter
<1>3. CASE conn.chain[k].id = "rt"
  <2> DEFINE d == [conn.chain EXCEPT ![k].h = c.keep]
  <2>1. conf' = conf /\ conn' = [conn EXCEPT !.chain = d]
    BY <1>1, <1>3 DEF RunsFilter
  <2>2. /\ Len(d) = Len(conn.chain)
        /\ \A j \in 1 .. Len(conn.chain) :
             d[j].id = conn.chain[j].id /\ d[j].level = conn.chain[j].level
    BY <1>2, ReplaceIs
  <2> HIDE DEF d
  <2>3. conn'.chain = d /\ conn'.on = conn.on /\ conn'.st = conn.st
    BY <1>2, <2>1 DEF ConnType
  <2>4. \A id, level : /\ Never(conn.chain, id, level) => Never(d, id, level)
                       /\ Once(conn.chain, id, level) => Once(d, id, level)
    BY <2>2, LevelsSame
  <2>5. \A id \in {"f1", "f2"} : Placed(conf[id], id, conn) => Placed(conf[id], id, conn')
    BY <2>3, <2>4 DEF Placed, LevelOK
  <2> QED BY <1>2, <2>1, <2>5, LevelFrame
<1>4. CASE conn.chain[k].id # "rt"
  <2> DEFINE id == conn.chain[k].id
  <2>1. id \in Slots /\ h = conf[id] /\ conn' = conn /\ conf' = [conf EXCEPT ![id] = c.keep]
    BY <1>1, <1>4 DEF RunsFilter, Slots
  <2> HIDE DEF id
  <2>2. Shape(h) /\ PerlOK(perl[conn.i], count) /\ PerlShape(perl[conn.i]) /\ count \in Nat
        /\ opt \in [threaded : BOOLEAN, parent : BOOLEAN, autoload : BOOLEAN]
    BY <1>2, <2>1 DEF FoundInv, NamedInv
  <2>3. CallMore(c, conn.s, h, perl[conn.i])
    BY <1>2, <2>2, CallbackMore DEF Calls
  <2>4. c.keep.prefix = h.prefix /\ (h.parsed => c.keep = h)
    BY <2>3 DEF CallMore, KeepMore
  <2>5. \A j \in Slots : /\ conf'[j].name = conf[j].name /\ conf'[j].prefix = conf[j].prefix
                         /\ conf[j].parsed => conf'[j] = conf[j]
    BY <1>2, <2>1, <2>4 DEF NamedInv, ConfOK
  <2> QED BY <1>2, <2>1, <2>5, LevelFrame DEF Slots
<1> QED BY <1>3, <1>4

\* A filter added at run time moves none.
LEMMA RuntimeAddLevel ==
    ASSUME NamedInv, FoundInv, LevelInv, NEW p \in Added, NEW level \in Levels,
           NEW fails \in BOOLEAN, RuntimeAdd(p, level, fails)
    PROVE  LevelInv'
<1>1. PICK h, Q, t : AddsFilter(level, h, Q, t)
  BY RuntimeAddIs
<1> DEFINE d == <<Entry("rt", level, h)>>
           f == d \o conn.chain
<1>2. /\ stage = "serving" /\ conf' = conf /\ conn \in ConnType
      /\ conn.chain \in Seq(EntryType) /\ HandlerOK(h) /\ conn.on = "req"
      /\ t = "ok" => conn.st = "ok"
      /\ conn' = [conn EXCEPT !.chain = f, !.st = t]
  BY <1>1 DEF AddsFilter
<1>3. d \in Seq(EntryType) /\ Len(d) = 1 /\ d[1].id = "rt"
  BY <1>2, PrependIs
<1> HIDE DEF d
<1>4. \A id \in {"f1", "f2"} : \A l : Never(d, id, l)
  BY <1>3 DEF Never
<1>5. \A id \in {"f1", "f2"} : \A l :
        /\ Never(conn.chain, id, l) => Never(f, id, l)
        /\ Once(conn.chain, id, l) => Once(f, id, l)
  BY <1>2, <1>3, <1>4, LevelsConcat
<1> HIDE DEF f
<1>6. conn'.chain = f /\ conn'.on = "req" /\ conn'.st = t
  BY <1>2 DEF ConnType
<1>7. \A id \in {"f1", "f2"} : Placed(conf[id], id, conn) => Placed(conf[id], id, conn')
  BY <1>2, <1>5, <1>6 DEF Placed, LevelOK
<1> QED BY <1>2, <1>7, LevelFrame

\* The end of a connection.
LEMMA DisconnectLevel == ASSUME LevelInv, Disconnect PROVE LevelInv'
<1>1. conn'.on = "no" /\ conn.on = "req" /\ conf' = conf
  BY DEF Disconnect, NoConn
<1>2. \A id : Placed(conf[id], id, conn')
  BY <1>1 DEF Placed
<1> QED BY <1>1, <1>2, LevelFrame

\* Every step.
LEMMA LevelStep == NamedInv /\ FoundInv /\ LevelInv /\ [ResolveNext]_rvars => LevelInv'
<1> SUFFICES ASSUME NamedInv, FoundInv, LevelInv, [ResolveNext]_rvars PROVE LevelInv'
  OBVIOUS
<1>1. ASSUME NEW s \in Servers, HashHandlers(s) PROVE LevelInv'
  BY <1>1, HashHandlersLevel
<1>2. CASE InitClones
  BY <1>2, InitClonesLevel
<1>3. ASSUME NEW s \in Servers, NEW i \in Interps, NEW id \in Slots,
             RunHandler(s, i, id)
      PROVE  LevelInv'
  BY <1>3, RunHandlerLevel
<1>4. ASSUME NEW s \in Servers, NEW i \in Interps, NEW fails \in BOOLEAN,
             Connect(s, i, fails)
      PROVE  LevelInv'
  BY <1>4, ConnectLevel
<1>5. ASSUME NEW fails \in BOOLEAN, InsertFilters(fails) PROVE LevelInv'
  BY <1>5, InsertFiltersLevel
<1>6. ASSUME NEW k \in 1 .. Len(conn.chain), RunFilter(k) PROVE LevelInv'
  BY <1>6, RunFilterLevel
<1>7. ASSUME NEW p \in Added, NEW level \in Levels, NEW fails \in BOOLEAN,
             RuntimeAdd(p, level, fails)
      PROVE  LevelInv'
  BY <1>7, RuntimeAddLevel
<1>8. CASE Disconnect
  BY <1>8, DisconnectLevel
<1>9. CASE UNCHANGED rvars
  <2>1. UNCHANGED <<stage, conf, conn>>
    BY <1>9 DEF rvars
  <2> QED BY <2>1 DEF LevelInv, Certain, Placed
<1> QED BY <1>1, <1>2, <1>3, <1>4, <1>5, <1>6, <1>7, <1>8, <1>9 DEF ResolveNext

\* LevelInv is an invariant.
LEMMA LevelInvariant == ResolveSpec => []LevelInv
<1>1. ResolveInit => LevelInv
  BY LevelInit
<1>2. NamedInv /\ FoundInv /\ LevelInv /\ [ResolveNext]_rvars => LevelInv'
  BY LevelStep
<1> QED BY <1>1, <1>2, NamedInvariant, FoundInvariant, PTL DEF ResolveSpec

\* How often a filter is in a chain.
LEMMA LevelCounts ==
    ASSUME NEW c, NEW id, NEW level, NEW S,
           S = {k \in 1 .. Len(c) : c[k].id = id /\ c[k].level = level}
    PROVE  /\ Never(c, id, level) => Cardinality(S) = 0
           /\ Once(c, id, level) => Cardinality(S) = 1
<1>1. CASE Never(c, id, level)
  <2>1. S = {}
    BY <1>1 DEF Never
  <2>2. Cardinality(S) = 0
    BY <2>1, FS_EmptySet
  <2>3. ~Once(c, id, level)
    BY <1>1 DEF Never, Once
  <2> QED BY <2>2, <2>3
<1>2. CASE Once(c, id, level)
  <2>1. PICK k \in 1 .. Len(c) : \A j \in 1 .. Len(c) :
          c[j].id = id /\ c[j].level = level <=> j = k
    BY <1>2 DEF Once
  <2>2. S = {k}
    BY <2>1
  <2>3. Cardinality(S) = 1
    BY <2>2, FS_Singleton
  <2>4. ~Never(c, id, level)
    BY <2>1 DEF Never
  <2> QED BY <2>3, <2>4
<1> QED BY <1>1, <1>2

\* LevelInv gives FilterLevel: the attributes are those of the named sub.
LEMMA LevelsHold == ASSUME NamedInv, FoundInv, LevelInv PROVE FilterLevel
<1> SUFFICES ASSUME conn.on = "req", conn.st = "ok", NEW id \in {"f1", "f2"},
                    conf[id].name.kind = "class", conf[id].prefix # "-",
                    Denotes(conf[id].name) # NULL
             PROVE  LET At(level) == Cardinality({k \in 1..Len(conn.chain) :
                            conn.chain[k].id = id /\ conn.chain[k].level = level})
                    IN  IF "conn" \in Code[Denotes(conf[id].name)].attrs
                        THEN At("conn") = 1 /\ At("req") = 0
                        ELSE At("conn") = 0 /\ At("req") = 1
  BY DEF FilterLevel
<1> DEFINE S(level) == {k \in 1..Len(conn.chain) :
                            conn.chain[k].id = id /\ conn.chain[k].level = level}
           q == Denotes(conf[id].name)
<1>1. Certain(conf[id]) /\ id \in Slots
  BY DEF Certain, Slots
<1>2. conf[id].parsed /\ Placed(conf[id], id, conn)
  BY <1>1 DEF LevelInv
<1>3. HandlerOK(conf[id]) /\ Shape(conf[id])
  BY <1>1 DEF NamedInv, ConfOK, FoundInv
<1>4. conf[id].cv = q /\ ~conf[id].anon
  BY <1>2, <1>3 DEF HandlerOK
<1>5. conf[id].attrs = Code[q].attrs
  BY <1>2, <1>3, <1>4 DEF Shape
<1>6. q \in Packages
  <2>1. conf[id].cv \in Packages \cup {NULL}
    BY <1>3 DEF HandlerOK, HandlerType
  <2> QED BY <1>4, <2>1
<1>7. "httpd" \notin Code[q].attrs
  <2>1. Code[q].attrs \subseteq {"conn", "req", "hasinit"}
    BY <1>6, ResolveAssumption
  <2> QED BY <2>1
<1>8. /\ Takes("conn", conf[id]) <=> "conn" \in Code[q].attrs
      /\ Takes("req", conf[id]) <=> "conn" \notin Code[q].attrs
  BY <1>5, <1>7 DEF Takes, TakesConnection, TakesRequest
<1>9. LevelOK(conn.chain, conf[id], id, "conn") /\ LevelOK(conn.chain, conf[id], id, "req")
  BY <1>2 DEF Placed
<1>10. ASSUME NEW level
       PROVE  /\ Never(conn.chain, id, level) => Cardinality(S(level)) = 0
              /\ Once(conn.chain, id, level) => Cardinality(S(level)) = 1
  <2> DEFINE T == S(level)
  <2>1. T = {k \in 1..Len(conn.chain) :
               conn.chain[k].id = id /\ conn.chain[k].level = level}
    OBVIOUS
  <2> HIDE DEF T
  <2>2. /\ Never(conn.chain, id, level) => Cardinality(T) = 0
        /\ Once(conn.chain, id, level) => Cardinality(T) = 1
    BY <2>1, LevelCounts
  <2> QED BY <2>2, Zenon DEF T
<1> HIDE DEF S, q
<1>11. IF "conn" \in Code[q].attrs
       THEN Cardinality(S("conn")) = 1 /\ Cardinality(S("req")) = 0
       ELSE Cardinality(S("conn")) = 0 /\ Cardinality(S("req")) = 1
  BY <1>8, <1>9, <1>10 DEF LevelOK
<1> QED BY <1>11, Zenon DEF S, q

\* Once a request's filters are inserted without an error, every filter is in the
\* chain exactly once and at the level its attributes ask for, whatever has been
\* called or added before (modperl_filter_add_connection,
\* modperl_filter_add_request).
THEOREM FilterLevels == ResolveSpec => []FilterLevel
<1>1. NamedInv /\ FoundInv /\ LevelInv => FilterLevel
  BY LevelsHold
<1> QED BY <1>1, NamedInvariant, FoundInvariant, LevelInvariant, PTL

=============================================================================
