--------------------------- MODULE RequestProofs ---------------------------
(***************************************************************************)
(* What a request changes in its interpreter is put back, however deep its *)
(* handlers nest subrequests and whatever these do: for any number of      *)
(* subrequests, any locations and any special variables.                   *)
(*                                                                         *)
(* What a request prints comes out whole: through its buffer, through the  *)
(* filters that read it and print it again, and past the ones that pass it *)
(* on, for any sizes of the buffer and of the data.                        *)
(***************************************************************************)
EXTENDS Request, Filter, Induction, SequenceTheorems, TLAPS

\* Appending to a sequence and leaving out its last element.
LEMMA AppendFacts ==
    ASSUME NEW S, NEW s \in Seq(S), NEW x \in S
    PROVE  /\ Append(s, x) \in Seq(S)
           /\ Len(Append(s, x)) = Len(s) + 1
           /\ \A i \in 1..Len(s) : Append(s, x)[i] = s[i]
           /\ Append(s, x)[Len(s) + 1] = x
OBVIOUS

\* What the sequence without its end is.
LEMMA SubSeqFacts ==
    ASSUME NEW S, NEW s \in Seq(S), NEW n \in 0..Len(s)
    PROVE  /\ SubSeq(s, 1, n) \in Seq(S)
           /\ Len(SubSeq(s, 1, n)) = n
           /\ \A i \in 1..n : SubSeq(s, 1, n)[i] = s[i]
OBVIOUS

\* What the sequence without its last element is.
LEMMA FrontFacts ==
    ASSUME NEW S, NEW s \in Seq(S), s # <<>>
    PROVE  /\ Front(s) \in Seq(S)
           /\ Len(Front(s)) = Len(s) - 1
           /\ \A i \in 1..(Len(s) - 1) : Front(s)[i] = s[i]
           /\ Last(s) = s[Len(s)] /\ Last(s) \in S
           /\ Len(s) \in Nat /\ Len(s) > 0
<1>1. Len(s) \in Nat /\ Len(s) > 0
  OBVIOUS
<1>2. Front(s) = SubSeq(s, 1, Len(s) - 1) /\ Last(s) = s[Len(s)]
  BY DEF Front, Last
<1>3. Len(s) - 1 \in 0..Len(s)
  BY <1>1
<1>4. s[Len(s)] \in S
  BY <1>1
<1> HIDE DEF Front, Last
<1> QED
  BY <1>1, <1>2, <1>3, <1>4, SubSeqFacts

-----------------------------------------------------------------------------
(* Types.                                                                  *)

\* The functions of a request's record give such records.
LEMMA RecordTypes ==
    ASSUME NEW q \in RequestType
    PROVE  /\ \A r \in Requests : AddCgi(r, q) \in RequestType
           /\ q.conf # NULL => Configured(q) \in RequestType
           /\ tls \in Requests \cup {NULL} => GlobalSet(q) \in RequestType
           /\ \A l \in Confs, t \in [Vars -> Values], by \in Requests \cup {NULL} :
                Create(l, t, by) \in RequestType
           /\ NoRequest \in RequestType
<1>1. \A r \in Requests : AddCgi(r, q) \in RequestType
  BY DEF AddCgi, RequestType, Values, Vars
<1>2. ASSUME q.conf # NULL
      PROVE  Configured(q) \in RequestType
  <2> DEFINE srv == IF q.srvset \/ q.table["srv"] # NULL THEN q.table["srv"]
                    ELSE "conf"
             t == [q.table EXCEPT !["srv"] = srv]
             dir == IF q.conf.setenv /\ ~q.dirset THEN "conf" ELSE t["dir"]
             u == [t EXCEPT !["dir"] = dir]
  <2>1. t \in [Vars -> Values]
    BY DEF RequestType, Values, Vars
  <2>2. u \in [Vars -> Values]
    <3>1. dir \in Values
      BY <2>1 DEF Values, Vars
    <3> QED
      BY <2>1, <3>1
  <2>3. Configured(q) = [q EXCEPT !.srvset = TRUE, !.dirset = TRUE,
                                  !.cleanup = TRUE, !.table = u]
    BY DEF Configured, RequestType, Vars
  <2> HIDE DEF u
  <2> QED
    BY <2>2, <2>3 DEF RequestType
<1>3. tls \in Requests \cup {NULL} => GlobalSet(q) \in RequestType
  <2> SUFFICES ASSUME tls \in Requests \cup {NULL}
               PROVE  GlobalSet(q) \in RequestType
    OBVIOUS
  <2> DEFINE a == Append(q.resets, tls)
  <2>1. a \in Seq(Requests \cup {NULL})
    BY AppendFacts DEF RequestType
  <2>2. GlobalSet(q) = [q EXCEPT !.setglobal = TRUE, !.resets = a]
    BY DEF GlobalSet, RequestType
  <2> HIDE DEF a
  <2> QED
    BY <2>1, <2>2 DEF RequestType
<1>4. NoRequest \in RequestType
  BY DEF NoRequest, RequestType, Values
<1>5. \A l \in Confs, t \in [Vars -> Values], by \in Requests \cup {NULL} :
        Create(l, t, by) \in RequestType
  <2> TAKE l \in Confs, t \in [Vars -> Values], by \in Requests \cup {NULL}
  <2>1. Create(l, t, by) = [NoRequest EXCEPT !.conf = l, !.table = t, !.by = by]
    BY DEF Create
  <2> HIDE DEF NoRequest
  <2> QED
    BY <1>4, <2>1 DEF RequestType
<1> QED
  BY <1>1, <1>2, <1>3, <1>4, <1>5

\* The fields of a request that each function leaves alone.
LEMMA RecordFields ==
    ASSUME NEW q \in RequestType, NEW r \in Requests
    PROVE  /\ AddCgi(r, q).conf = q.conf /\ AddCgi(r, q).by = q.by
           /\ AddCgi(r, q).ran = q.ran /\ AddCgi(r, q).globals = q.globals
           /\ AddCgi(r, q).resets = q.resets
           /\ AddCgi(r, q).setup /\ AddCgi(r, q).cleanup = q.cleanup
           /\ Configured(q).conf = q.conf /\ Configured(q).by = q.by
           /\ Configured(q).ran = q.ran /\ Configured(q).globals = q.globals
           /\ Configured(q).resets = q.resets
           /\ Configured(q).setup = q.setup /\ Configured(q).cleanup
           /\ GlobalSet(q).conf = q.conf /\ GlobalSet(q).by = q.by
           /\ GlobalSet(q).ran = q.ran /\ GlobalSet(q).globals = q.globals
           /\ GlobalSet(q).resets = Append(q.resets, tls)
           /\ GlobalSet(q).setup = q.setup /\ GlobalSet(q).cleanup = q.cleanup
BY DEF AddCgi, Configured, GlobalSet, RequestType

\* Two histories of %ENV that differ in the values of the last hash only.
SameHashes(H, G) ==
    /\ G \in Seq(HashType)
    /\ Len(G) = Len(H)
    /\ \A i \in 1..Len(H) : G[i].mg = H[i].mg
    /\ \A i \in 1..(Len(H) - 1) : G[i] = H[i]

\* A table is copied to the current hash.
LEMMA PopulateFacts ==
    ASSUME NEW H \in Seq(HashType), H # <<>>, NEW t \in [Vars -> Values]
    PROVE  /\ SameHashes(H, TablePopulate(H, t))
           /\ TablePopulate(H, t)[Len(H)].vars["cgi"] =
                IF t["cgi"] # NULL THEN t["cgi"] ELSE H[Len(H)].vars["cgi"]
<1>1. Len(H) \in Nat /\ Len(H) > 0 /\ Len(H) \in 1..Len(H)
  OBVIOUS
<1>2. H[Len(H)] \in HashType
  BY <1>1
<1> DEFINE u == [v \in Vars |-> IF t[v] # NULL THEN t[v] ELSE H[Len(H)].vars[v]]
           h == [H[Len(H)] EXCEPT !.vars = u]
<1>3. u \in [Vars -> Values]
  BY <1>2 DEF HashType
<1>4. h \in HashType /\ h.mg = H[Len(H)].mg /\ h.vars = u
  <2> HIDE DEF u
  <2> QED
    BY <1>2, <1>3 DEF HashType
<1>5. TablePopulate(H, t) = [H EXCEPT ![Len(H)] = h]
  BY DEF TablePopulate
<1>6. u["cgi"] = IF t["cgi"] # NULL THEN t["cgi"] ELSE H[Len(H)].vars["cgi"]
  BY DEF Vars
<1> HIDE DEF h, u
<1> QED
  BY <1>1, <1>4, <1>5, <1>6 DEF SameHashes

\* A table's variables are taken out of the current hash.
LEMMA UnpopulateFacts ==
    ASSUME NEW H \in Seq(HashType), H # <<>>, NEW t \in [Vars -> Values]
    PROVE  /\ SameHashes(H, TableUnpopulate(H, t))
           /\ TableUnpopulate(H, t)[Len(H)].vars["cgi"] =
                IF t["cgi"] # NULL THEN NULL ELSE H[Len(H)].vars["cgi"]
<1>1. Len(H) \in Nat /\ Len(H) > 0 /\ Len(H) \in 1..Len(H)
  OBVIOUS
<1>2. H[Len(H)] \in HashType
  BY <1>1
<1> DEFINE u == [v \in Vars |-> IF t[v] # NULL THEN NULL ELSE H[Len(H)].vars[v]]
           h == [H[Len(H)] EXCEPT !.vars = u]
<1>3. u \in [Vars -> Values]
  BY <1>2 DEF HashType, Values
<1>4. h \in HashType /\ h.mg = H[Len(H)].mg /\ h.vars = u
  <2> HIDE DEF u
  <2> QED
    BY <1>2, <1>3 DEF HashType
<1>5. TableUnpopulate(H, t) = [H EXCEPT ![Len(H)] = h]
  BY DEF TableUnpopulate
<1>6. u["cgi"] = IF t["cgi"] # NULL THEN NULL ELSE H[Len(H)].vars["cgi"]
  BY DEF Vars
<1> HIDE DEF h, u
<1> QED
  BY <1>1, <1>4, <1>5, <1>6 DEF SameHashes

\* The PerlSetEnv directives are none of the CGI variables.
LEMMA ConfigureFacts ==
    ASSUME NEW H \in Seq(HashType), H # <<>>, NEW q
    PROVE  /\ SameHashes(H, ConfigureEnv(H, q))
           /\ ConfigureEnv(H, q)[Len(H)].vars["cgi"] = H[Len(H)].vars["cgi"]
<1> DEFINE P(G) == SameHashes(H, G) /\ G[Len(H)].vars["cgi"] = H[Len(H)].vars["cgi"]
<1>1. /\ Only("srv") \in [Vars -> Values] /\ Only("dir") \in [Vars -> Values]
      /\ Only("srv")["cgi"] = NULL /\ Only("dir")["cgi"] = NULL
  BY DEF Only, Vars, Values
<1>2. P(H)
  BY DEF SameHashes
<1>3. P(TablePopulate(H, Only("srv"))) /\ P(TablePopulate(H, Only("dir")))
  BY <1>1, PopulateFacts
<1>4. P(TablePopulate(TablePopulate(H, Only("srv")), Only("dir")))
  <2> DEFINE G == TablePopulate(H, Only("srv"))
  <2>1. G \in Seq(HashType) /\ Len(G) = Len(H) /\ G # <<>>
    BY <1>3 DEF SameHashes
  <2>2. SameHashes(G, TablePopulate(G, Only("dir")))
    BY <1>1, <2>1, PopulateFacts
  <2>3. TablePopulate(G, Only("dir"))[Len(G)].vars["cgi"] = G[Len(G)].vars["cgi"]
    BY <1>1, <2>1, PopulateFacts
  <2> QED
    BY <1>3, <2>1, <2>2, <2>3 DEF SameHashes
<1>5. \/ ConfigureEnv(H, q) = H
      \/ ConfigureEnv(H, q) = TablePopulate(H, Only("srv"))
      \/ ConfigureEnv(H, q) = TablePopulate(H, Only("dir"))
      \/ ConfigureEnv(H, q) = TablePopulate(TablePopulate(H, Only("srv")), Only("dir"))
  BY DEF ConfigureEnv
<1> HIDE DEF P
<1>6. P(ConfigureEnv(H, q))
  BY <1>2, <1>3, <1>4, <1>5
<1> QED
  BY <1>6 DEF P

-----------------------------------------------------------------------------
(* Scripts inside scripts.  st is a stack of handlers and n the number of  *)
(* hashes that %ENV has had.                                               *)

IsScript(f) == f.kind = "perl-script"

\* The hash that was current when the k-th handler was called; that of now for
\* the handler that is not called yet.
HashAt(st, n, k) == IF k \in 1..Len(st) THEN st[k].was.hash ELSE n

\* The j-th handler is the innermost script below the k-th.
ScriptBelow(st, j, k) ==
    /\ j \in 1..(k - 1) /\ IsScript(st[j])
    /\ \A i \in (j + 1)..(k - 1) : ~IsScript(st[i])

\* Every script has a hash of its own, above those of the scripts below it.
HashesNested(st, n) ==
    \A k \in 1..(Len(st) + 1) :
        /\ (\A j \in 1..(k - 1) : ~IsScript(st[j])) => HashAt(st, n, k) = 1
        /\ \A j \in 1..(k - 1) :
             ScriptBelow(st, j, k) => HashAt(st, n, k) = st[j].was.hash + 1
        /\ \A j \in 1..(k - 1) :
             IsScript(st[j]) => st[j].was.hash < HashAt(st, n, k)

\* A handler is called, which makes a new hash if it is a script.
LEMMA NestedPush ==
    ASSUME NEW st \in Seq(FrameType), NEW n \in Nat, HashesNested(st, n),
           NEW f \in FrameType, f.was.hash = n
    PROVE  HashesNested(Append(st, f), IF IsScript(f) THEN n + 1 ELSE n)
<1> DEFINE su == Append(st, f)
           m == IF IsScript(f) THEN n + 1 ELSE n
           L == Len(st)
<1>t. L \in Nat /\ m \in Nat
  OBVIOUS
<1>s. /\ Len(su) = L + 1
      /\ \A k \in 1..L : su[k] = st[k]
      /\ su[L + 1] = f
  BY AppendFacts
<1>w. \A k \in 1..L : st[k].was.hash \in Nat
  <2>1. \A k \in 1..L : st[k] \in FrameType
    BY <1>t
  <2> QED
    BY <2>1 DEF FrameType
<1>a. /\ \A k \in 1..(L + 1) : HashAt(su, m, k) = HashAt(st, n, k)
      /\ HashAt(su, m, L + 2) = m
      /\ HashAt(st, n, L + 1) = n
  BY <1>t, <1>s DEF HashAt
<1>l. Len(st) = L
  OBVIOUS
<1> HIDE DEF su, m, L
<1>1. ASSUME NEW k \in 1..(L + 1)
      PROVE  /\ (\A j \in 1..(k - 1) : ~IsScript(su[j])) => HashAt(su, m, k) = 1
             /\ \A j \in 1..(k - 1) :
                  ScriptBelow(su, j, k) => HashAt(su, m, k) = su[j].was.hash + 1
             /\ \A j \in 1..(k - 1) :
                  IsScript(su[j]) => su[j].was.hash < HashAt(su, m, k)
  <2>1. \A j \in 1..(k - 1) : j \in 1..L /\ su[j] = st[j]
    BY <1>t, <1>s
  <2>2. \A j \in 1..(k - 1) : ScriptBelow(su, j, k) <=> ScriptBelow(st, j, k)
    <3> TAKE j \in 1..(k - 1)
    <3>1. \A i \in (j + 1)..(k - 1) : i \in 1..(k - 1)
      BY <1>t
    <3> QED
      BY <2>1, <3>1 DEF ScriptBelow
  <2> QED
    BY <1>l, <1>a, <2>1, <2>2 DEF HashesNested
<1>2. /\ (\A j \in 1..(L + 1) : ~IsScript(su[j])) => m = 1
      /\ \A j \in 1..(L + 1) :
           ScriptBelow(su, j, L + 2) => m = su[j].was.hash + 1
      /\ \A j \in 1..(L + 1) : IsScript(su[j]) => su[j].was.hash < m
  <2>1. CASE IsScript(f)
    <3>1. m = n + 1 /\ IsScript(su[L + 1])
      BY <2>1, <1>s DEF m
    <3>2. \A j \in 1..L : IsScript(su[j]) => su[j].was.hash < n
      BY <1>t, <1>l, <1>s, <1>a DEF HashesNested
    <3>3. \A j \in 1..(L + 1) : ScriptBelow(su, j, L + 2) => j = L + 1
      BY <1>t, <3>1 DEF ScriptBelow
    <3> QED
      <4>1. \A j \in 1..(L + 1) : j \in 1..L \/ j = L + 1
        BY <1>t
      <4>2. L + 1 \in 1..(L + 1)
        BY <1>t
      <4>3. su[L + 1].was.hash = n
        BY <1>s
      <4>4. \A j \in 1..L : su[j].was.hash \in Nat
        BY <1>s, <1>w
      <4> QED
        BY <3>1, <3>2, <3>3, <4>1, <4>2, <4>3, <4>4
  <2>2. CASE ~IsScript(f)
    <3>1. m = n /\ ~IsScript(su[L + 1])
      BY <2>2, <1>s DEF m
    <3>2. \A j \in 1..(L + 1) : ScriptBelow(su, j, L + 2) => ScriptBelow(st, j, L + 1)
      BY <1>t, <1>s, <3>1 DEF ScriptBelow
    <3>3. /\ (\A j \in 1..L : ~IsScript(st[j])) => n = 1
          /\ \A j \in 1..L : ScriptBelow(st, j, L + 1) => n = st[j].was.hash + 1
          /\ \A j \in 1..L : IsScript(st[j]) => st[j].was.hash < n
      BY <1>t, <1>l, <1>a DEF HashesNested
    <3>4. \A j \in 1..(L + 1) : j \in 1..L \/ j = L + 1
      BY <1>t
    <3>5. \A j \in 1..(L + 1) : IsScript(su[j]) => j \in 1..L
      BY <3>1, <3>4
    <3>6. \A j \in 1..(L + 1) : ScriptBelow(su, j, L + 2) => j \in 1..L
      BY <3>5 DEF ScriptBelow
    <3> QED
      <4>1. \A j \in 1..L : j \in 1..(L + 1)
        BY <1>t
      <4> QED
        BY <1>s, <3>1, <3>2, <3>3, <3>5, <3>6, <4>1
  <2> QED
    BY <2>1, <2>2
<1>3. \A k \in 1..(Len(su) + 1) : k \in 1..(L + 1) \/ (k = L + 2 /\ k - 1 = L + 1)
  BY <1>t, <1>s
<1>4. HashesNested(su, m)
  BY <1>a, <1>1, <1>2, <1>3 DEF HashesNested
<1> QED
  BY <1>4 DEF su, m

\* A handler returns, after which the hash that was current is so again.
LEMMA NestedPop ==
    ASSUME NEW st \in Seq(FrameType), NEW n \in Nat, HashesNested(st, n),
           st # <<>>
    PROVE  HashesNested(Front(st), IF IsScript(Last(st)) THEN Last(st).was.hash ELSE n)
<1> DEFINE su == Front(st)
           m == IF IsScript(Last(st)) THEN Last(st).was.hash ELSE n
           L == Len(st)
<1>s. /\ Len(su) = L - 1 /\ L \in Nat /\ L > 0
      /\ \A k \in 1..(L - 1) : su[k] = st[k]
      /\ Last(st) = st[L]
  BY FrontFacts
<1>w. \A k \in 1..L : st[k].was.hash \in Nat
  <2>1. \A k \in 1..L : st[k] \in FrameType
    BY <1>s
  <2> QED
    BY <2>1 DEF FrameType
<1>a. /\ \A k \in 1..(L - 1) : HashAt(su, m, k) = HashAt(st, n, k)
      /\ HashAt(su, m, L) = m
      /\ HashAt(st, n, L + 1) = n
      /\ HashAt(st, n, L) = st[L].was.hash
  BY <1>s DEF HashAt
<1>l. Len(st) = L
  OBVIOUS
<1> HIDE DEF su, m, L
<1>1. ASSUME NEW k \in 1..(L - 1)
      PROVE  /\ (\A j \in 1..(k - 1) : ~IsScript(su[j])) => HashAt(su, m, k) = 1
             /\ \A j \in 1..(k - 1) :
                  ScriptBelow(su, j, k) => HashAt(su, m, k) = su[j].was.hash + 1
             /\ \A j \in 1..(k - 1) :
                  IsScript(su[j]) => su[j].was.hash < HashAt(su, m, k)
  <2>1. \A j \in 1..(k - 1) : j \in 1..(L - 1) /\ su[j] = st[j]
    BY <1>s
  <2>2. \A j \in 1..(k - 1) : ScriptBelow(su, j, k) <=> ScriptBelow(st, j, k)
    <3> TAKE j \in 1..(k - 1)
    <3>1. \A i \in (j + 1)..(k - 1) : i \in 1..(k - 1)
      BY <1>s
    <3> QED
      BY <2>1, <3>1 DEF ScriptBelow
  <2>3. k \in 1..(L + 1)
    BY <1>s
  <2> QED
    BY <1>l, <1>a, <2>1, <2>2, <2>3 DEF HashesNested
<1>2. /\ (\A j \in 1..(L - 1) : ~IsScript(su[j])) => m = 1
      /\ \A j \in 1..(L - 1) : ScriptBelow(su, j, L) => m = su[j].was.hash + 1
      /\ \A j \in 1..(L - 1) : IsScript(su[j]) => su[j].was.hash < m
  <2>1. CASE IsScript(st[L])
    <3>1. m = st[L].was.hash
      BY <2>1, <1>s DEF m
    <3>2. \A j \in 1..(L - 1) : ScriptBelow(su, j, L) <=> ScriptBelow(st, j, L)
      <4> TAKE j \in 1..(L - 1)
      <4>1. \A i \in (j + 1)..(L - 1) : i \in 1..(L - 1)
        BY <1>s
      <4> QED
        BY <1>s, <4>1 DEF ScriptBelow
    <3>3. L \in 1..(L + 1)
      BY <1>s
    <3>4. HashAt(st, n, L) = m
      BY <1>a, <3>1
    <3> QED
      BY <1>l, <1>s, <3>2, <3>3, <3>4 DEF HashesNested
  <2>2. CASE ~IsScript(st[L])
    <3>1. m = n
      BY <2>2, <1>s DEF m
    <3>2. \A j \in 1..(L - 1) : ScriptBelow(su, j, L) => ScriptBelow(st, j, L + 1)
      BY <1>s, <2>2 DEF ScriptBelow
    <3>3. /\ (\A j \in 1..L : ~IsScript(st[j])) => n = 1
          /\ \A j \in 1..L : ScriptBelow(st, j, L + 1) => n = st[j].was.hash + 1
          /\ \A j \in 1..L : IsScript(st[j]) => st[j].was.hash < n
      BY <1>s, <1>l, <1>a DEF HashesNested
    <3>4. \A j \in 1..L : j \in 1..(L - 1) \/ j = L
      BY <1>s
    <3>5. \A j \in 1..(L - 1) : j \in 1..L
      BY <1>s
    <3> QED
      BY <1>s, <2>2, <3>1, <3>2, <3>3, <3>4, <3>5
  <2> QED
    BY <2>1, <2>2
<1>3. \A k \in 1..(Len(su) + 1) : k \in 1..(L - 1) \/ k = L
  BY <1>s
<1>4. HashesNested(su, m)
  BY <1>a, <1>1, <1>2, <1>3 DEF HashesNested
<1> QED
  BY <1>4 DEF su, m

\* A script that was called last made the current hash.
LEMMA NestedTop ==
    ASSUME NEW st \in Seq(FrameType), NEW n \in Nat, HashesNested(st, n)
    PROVE  /\ \A j \in 1..Len(st) : ScriptBelow(st, j, Len(st) + 1)
                                      => n = st[j].was.hash + 1
           /\ (\A j \in 1..Len(st) : ~IsScript(st[j])) => n = 1
           /\ \A j \in 1..Len(st) : IsScript(st[j]) => st[j].was.hash < n
           /\ \A j \in 1..(Len(st) - 1) :
                IsScript(st[j]) => st[j].was.hash < st[Len(st)].was.hash
BY DEF HashesNested, HashAt

-----------------------------------------------------------------------------
(* The invariant of the handlers that run, and the five ways to keep it.   *)

\* The request q of a script f that runs still holds what to restore, and the
\* hash and the handles that were made for it are tied to it.
ScriptKept(f, q, H, io) ==
    /\ q.conf # NULL
    /\ q.ran
    /\ q.globals = [special |-> f.was.special, hash |-> f.was.hash]
    /\ f.was.hash > 0
    /\ f.was.hash < Len(H)
    /\ f.was.stdio + 1 = f.was.hash
    /\ H[f.was.hash + 1].mg = f.r
    /\ io[f.was.hash] = f.r

ScriptsKept ==
    \A k \in 1..Len(stack) :
        IsScript(stack[k]) => ScriptKept(stack[k], req[stack[k].r], hv, stdio)

SomeScript == \E k \in 1..Len(stack) : IsScript(stack[k])

NestingInv ==
    /\ RequestTypeOK
    /\ HashesNested(stack, Len(hv))
    /\ ScriptsKept
    /\ hv[1].mg = NULL
    /\ endav => SomeScript

\* What a step leaves of the request of a script.
SameScript(q, p) == p.conf = q.conf /\ p.ran = q.ran /\ p.globals = q.globals

\* What no step but the call and the return of a script changes for a script.
ScriptsUntouched ==
    /\ SameHashes(hv, hv')
    /\ stdio' = stdio
    /\ endav' => endav
    /\ \A k \in 1..Len(stack) :
         IsScript(stack[k]) => SameScript(req[stack[k].r], req'[stack[k].r])

\* Types that the steps below need.
LEMMA NestingTypes ==
    ASSUME NestingInv
    PROVE  /\ stack \in Seq(FrameType) /\ hv \in Seq(HashType) /\ stdio \in Seq(Requests)
           /\ Len(stack) \in Nat /\ Len(hv) \in Nat /\ Len(stdio) \in Nat
           /\ Len(hv) = Len(stdio) + 1 /\ hv # <<>> /\ 1 \in 1..Len(hv)
           /\ \A k \in 1..Len(stack) :
                /\ stack[k] \in FrameType
                /\ stack[k].r \in Requests
                /\ stack[k].was.hash \in Nat /\ stack[k].was.stdio \in Nat
           /\ Now \in [special : SpecialValues, hash : Nat, stdio : Nat]
           /\ \A r \in Requests, kind \in {"early", "modperl", "perl-script"} :
                Frame(r, kind) \in FrameType
<1>1. /\ stack \in Seq(FrameType) /\ hv \in Seq(HashType) /\ stdio \in Seq(Requests)
      /\ Len(hv) = Len(stdio) + 1 /\ special \in SpecialValues
  BY DEF NestingInv, RequestTypeOK
<1>2. Len(stack) \in Nat /\ Len(hv) \in Nat /\ Len(stdio) \in Nat
  BY <1>1
<1>3. hv # <<>> /\ 1 \in 1..Len(hv)
  BY <1>1, <1>2
<1>4. \A k \in 1..Len(stack) : stack[k] \in FrameType
  BY <1>1, <1>2
<1>5. Now \in [special : SpecialValues, hash : Nat, stdio : Nat]
  BY <1>1, <1>2 DEF Now
<1>6. \A r \in Requests, kind \in {"early", "modperl", "perl-script"} :
        Frame(r, kind) \in FrameType
  BY <1>5 DEF Frame, FrameType
<1>7. \A f \in FrameType : f.r \in Requests /\ f.was.hash \in Nat /\ f.was.stdio \in Nat
  BY DEF FrameType
<1> QED
  BY <1>1, <1>2, <1>3, <1>4, <1>5, <1>6, <1>7

\* A script below stays as it is if its hash and handles do.
LEMMA KeptStays ==
    ASSUME NEW f \in FrameType, NEW q, NEW p, NEW H, NEW G, NEW io, NEW jo,
           ScriptKept(f, q, H, io), SameScript(q, p),
           f.was.hash < Len(G),
           G[f.was.hash + 1].mg = H[f.was.hash + 1].mg,
           jo[f.was.hash] = io[f.was.hash]
    PROVE  ScriptKept(f, p, G, jo)
BY DEF ScriptKept, SameScript

\* After a step that leaves the scripts alone they are kept.
LEMMA ScriptsStay ==
    ASSUME NestingInv, ScriptsUntouched,
           NEW k \in 1..Len(stack), IsScript(stack[k])
    PROVE  ScriptKept(stack[k], req'[stack[k].r], hv', stdio')
<1>1. ScriptKept(stack[k], req[stack[k].r], hv, stdio)
  BY DEF NestingInv, ScriptsKept
<1>2. stack[k] \in FrameType /\ stack[k].was.hash \in Nat /\ Len(hv) \in Nat
  BY NestingTypes
<1>3. stack[k].was.hash + 1 \in 1..Len(hv)
  BY <1>1, <1>2 DEF ScriptKept
<1>4. stack[k].was.hash < Len(hv')
  BY <1>1 DEF ScriptKept, ScriptsUntouched, SameHashes
<1>5. hv'[stack[k].was.hash + 1].mg = hv[stack[k].was.hash + 1].mg
  BY <1>3 DEF ScriptsUntouched, SameHashes
<1>6. SameScript(req[stack[k].r], req'[stack[k].r]) /\ stdio' = stdio
  BY DEF ScriptsUntouched
<1> QED
  BY <1>1, <1>2, <1>4, <1>5, <1>6, KeptStays

\* A step that calls no handler and returns from none.
LEMMA NestingQuiet ==
    ASSUME NestingInv, RequestTypeOK', ScriptsUntouched, stack' = stack
    PROVE  NestingInv'
<1>1. HashesNested(stack', Len(hv'))
  BY DEF NestingInv, ScriptsUntouched, SameHashes
<1>2. ScriptsKept'
  BY ScriptsStay DEF ScriptsKept
<1>3. hv'[1].mg = NULL
  BY NestingTypes DEF NestingInv, ScriptsUntouched, SameHashes
<1>4. endav' => SomeScript'
  BY DEF NestingInv, ScriptsUntouched, SomeScript
<1> QED
  BY <1>1, <1>2, <1>3, <1>4 DEF NestingInv

\* The call of a handler that is not a script.
LEMMA NestingPush ==
    ASSUME NestingInv, RequestTypeOK', ScriptsUntouched,
           NEW r \in Requests, NEW kind \in {"early", "modperl"},
           stack' = Append(stack, Frame(r, kind))
    PROVE  NestingInv'
<1>f. /\ Frame(r, kind) \in FrameType /\ ~IsScript(Frame(r, kind))
      /\ Frame(r, kind).was.hash = Len(hv)
  <2>1. Frame(r, kind) \in FrameType
    BY NestingTypes
  <2> QED
    BY <2>1 DEF Frame, IsScript, Now
<1>s. /\ Len(stack') = Len(stack) + 1
      /\ \A k \in 1..Len(stack) : stack'[k] = stack[k]
      /\ stack'[Len(stack) + 1] = Frame(r, kind)
  BY <1>f, NestingTypes, AppendFacts
<1>k. \A k \in 1..Len(stack') : k \in 1..Len(stack) \/ k = Len(stack) + 1
  BY <1>s, NestingTypes
<1>j. \A k \in 1..Len(stack) : k \in 1..Len(stack')
  BY <1>s, NestingTypes
<1>1. HashesNested(stack', Len(hv'))
  <2>1. HashesNested(stack, Len(hv)) /\ Len(hv') = Len(hv)
    BY DEF NestingInv, ScriptsUntouched, SameHashes
  <2>2. HashesNested(Append(stack, Frame(r, kind)), Len(hv))
    BY <1>f, <2>1, NestedPush, NestingTypes
  <2> QED
    BY <2>1, <2>2
<1>2. ScriptsKept'
  <2>1. \A k \in 1..Len(stack') : IsScript(stack'[k]) =>
          k \in 1..Len(stack) /\ stack'[k] = stack[k]
    BY <1>f, <1>s, <1>k
  <2>2. \A k \in 1..Len(stack) : IsScript(stack[k]) =>
          ScriptKept(stack[k], req'[stack[k].r], hv', stdio')
    BY ScriptsStay
  <2> QED
    BY <2>1, <2>2 DEF ScriptsKept
<1>3. hv'[1].mg = NULL
  BY NestingTypes DEF NestingInv, ScriptsUntouched, SameHashes
<1>4. endav' => SomeScript'
  BY <1>s, <1>j DEF NestingInv, ScriptsUntouched, SomeScript
<1> QED
  BY <1>1, <1>2, <1>3, <1>4 DEF NestingInv

\* The return of a handler that is not a script.
LEMMA NestingPop ==
    ASSUME NestingInv, RequestTypeOK', ScriptsUntouched,
           stack # <<>>, ~IsScript(Last(stack)), stack' = Front(stack)
    PROVE  NestingInv'
<1>s. /\ Len(stack) \in Nat /\ Len(stack) > 0 /\ Len(stack') = Len(stack) - 1
      /\ \A k \in 1..(Len(stack) - 1) : stack'[k] = stack[k]
      /\ Last(stack) = stack[Len(stack)]
  BY NestingTypes, FrontFacts
<1>k. \A k \in 1..Len(stack') : k \in 1..(Len(stack) - 1) /\ k \in 1..Len(stack)
  BY <1>s
<1>j. \A k \in 1..Len(stack) : k \in 1..Len(stack') \/ k = Len(stack)
  BY <1>s
<1>1. HashesNested(stack', Len(hv'))
  <2>1. HashesNested(stack, Len(hv)) /\ Len(hv') = Len(hv)
    BY DEF NestingInv, ScriptsUntouched, SameHashes
  <2>2. HashesNested(Front(stack), Len(hv))
    BY <2>1, NestedPop, NestingTypes
  <2> QED
    BY <2>1, <2>2
<1>2. ScriptsKept'
  <2>1. \A k \in 1..Len(stack') : k \in 1..Len(stack) /\ stack'[k] = stack[k]
    BY <1>s, <1>k
  <2>2. \A k \in 1..Len(stack) : IsScript(stack[k]) =>
          ScriptKept(stack[k], req'[stack[k].r], hv', stdio')
    BY ScriptsStay
  <2> QED
    BY <2>1, <2>2 DEF ScriptsKept
<1>3. hv'[1].mg = NULL
  BY NestingTypes DEF NestingInv, ScriptsUntouched, SameHashes
<1>4. endav' => SomeScript'
  BY <1>s, <1>k, <1>j DEF NestingInv, ScriptsUntouched, SomeScript
<1> QED
  BY <1>1, <1>2, <1>3, <1>4 DEF NestingInv

\* The call of a script: a new hash and new handles.
LEMMA NestingCall ==
    ASSUME NestingInv, RequestTypeOK', NEW r \in Requests,
           Len(hv') = Len(hv) + 1,
           \A i \in 1..Len(hv) : hv'[i].mg = hv[i].mg,
           hv'[Len(hv) + 1].mg = r,
           stdio' = Append(stdio, r),
           \A p \in Requests \ {r} : req'[p] = req[p],
           ~req[r].ran,
           req'[r].conf # NULL, req'[r].ran,
           req'[r].globals = [special |-> special, hash |-> Len(hv)],
           stack' = Append(stack, Frame(r, "perl-script"))
    PROVE  NestingInv'
<1> DEFINE f == Frame(r, "perl-script")
<1>f. /\ f \in FrameType /\ IsScript(f) /\ f.r = r
      /\ f.was.hash = Len(hv) /\ f.was.stdio = Len(stdio)
      /\ f.was.special = special
  <2>1. f \in FrameType
    BY NestingTypes
  <2> QED
    BY <2>1 DEF Frame, IsScript, Now
<1> HIDE DEF f
<1>s. /\ Len(stack') = Len(stack) + 1
      /\ \A k \in 1..Len(stack) : stack'[k] = stack[k]
      /\ stack'[Len(stack) + 1] = f
  <2>1. stack' = Append(stack, f)
    BY DEF f
  <2> QED
    BY <1>f, <2>1, NestingTypes, AppendFacts
<1>k. \A k \in 1..Len(stack') : k \in 1..Len(stack) \/ k = Len(stack) + 1
  BY <1>s, NestingTypes
<1>j. Len(stack) + 1 \in 1..Len(stack')
  BY <1>s, NestingTypes
<1>i. /\ \A i \in 1..Len(stdio) : stdio'[i] = stdio[i]
      /\ stdio'[Len(stdio) + 1] = r
  BY NestingTypes, AppendFacts
<1>1. HashesNested(stack', Len(hv'))
  <2>1. HashesNested(stack, Len(hv))
    BY DEF NestingInv
  <2>2. HashesNested(Append(stack, f), Len(hv) + 1)
    BY <1>f, <2>1, NestedPush, NestingTypes
  <2> QED
    BY <2>2 DEF f
<1>2. ScriptsKept'
  <2>1. ASSUME NEW k \in 1..Len(stack), IsScript(stack[k])
        PROVE  ScriptKept(stack[k], req'[stack[k].r], hv', stdio')
    <3>1. ScriptKept(stack[k], req[stack[k].r], hv, stdio)
      BY <2>1 DEF NestingInv, ScriptsKept
    <3>2. stack[k].r # r /\ stack[k].r \in Requests
      BY <3>1, NestingTypes DEF ScriptKept
    <3>3. SameScript(req[stack[k].r], req'[stack[k].r])
      BY <3>2 DEF SameScript
    <3>4. /\ stack[k].was.hash \in 1..Len(stdio)
          /\ stack[k].was.hash + 1 \in 1..Len(hv)
          /\ stack[k].was.hash < Len(hv')
      <4>1. stack[k].was.hash \in Nat /\ Len(stdio) \in Nat /\ Len(hv) = Len(stdio) + 1
        BY NestingTypes
      <4>2. stack[k].was.hash > 0 /\ stack[k].was.hash < Len(hv)
        BY <3>1 DEF ScriptKept
      <4> QED
        BY <4>1, <4>2
    <3>5. hv'[stack[k].was.hash + 1].mg = hv[stack[k].was.hash + 1].mg
      BY <3>4
    <3>6. stdio'[stack[k].was.hash] = stdio[stack[k].was.hash]
      BY <1>i, <3>4
    <3> QED
      BY <3>1, <3>3, <3>4, <3>5, <3>6 DEF ScriptKept, SameScript
  <2>2. ScriptKept(f, req'[r], hv', stdio')
    BY <1>f, <1>i, NestingTypes DEF ScriptKept
  <2>3. \A k \in 1..Len(stack') : stack'[k] = f \/ (k \in 1..Len(stack) /\ stack'[k] = stack[k])
    BY <1>s, <1>k
  <2> QED
    BY <1>f, <2>1, <2>2, <2>3 DEF ScriptsKept
<1>3. hv'[1].mg = NULL
  BY NestingTypes DEF NestingInv
<1>4. SomeScript'
  BY <1>f, <1>s, <1>j DEF SomeScript
<1> QED
  BY <1>1, <1>2, <1>3, <1>4 DEF NestingInv

\* What the return of a script finds.
LEMMA TopScript ==
    ASSUME NestingInv, stack # <<>>, IsScript(Last(stack))
    PROVE  /\ Last(stack) \in FrameType
           /\ ScriptKept(Last(stack), req[Last(stack).r], hv, stdio)
           /\ Len(hv) = Last(stack).was.hash + 1
           /\ Last(stack).was.hash \in 1..Len(hv)
<1>1. /\ Len(stack) \in Nat /\ Len(stack) > 0 /\ Len(stack) \in 1..Len(stack)
      /\ Last(stack) = stack[Len(stack)] /\ Last(stack) \in FrameType
  BY NestingTypes, FrontFacts
<1>2. ScriptKept(Last(stack), req[Last(stack).r], hv, stdio)
  BY <1>1 DEF NestingInv, ScriptsKept
<1>3. ScriptBelow(stack, Len(stack), Len(stack) + 1)
  BY <1>1 DEF ScriptBelow
<1>4. Len(hv) = Last(stack).was.hash + 1
  BY <1>1, <1>3, NestedTop, NestingTypes DEF NestingInv
<1> QED
  BY <1>1, <1>2, <1>4, NestingTypes DEF ScriptKept

\* The return of a script: its hash and its handles go, and those that were
\* current before it are current again.
LEMMA NestingReturn ==
    ASSUME NestingInv, RequestTypeOK',
           stack # <<>>, IsScript(Last(stack)), stack' = Front(stack),
           hv' = SubSeq(hv, 1, Last(stack).was.hash), stdio' = Front(stdio),
           req' = req, ~endav'
    PROVE  NestingInv'
<1>s. /\ Len(stack) \in Nat /\ Len(stack) > 0 /\ Len(stack') = Len(stack) - 1
      /\ \A k \in 1..(Len(stack) - 1) : stack'[k] = stack[k]
      /\ Last(stack) = stack[Len(stack)]
  BY NestingTypes, FrontFacts
<1>k. \A k \in 1..Len(stack') : k \in 1..(Len(stack) - 1) /\ k \in 1..Len(stack)
  BY <1>s
<1> DEFINE h == Last(stack).was.hash
<1>h. Len(hv) = h + 1 /\ h \in 1..Len(hv) /\ h \in Nat
  BY TopScript, NestingTypes
<1>v. Len(hv') = h /\ \A i \in 1..h : hv'[i] = hv[i]
  BY <1>h, SubSeqFacts, NestingTypes
<1>i. /\ Len(stdio) = h
      /\ \A i \in 1..(h - 1) : stdio'[i] = stdio[i]
  <2>1. Len(stdio) = h /\ stdio # <<>>
    BY <1>h, NestingTypes
  <2> QED
    BY <2>1, FrontFacts, NestingTypes
<1> HIDE DEF h
<1>1. HashesNested(stack', Len(hv'))
  <2>1. HashesNested(stack, Len(hv))
    BY DEF NestingInv
  <2>2. HashesNested(Front(stack), h)
    BY <2>1, NestedPop, NestingTypes DEF h
  <2> QED
    BY <1>v, <2>2
<1>2. ScriptsKept'
  <2>1. ASSUME NEW k \in 1..(Len(stack) - 1), IsScript(stack[k])
        PROVE  ScriptKept(stack[k], req'[stack[k].r], hv', stdio')
    <3>0. k \in 1..Len(stack)
      BY <1>s
    <3>1. ScriptKept(stack[k], req[stack[k].r], hv, stdio)
      BY <2>1, <3>0 DEF NestingInv, ScriptsKept
    <3>2. stack[k].was.hash < h
      BY <1>s, <2>1, NestedTop, NestingTypes DEF NestingInv, h
    <3>3. SameScript(req[stack[k].r], req'[stack[k].r])
      BY DEF SameScript
    <3>5. stack[k] \in FrameType /\ stack[k].was.hash \in Nat
      BY <3>0, NestingTypes
    <3>6. stack[k].was.hash > 0
      BY <3>1 DEF ScriptKept
    <3>4. /\ stack[k].was.hash \in 1..(h - 1)
          /\ stack[k].was.hash + 1 \in 1..h
      BY <1>h, <3>2, <3>5, <3>6
    <3>7. hv'[stack[k].was.hash + 1].mg = hv[stack[k].was.hash + 1].mg
      BY <1>v, <3>4
    <3>8. stdio'[stack[k].was.hash] = stdio[stack[k].was.hash]
      BY <1>i, <3>4
    <3>9. stack[k].was.hash < Len(hv')
      BY <1>v, <3>2
    <3> QED
      BY <3>1, <3>3, <3>7, <3>8, <3>9 DEF ScriptKept, SameScript
  <2> QED
    BY <1>s, <1>k, <2>1 DEF ScriptsKept
<1>3. hv'[1].mg = NULL
  <2>1. 1 \in 1..h
    BY <1>h
  <2>2. hv'[1] = hv[1]
    BY <1>v, <2>1
  <2> QED
    BY <2>2 DEF NestingInv
<1> QED
  BY <1>1, <1>2, <1>3 DEF NestingInv

-----------------------------------------------------------------------------
(* What the actions do to the requests and to %ENV.                        *)

\* A request that was just made.
LEMMA NewRequest ==
    ASSUME NEW l \in Confs, NEW t \in [Vars -> Values], NEW by \in Requests \cup {NULL}
    PROVE  LET q == Create(l, t, by) IN
           /\ q \in RequestType
           /\ q.conf = l /\ q.by = by /\ ~q.ran /\ ~q.setup
           /\ q.resets = <<>>
<1>1. NoRequest \in RequestType /\ ~NoRequest.ran /\ ~NoRequest.setup
      /\ NoRequest.resets = <<>>
  BY DEF NoRequest, RequestType, Values
<1>2. Create(l, t, by) = [NoRequest EXCEPT !.conf = l, !.table = t, !.by = by]
  BY DEF Create
<1> HIDE DEF NoRequest
<1> QED
  BY <1>1, <1>2 DEF RequestType

\* The CGI variables of a request.
LEMMA CgiFields ==
    ASSUME NEW q \in RequestType, NEW r \in Requests
    PROVE  /\ AddCgi(r, q).table["cgi"] = IF q.setup THEN q.table["cgi"] ELSE r
           /\ Configured(q).table["cgi"] = q.table["cgi"]
           /\ GlobalSet(q).table["cgi"] = q.table["cgi"]
BY DEF AddCgi, Configured, GlobalSet, RequestType, Vars

\* A response handler is about to run: the flag is set.
LEMMA RanFields ==
    ASSUME NEW q \in RequestType, NEW g \in [special : SpecialValues, hash : Nat]
    PROVE  LET p == [q EXCEPT !.ran = TRUE]
               c == [q EXCEPT !.ran = TRUE, !.globals = g]
           IN  /\ p \in RequestType /\ c \in RequestType
               /\ p.ran /\ c.ran
               /\ p.globals = q.globals /\ c.globals = g
               /\ p.conf = q.conf /\ c.conf = q.conf
               /\ p.by = q.by /\ c.by = q.by
               /\ p.resets = q.resets /\ c.resets = q.resets
               /\ p.setup = q.setup /\ c.setup = q.setup
               /\ p.cleanup = q.cleanup /\ c.cleanup = q.cleanup
               /\ p.table = q.table /\ c.table = q.table
BY DEF RequestType

\* Types of the requests.
LEMMA ReqTyped ==
    ASSUME NestingInv
    PROVE  /\ req \in [Requests -> RequestType]
           /\ \A r \in Requests : req[r] \in RequestType /\ req[r].table \in [Vars -> Values]
           /\ special \in SpecialValues /\ endav \in BOOLEAN
           /\ tls \in Requests \cup {NULL}
           /\ NoRequest.table \in [Vars -> Values]
           /\ Main \in Requests /\ Subs \subseteq Requests /\ NULL \notin Requests
           /\ \A r \in Requests : Exists(r) => req[r].conf \in Confs
<1>1. req \in [Requests -> RequestType] /\ special \in SpecialValues
      /\ tls \in Requests \cup {NULL}
  BY DEF NestingInv, RequestTypeOK
<1>2. endav \in BOOLEAN
  BY DEF NestingInv, RequestTypeOK
<1>3. \A q \in RequestType : q.table \in [Vars -> Values] /\ (q.conf # NULL => q.conf \in Confs)
  BY DEF RequestType
<1>4. Main \in Requests /\ Subs \subseteq Requests /\ NULL \notin Requests
  BY RequestAssumption DEF Requests
<1>5. NoRequest.table \in [Vars -> Values]
  BY DEF NoRequest, Values
<1> QED
  BY <1>1, <1>2, <1>3, <1>4, <1>5 DEF Exists

\* The request that runs.
LEMMA RunningFacts ==
    ASSUME NestingInv, stack # <<>>
    PROVE  /\ Running = Last(stack).r /\ Running = stack[Len(stack)].r
           /\ Running \in Requests
           /\ Len(stack) \in 1..Len(stack)
<1>1. /\ Last(stack) = stack[Len(stack)] /\ Last(stack) \in FrameType
      /\ Len(stack) \in Nat /\ Len(stack) > 0
  BY FrontFacts, NestingTypes
<1>2. Last(stack).r \in Requests
  BY <1>1 DEF FrameType
<1> QED
  BY <1>1, <1>2 DEF Running

\* A request gets its CGI variables once, with the flag that it has them.
CgiKept(r, q, p) ==
    \/ (p.setup <=> q.setup) /\ p.table["cgi"] = q.table["cgi"]
    \/ ~q.setup /\ p.setup /\ p.table["cgi"] = r

\* And what the current hash gets is the variable of the request.
CgiSet(r, q, p, H, G) ==
    /\ CgiKept(r, q, p)
    /\ SameHashes(H, G)
    /\ \/ G[Len(H)].vars["cgi"] = H[Len(H)].vars["cgi"]
       \/ /\ p.setup /\ p.table["cgi"] # NULL
          /\ G[Len(H)].vars["cgi"] = p.table["cgi"]

\* ap_add_cgi_vars and the copy of the table to %ENV.
LEMMA AddCgiFacts ==
    ASSUME NEW q \in RequestType, NEW r \in Requests, NEW H \in Seq(HashType), H # <<>>
    PROVE  LET p == AddCgi(r, q) IN
           /\ p \in RequestType
           /\ CgiSet(r, q, p, H, TablePopulate(H, p.table))
<1>1. AddCgi(r, q) \in RequestType
  BY RecordTypes
<1>2. AddCgi(r, q).table \in [Vars -> Values]
  BY <1>1 DEF RequestType
<1> DEFINE t == AddCgi(r, q).table
<1>3. /\ SameHashes(H, TablePopulate(H, t))
      /\ TablePopulate(H, t)[Len(H)].vars["cgi"] =
           IF t["cgi"] # NULL THEN t["cgi"] ELSE H[Len(H)].vars["cgi"]
  BY <1>2, PopulateFacts
<1>4. AddCgi(r, q).setup
  BY RecordFields
<1>5. AddCgi(r, q).table["cgi"] = IF q.setup THEN q.table["cgi"] ELSE r
  BY CgiFields
<1>6. CgiKept(r, q, AddCgi(r, q))
  BY <1>4, <1>5 DEF CgiKept
<1> QED
  BY <1>1, <1>3, <1>4, <1>6 DEF CgiSet

\* The same as one step of one request.
LEMMA ConfiguredFacts ==
    ASSUME NEW r, NEW q \in RequestType, NEW p \in RequestType, p.conf # NULL,
           NEW H \in Seq(HashType), NEW G, CgiSet(r, q, p, H, G), H # <<>>
    PROVE  /\ Configured(p) \in RequestType
           /\ Configured(p).cleanup
           /\ CgiSet(r, q, Configured(p), H, ConfigureEnv(G, p))
<1>1. Configured(p) \in RequestType
  BY RecordTypes
<1>2. /\ Configured(p).cleanup /\ Configured(p).setup = p.setup
      /\ Configured(p).table["cgi"] = p.table["cgi"]
  <2>1. Main \in Requests
    BY DEF Requests
  <2> QED
    BY <2>1, RecordFields, CgiFields
<1>3. G \in Seq(HashType) /\ Len(G) = Len(H) /\ G # <<>> /\ Len(H) \in Nat
  BY DEF CgiSet, SameHashes
<1>4. /\ SameHashes(G, ConfigureEnv(G, p))
      /\ ConfigureEnv(G, p)[Len(G)].vars["cgi"] = G[Len(G)].vars["cgi"]
  BY <1>3, ConfigureFacts
<1>5. SameHashes(H, ConfigureEnv(G, p))
  BY <1>3, <1>4 DEF CgiSet, SameHashes
<1> QED
  BY <1>1, <1>2, <1>3, <1>4, <1>5 DEF CgiSet, CgiKept

\* Nothing is nothing.
LEMMA CgiSetRefl ==
    ASSUME NEW r, NEW q, NEW H \in Seq(HashType)
    PROVE  CgiSet(r, q, q, H, H)
BY DEF CgiSet, CgiKept, SameHashes

\* The fields of the request that no step of its response changes.
SameOrigin(q, p) == p.conf = q.conf /\ p.by = q.by

\* modperl_env_configure_request_* before a handler of an early phase.
LEMMA EarlyEffect ==
    ASSUME NestingInv, EarlyHandler(Main)
    PROVE  /\ req' \in [Requests -> RequestType]
           /\ \A p \in Requests \ {Main} : req'[p] = req[p]
           /\ SameOrigin(req[Main], req'[Main])
           /\ req'[Main].ran = req[Main].ran
           /\ req'[Main].globals = req[Main].globals
           /\ req'[Main].resets = req[Main].resets
           /\ req'[Main].cleanup
           /\ CgiSet(Main, req[Main], req'[Main], hv, hv')
<1>t. req \in [Requests -> RequestType] /\ Main \in Requests /\ req[Main] \in RequestType
  BY ReqTyped
<1>1. req' = [req EXCEPT ![Main] = Configured(req[Main])]
      /\ hv' = ConfigureEnv(hv, req[Main]) /\ req[Main].conf # NULL
  BY DEF EarlyHandler, Exists
<1>2. /\ Configured(req[Main]) \in RequestType
      /\ Configured(req[Main]).cleanup
      /\ CgiSet(Main, req[Main], Configured(req[Main]), hv, ConfigureEnv(hv, req[Main]))
  BY <1>t, <1>1, ConfiguredFacts, CgiSetRefl, NestingTypes
<1>3. req'[Main] = Configured(req[Main])
  BY <1>t, <1>1
<1> QED
  BY <1>t, <1>1, <1>2, <1>3, RecordFields DEF SameOrigin

\* modperl_response_handler before the callback.
LEMMA ModperlEffect ==
    ASSUME NestingInv, NEW r \in Requests, ResponseModperl(r)
    PROVE  /\ req' \in [Requests -> RequestType]
           /\ \A p \in Requests \ {r} : req'[p] = req[p]
           /\ SameOrigin(req[r], req'[r])
           /\ req'[r].ran
           /\ req'[r].globals = req[r].globals
           /\ req'[r].resets = req[r].resets
           /\ req'[r].cleanup
           /\ CgiSet(r, req[r], req'[r], hv, hv')
<1>t. /\ req \in [Requests -> RequestType] /\ req[r] \in RequestType
      /\ hv \in Seq(HashType) /\ hv # <<>>
  BY ReqTyped, NestingTypes
<1> DEFINE q == IF req[r].conf.setup = "on" THEN AddCgi(r, req[r]) ELSE req[r]
           H == IF req[r].conf.setup = "on" THEN TablePopulate(hv, q.table) ELSE hv
<1>1. /\ q \in RequestType /\ q.conf = req[r].conf /\ q.by = req[r].by
      /\ q.globals = req[r].globals /\ q.resets = req[r].resets
      /\ CgiSet(r, req[r], q, hv, H)
  BY <1>t, AddCgiFacts, RecordFields, CgiSetRefl
<1>2. /\ hv' = ConfigureEnv(H, q)
      /\ req' = [req EXCEPT ![r] = [Configured(q) EXCEPT !.ran = TRUE]]
      /\ req[r].conf # NULL
  BY DEF ResponseModperl, MayRespond, Exists
<1> HIDE DEF q, H
<1>3. /\ Configured(q) \in RequestType /\ Configured(q).cleanup
      /\ CgiSet(r, req[r], Configured(q), hv, ConfigureEnv(H, q))
  BY <1>t, <1>1, <1>2, ConfiguredFacts
<1> DEFINE c == Configured(q)
           p == [c EXCEPT !.ran = TRUE]
<1>4. /\ c.conf = q.conf /\ c.by = q.by /\ c.globals = q.globals
      /\ c.resets = q.resets
  BY <1>1, RecordFields
<1>5. /\ p \in RequestType /\ p.ran /\ p.globals = c.globals /\ p.conf = c.conf
      /\ p.by = c.by /\ p.resets = c.resets /\ p.setup = c.setup
      /\ p.cleanup = c.cleanup /\ p.table = c.table
  <2>1. Now \in [special : SpecialValues, hash : Nat, stdio : Nat]
    BY NestingTypes
  <2>2. [special |-> Now.special, hash |-> 0] \in [special : SpecialValues, hash : Nat]
    BY <2>1
  <2> HIDE DEF c
  <2>3. c \in RequestType
    BY <1>3 DEF c
  <2> QED
    BY <2>2, <2>3, RanFields
<1>6. req'[r] = p
  BY <1>t, <1>2
<1> HIDE DEF c, p
<1>7. req' = [req EXCEPT ![r] = p]
  BY <1>2 DEF c, p
<1>8. /\ CgiSet(r, req[r], c, hv, hv') /\ c.cleanup
  BY <1>2, <1>3 DEF c
<1>9. CgiSet(r, req[r], p, hv, hv')
  BY <1>5, <1>8 DEF CgiSet, CgiKept
<1> QED
  BY <1>t, <1>1, <1>4, <1>5, <1>6, <1>7, <1>8, <1>9 DEF SameOrigin

\* modperl_response_handler when the callback declines.
LEMMA DeclineModperlEffect ==
    ASSUME NestingInv, NEW r \in Requests, DeclineModperl(r)
    PROVE  /\ req' \in [Requests -> RequestType]
           /\ \A p \in Requests \ {r} : req'[p] = req[p]
           /\ SameOrigin(req[r], req'[r])
           /\ req'[r].ran
           /\ req'[r].resets = req[r].resets
           /\ req'[r].cleanup = req[r].cleanup
           /\ CgiSet(r, req[r], req'[r], hv, hv')
           /\ ~stray' => ~stray
           /\ hv' = hv \/ Len(hv) # 1 \/ stray' \/ req'[r].cleanup
<1>t. /\ req \in [Requests -> RequestType] /\ req[r] \in RequestType
      /\ hv \in Seq(HashType) /\ hv # <<>>
  BY ReqTyped, NestingTypes
<1> DEFINE on == req[r].conf.setup = "on"
           q  == IF on THEN AddCgi(r, req[r]) ELSE req[r]
           H  == IF on THEN TablePopulate(hv, q.table) ELSE hv
<1>1. /\ q \in RequestType /\ q.conf = req[r].conf /\ q.by = req[r].by
      /\ q.resets = req[r].resets /\ q.cleanup = req[r].cleanup
      /\ CgiSet(r, req[r], q, hv, H)
  BY <1>t, AddCgiFacts, RecordFields, CgiSetRefl
<1>2. /\ hv' = H
      /\ req' = [req EXCEPT ![r] = [q EXCEPT !.ran = TRUE]]
      /\ ~stray' => ~stray
      /\ hv' = hv \/ Len(hv) # 1 \/ stray' \/ q.cleanup
  BY DEF DeclineModperl
<1> HIDE DEF q, H
<1> DEFINE p == [q EXCEPT !.ran = TRUE]
<1>3. /\ p \in RequestType /\ p.ran /\ p.conf = q.conf
      /\ p.by = q.by /\ p.resets = q.resets /\ p.setup = q.setup
      /\ p.cleanup = q.cleanup /\ p.table = q.table
  BY <1>1 DEF RequestType
<1> HIDE DEF p
<1>4. req' = [req EXCEPT ![r] = p]
  BY <1>2 DEF p
<1>5. CgiSet(r, req[r], p, hv, hv')
  BY <1>1, <1>2, <1>3 DEF CgiSet, CgiKept
<1>6. req'[r] = p
  BY <1>t, <1>4
<1> QED
  BY <1>t, <1>1, <1>2, <1>3, <1>4, <1>5, <1>6 DEF SameOrigin

\* The copy of %ENV, and its magic.
LEMMA SaveTieFacts ==
    ASSUME NEW H \in Seq(HashType), H # <<>>, NEW r \in Requests,
           NEW C, SameHashes(Save(H), C)
    PROVE  /\ Save(H) \in Seq(HashType) /\ Save(H) # <<>>
           /\ Tie(C, r) \in Seq(HashType)
           /\ Len(Tie(C, r)) = Len(H) + 1
           /\ \A i \in 1..Len(H) : Tie(C, r)[i] = H[i]
           /\ Tie(C, r)[Len(H) + 1].mg = r
<1> DEFINE e == [vars |-> Last(H).vars, mg |-> NULL]
<1>1. e \in HashType /\ Len(H) \in Nat
  BY FrontFacts DEF HashType
<1> HIDE DEF e
<1>2. /\ Save(H) \in Seq(HashType) /\ Len(Save(H)) = Len(H) + 1
      /\ \A i \in 1..Len(H) : Save(H)[i] = H[i]
  <2>1. Save(H) = Append(H, e)
    BY DEF Save, e
  <2> QED
    BY <1>1, <2>1, AppendFacts
<1>3. /\ C \in Seq(HashType) /\ Len(C) = Len(H) + 1
      /\ \A i \in 1..Len(H) : C[i] = H[i]
  BY <1>1, <1>2 DEF SameHashes
<1>4. C[Len(C)] \in HashType /\ Len(C) \in 1..Len(C)
  BY <1>1, <1>3
<1> DEFINE t == [C[Len(C)] EXCEPT !.mg = r]
<1>5. t \in HashType /\ t.mg = r
  BY <1>4 DEF HashType
<1> HIDE DEF t
<1>6. Tie(C, r) = [C EXCEPT ![Len(C)] = t]
  BY DEF Tie, t
<1>7. Save(H) # <<>>
  BY <1>1, <1>2
<1> HIDE DEF Save
<1> QED
  BY <1>1, <1>2, <1>3, <1>4, <1>5, <1>6, <1>7

\* modperl_response_handler_cgi before the callback.
LEMMA CgiEffect ==
    ASSUME NestingInv, NEW r \in Requests, ResponseCgi(r)
    PROVE  /\ req' \in [Requests -> RequestType]
           /\ \A p \in Requests \ {r} : req'[p] = req[p]
           /\ SameOrigin(req[r], req'[r])
           /\ req'[r].ran
           /\ req'[r].globals = [special |-> special, hash |-> Len(hv)]
           /\ \/ req'[r].resets = Append(req[r].resets, tls) /\ tls' = r
              \/ req'[r].resets = req[r].resets /\ tls' = tls
           /\ req'[r].cleanup
           /\ CgiKept(r, req[r], req'[r])
           /\ hv' \in Seq(HashType) /\ Len(hv') = Len(hv) + 1
           /\ \A i \in 1..Len(hv) : hv'[i] = hv[i]
           /\ hv'[Len(hv) + 1].mg = r
<1>t. /\ req \in [Requests -> RequestType] /\ req[r] \in RequestType
      /\ hv \in Seq(HashType) /\ hv # <<>> /\ Len(hv) \in Nat
      /\ special \in SpecialValues /\ tls \in Requests \cup {NULL}
  BY ReqTyped, NestingTypes
<1>s. Save(hv) \in Seq(HashType) /\ Save(hv) # <<>>
  <2>1. Last(hv) \in HashType
    BY <1>t, FrontFacts
  <2>2. [vars |-> Last(hv).vars, mg |-> NULL] \in HashType
    BY <2>1 DEF HashType
  <2> QED
    BY <1>t, <2>2, AppendFacts DEF Save
<1> DEFINE l == req[r].conf
           q == IF l.setup # "off" THEN AddCgi(r, req[r]) ELSE req[r]
           H == IF l.setup # "off" THEN TablePopulate(Save(hv), q.table) ELSE Save(hv)
           g == IF l.global # "off" THEN GlobalSet(q) ELSE q
           C == ConfigureEnv(H, g)
           m == [special |-> special, hash |-> Len(hv)]
<1>1. /\ q \in RequestType /\ q.conf = l /\ q.by = req[r].by
      /\ q.resets = req[r].resets
      /\ CgiSet(r, req[r], q, Save(hv), H)
  <2> HIDE DEF l
  <2>0. l = req[r].conf
    BY DEF l
  <2> QED
    BY <1>t, <1>s, <2>0, AddCgiFacts, RecordFields, CgiSetRefl
<1>2. /\ MayRespond(r, "perl-script")
      /\ hv' = Tie(C, r)
      /\ req' = [req EXCEPT ![r] = [Configured(g) EXCEPT !.ran = TRUE, !.globals = m]]
      /\ tls' = IF l.global # "off" THEN r ELSE tls
  BY DEF ResponseCgi
<1>n. l # NULL
  BY <1>2 DEF MayRespond, Exists
<1> HIDE DEF l, q, H
<1>3. /\ g \in RequestType /\ g.conf = l /\ g.by = req[r].by
      /\ \/ g.resets = Append(req[r].resets, tls) /\ tls' = r
         \/ g.resets = req[r].resets /\ tls' = tls
      /\ CgiSet(r, req[r], g, Save(hv), H)
  <2>1. CASE l.global # "off"
    <3>1. g = GlobalSet(q) /\ tls' = r
      BY <1>2, <2>1
    <3>2. GlobalSet(q) \in RequestType /\ GlobalSet(q).resets = Append(q.resets, tls)
          /\ GlobalSet(q).conf = q.conf /\ GlobalSet(q).by = q.by
          /\ GlobalSet(q).setup = q.setup
          /\ GlobalSet(q).table["cgi"] = q.table["cgi"]
      BY <1>t, <1>1, RecordTypes, RecordFields, CgiFields
    <3>3. CgiSet(r, req[r], GlobalSet(q), Save(hv), H)
      BY <1>1, <3>2 DEF CgiSet, CgiKept
    <3> QED
      BY <1>1, <3>1, <3>2, <3>3
  <2>2. CASE ~(l.global # "off")
    <3>1. g = q /\ tls' = tls
      BY <1>2, <2>2
    <3> QED
      BY <1>1, <3>1
  <2> QED
    BY <2>1, <2>2
<1> HIDE DEF g
<1> DEFINE c == Configured(g)
<1>4. /\ c \in RequestType /\ c.cleanup
      /\ CgiSet(r, req[r], c, Save(hv), C)
  BY <1>t, <1>s, <1>n, <1>3, ConfiguredFacts
<1>5. c.conf = g.conf /\ c.by = g.by /\ c.resets = g.resets
  BY <1>3, RecordFields
<1>6. m \in [special : SpecialValues, hash : Nat]
  BY <1>t
<1> HIDE DEF c, C
<1> DEFINE p == [c EXCEPT !.ran = TRUE, !.globals = m]
<1>7. /\ p \in RequestType /\ p.ran /\ p.globals = m /\ p.conf = c.conf
      /\ p.by = c.by /\ p.resets = c.resets /\ p.setup = c.setup
      /\ p.cleanup = c.cleanup /\ p.table = c.table
  <2> HIDE DEF m
  <2> QED
    BY <1>4, <1>6, RanFields
<1>8. CgiKept(r, req[r], p)
  <2>1. CgiKept(r, req[r], c)
    BY <1>4 DEF CgiSet
  <2> QED
    BY <2>1, <1>7 DEF CgiKept
<1>9. req' = [req EXCEPT ![r] = p]
  BY <1>2 DEF c
<1> HIDE DEF p
<1>10. /\ hv' \in Seq(HashType) /\ Len(hv') = Len(hv) + 1
       /\ \A i \in 1..Len(hv) : hv'[i] = hv[i]
       /\ hv'[Len(hv) + 1].mg = r
  <2>1. SameHashes(Save(hv), C)
    BY <1>4 DEF CgiSet
  <2> QED
    BY <1>t, <1>2, <2>1, SaveTieFacts
<1>11. req'[r] = p /\ req' \in [Requests -> RequestType]
       /\ \A x \in Requests \ {r} : req'[x] = req[x]
  BY <1>t, <1>7, <1>9
<1>12. SameOrigin(req[r], req'[r])
  BY <1>3, <1>5, <1>7, <1>11 DEF SameOrigin, l
<1> QED
  BY <1>3, <1>4, <1>5, <1>7, <1>8, <1>10, <1>11, <1>12

\* modperl_response_handler_cgi when the callback declines.
LEMMA DeclineCgiEffect ==
    ASSUME NestingInv, NEW r \in Requests, DeclineCgi(r)
    PROVE  /\ req' \in [Requests -> RequestType]
           /\ \A p \in Requests \ {r} : req'[p] = req[p]
           /\ SameOrigin(req[r], req'[r])
           /\ req'[r].ran
           /\ \/ req'[r].resets = Append(req[r].resets, tls) /\ tls' = r
              \/ req'[r].resets = req[r].resets /\ tls' = tls
           /\ req'[r].cleanup = req[r].cleanup
           /\ CgiKept(r, req[r], req'[r])
<1>t. /\ req \in [Requests -> RequestType] /\ req[r] \in RequestType
      /\ hv \in Seq(HashType) /\ hv # <<>> /\ Len(hv) \in Nat
      /\ special \in SpecialValues /\ tls \in Requests \cup {NULL}
  BY ReqTyped, NestingTypes
<1> DEFINE l == req[r].conf
           q == IF l.setup # "off" THEN AddCgi(r, req[r]) ELSE req[r]
           g == IF l.global # "off" THEN GlobalSet(q) ELSE q
           m == [special |-> special, hash |-> Len(hv)]
<1>1. /\ q \in RequestType /\ q.conf = l /\ q.by = req[r].by
      /\ q.resets = req[r].resets /\ q.cleanup = req[r].cleanup
      /\ CgiKept(r, req[r], q)
  <2> HIDE DEF l
  <2>0. l = req[r].conf
    BY DEF l
  <2> QED
    BY <1>t, <2>0, AddCgiFacts, RecordFields, CgiSetRefl DEF CgiSet
<1>2. /\ req' = [req EXCEPT ![r] = [g EXCEPT !.ran = TRUE, !.globals = m]]
      /\ tls' = IF l.global # "off" THEN r ELSE tls
  BY DEF DeclineCgi
<1> HIDE DEF l, q
<1>3. /\ g \in RequestType /\ g.conf = l /\ g.by = req[r].by
      /\ \/ g.resets = Append(req[r].resets, tls) /\ tls' = r
         \/ g.resets = req[r].resets /\ tls' = tls
      /\ g.cleanup = req[r].cleanup
      /\ CgiKept(r, req[r], g)
  <2>1. CASE l.global # "off"
    <3>1. g = GlobalSet(q) /\ tls' = r
      BY <1>2, <2>1
    <3>2. GlobalSet(q) \in RequestType /\ GlobalSet(q).resets = Append(q.resets, tls)
          /\ GlobalSet(q).conf = q.conf /\ GlobalSet(q).by = q.by
          /\ GlobalSet(q).setup = q.setup /\ GlobalSet(q).cleanup = q.cleanup
          /\ GlobalSet(q).table["cgi"] = q.table["cgi"]
      BY <1>t, <1>1, RecordTypes, RecordFields, CgiFields
    <3>3. CgiKept(r, req[r], GlobalSet(q))
      BY <1>1, <3>2 DEF CgiKept
    <3> QED
      BY <1>1, <3>1, <3>2, <3>3
  <2>2. CASE ~(l.global # "off")
    BY <1>1, <1>2, <2>2
  <2> QED
    BY <2>1, <2>2
<1>4. m \in [special : SpecialValues, hash : Nat]
  BY <1>t
<1> HIDE DEF g, m
<1> DEFINE p == [g EXCEPT !.ran = TRUE, !.globals = m]
<1>5. /\ p \in RequestType /\ p.ran /\ p.conf = g.conf
      /\ p.by = g.by /\ p.resets = g.resets /\ p.setup = g.setup
      /\ p.cleanup = g.cleanup /\ p.table = g.table
  BY <1>3, <1>4, RanFields
<1>6. req' = [req EXCEPT ![r] = p]
  BY <1>2
<1> HIDE DEF p
<1>7. CgiKept(r, req[r], p)
  BY <1>3, <1>5 DEF CgiKept
<1>8. req'[r] = p /\ req' \in [Requests -> RequestType]
      /\ \A x \in Requests \ {r} : req'[x] = req[x]
  BY <1>t, <1>5, <1>6
<1>9. SameOrigin(req[r], req'[r])
  BY <1>3, <1>5, <1>8 DEF SameOrigin, l
<1> QED
  BY <1>3, <1>5, <1>7, <1>8, <1>9

\* Everything of a request but the values of its table.
SameButTable(q, p) ==
    /\ p.conf = q.conf /\ p.by = q.by /\ p.ran = q.ran
    /\ p.globals = q.globals /\ p.resets = q.resets /\ p.cleanup = q.cleanup

\* The code of a handler assigns to %ENV or to a table.
Assigning ==
    \/ ClearEnv
    \/ \E w \in Writes : AssignEnv(w[1], w[2]) \/ AssignTable(w[1], w[2])

\* Only a table changes, and if its CGI variable goes, stray notes it.
TablesKept ==
    /\ req' \in [Requests -> RequestType]
    /\ \A r \in Requests :
         /\ SameButTable(req[r], req'[r])
         /\ req'[r].setup = req[r].setup
         /\ \/ req'[r].table["cgi"] = req[r].table["cgi"]
            \/ req'[r].table["cgi"] = "set"
            \/ req'[r].table["cgi"] = NULL /\ (hv[1].vars["cgi"] = r => stray')

LEMMA TablesSame ==
    ASSUME NestingInv, req' = req
    PROVE  TablesKept
<1>1. req \in [Requests -> RequestType]
  BY ReqTyped
<1> QED
  BY <1>1 DEF TablesKept, SameButTable

LEMMA TableAssigned ==
    ASSUME NestingInv, NEW m \in Requests, NEW t \in [Vars -> Values],
           req' = [req EXCEPT ![m].table = t],
           \/ t["cgi"] = req[m].table["cgi"]
           \/ t["cgi"] = "set"
           \/ t["cgi"] = NULL /\ (hv[1].vars["cgi"] = m => stray')
    PROVE  TablesKept
<1>1. req \in [Requests -> RequestType] /\ req[m] \in RequestType
  BY ReqTyped
<1> DEFINE p == [req[m] EXCEPT !.table = t]
<1>2. /\ p \in RequestType /\ SameButTable(req[m], p) /\ p.setup = req[m].setup
      /\ p.table = t
  BY <1>1 DEF RequestType, SameButTable
<1>3. req' = [req EXCEPT ![m] = p]
  OBVIOUS
<1> HIDE DEF p
<1>4. req'[m] = p /\ \A r \in Requests \ {m} : req'[r] = req[r]
  BY <1>1, <1>3
<1>5. req' \in [Requests -> RequestType]
  BY <1>1, <1>2, <1>3
<1> QED
  BY <1>2, <1>4, <1>5 DEF TablesKept, SameButTable

LEMMA HashAssigned ==
    ASSUME NestingInv, NEW u \in [Vars -> Values],
           hv' = [hv EXCEPT ![Len(hv)].vars = u]
    PROVE  SameHashes(hv, hv') /\ hv'[Len(hv)].vars = u
<1>t. hv \in Seq(HashType) /\ hv # <<>> /\ Len(hv) \in Nat /\ Len(hv) > 0
  BY NestingTypes
<1>1. hv[Len(hv)] \in HashType
  BY <1>t
<1> DEFINE e == [hv[Len(hv)] EXCEPT !.vars = u]
<1>2. e \in HashType /\ e.mg = hv[Len(hv)].mg /\ e.vars = u
  BY <1>1 DEF HashType
<1>3. hv' = [hv EXCEPT ![Len(hv)] = e]
  OBVIOUS
<1> HIDE DEF e
<1>4. Len(hv) \in 1..Len(hv) /\ hv'[Len(hv)] = e
  BY <1>t, <1>3
<1>5. hv' \in Seq(HashType) /\ Len(hv') = Len(hv)
      /\ \A i \in 1..Len(hv) : i # Len(hv) => hv'[i] = hv[i]
  BY <1>t, <1>2, <1>3
<1>6. \A i \in 1..(Len(hv) - 1) : i \in 1..Len(hv) /\ i # Len(hv)
  BY <1>t
<1> QED
  BY <1>2, <1>4, <1>5, <1>6 DEF SameHashes

\* What the code of a handler does to %ENV and to the tables.
LEMMA AssignEffect ==
    ASSUME NestingInv, Assigning
    PROVE  /\ TablesKept
           /\ SameHashes(hv, hv')
           /\ hv'[Len(hv)].vars["cgi"] \in {hv[Len(hv)].vars["cgi"], "set", NULL}
           /\ ~stray' => ~stray
           /\ stack' = stack /\ tls' = tls /\ special' = special
           /\ stdio' = stdio /\ endav' = endav
<1>t. /\ req \in [Requests -> RequestType]
      /\ \A r \in Requests : req[r].table \in [Vars -> Values]
      /\ hv \in Seq(HashType) /\ hv # <<>> /\ Len(hv) \in Nat /\ Len(hv) > 0
      /\ SameHashes(hv, hv)
  BY ReqTyped, NestingTypes DEF SameHashes
<1>e. /\ Env.mg \in Requests \cup {NULL}
      /\ hv[Len(hv)].vars \in [Vars -> Values]
  <2>1. Env \in HashType /\ hv[Len(hv)] \in HashType
    BY <1>t, FrontFacts DEF Env
  <2> QED
    BY <2>1 DEF HashType
<1>1. ASSUME NEW v \in Vars, NEW val \in {"set", NULL}, NEW t \in [Vars -> Values]
      PROVE  /\ [t EXCEPT ![v] = val] \in [Vars -> Values]
             /\ v # "cgi" => [t EXCEPT ![v] = val]["cgi"] = t["cgi"]
             /\ v = "cgi" => [t EXCEPT ![v] = val]["cgi"] = val
  BY DEF Vars, Values
<1>2. ASSUME NEW v \in Vars, NEW val \in {"set", NULL}, AssignEnv(v, val)
      PROVE  /\ TablesKept /\ SameHashes(hv, hv')
             /\ hv'[Len(hv)].vars["cgi"] \in {hv[Len(hv)].vars["cgi"], "set", NULL}
  <2> DEFINE u == [hv[Len(hv)].vars EXCEPT ![v] = val]
  <2>1. hv' = [hv EXCEPT ![Len(hv)].vars = u]
    BY <1>2 DEF AssignEnv
  <2>2. /\ u \in [Vars -> Values]
        /\ u["cgi"] \in {hv[Len(hv)].vars["cgi"], "set", NULL}
    BY <1>e, <1>1
  <2> HIDE DEF u
  <2>3. /\ SameHashes(hv, hv')
        /\ hv'[Len(hv)].vars["cgi"] \in {hv[Len(hv)].vars["cgi"], "set", NULL}
    BY <2>1, <2>2, HashAssigned
  <2>4. CASE Env.mg = NULL
    BY <1>2, <2>3, <2>4, TablesSame DEF AssignEnv
  <2>5. CASE Env.mg # NULL
    <3> DEFINE m == Env.mg
               t == [req[m].table EXCEPT ![v] = val]
    <3>1. m \in Requests /\ m # NULL
      BY <1>e, <2>5
    <3>2. req' = [req EXCEPT ![m].table = t]
      BY <1>2, <2>5 DEF AssignEnv
    <3>3. v = "cgi" /\ val = NULL /\ hv[1].vars["cgi"] = m => stray'
      BY <1>2, <3>1 DEF AssignEnv, Orphans
    <3> HIDE DEF m
    <3>4. /\ t \in [Vars -> Values]
          /\ v # "cgi" => t["cgi"] = req[m].table["cgi"]
          /\ v = "cgi" => t["cgi"] = val
      BY <1>t, <1>1, <3>1
    <3> HIDE DEF t
    <3>5. TablesKept
      BY <3>1, <3>2, <3>3, <3>4, TableAssigned
    <3> QED
      BY <2>3, <3>5
  <2> QED
    BY <2>4, <2>5
<1>3. ASSUME NEW v \in Vars, NEW val \in {"set", NULL}, AssignTable(v, val)
      PROVE  TablesKept /\ hv' = hv
  <2> DEFINE m == Running
             t == [req[m].table EXCEPT ![v] = val]
  <2>1. m \in Requests /\ m # NULL
    BY <1>3, ReqTyped, RunningFacts DEF AssignTable
  <2>2. req' = [req EXCEPT ![m].table = t] /\ hv' = hv
    BY <1>3 DEF AssignTable
  <2>3. v = "cgi" /\ val = NULL /\ hv[1].vars["cgi"] = m => stray'
    BY <1>3, <2>1 DEF AssignTable, Orphans
  <2> HIDE DEF m
  <2>4. /\ t \in [Vars -> Values]
        /\ v # "cgi" => t["cgi"] = req[m].table["cgi"]
        /\ v = "cgi" => t["cgi"] = val
    BY <1>t, <1>1, <2>1
  <2> HIDE DEF t
  <2> QED
    BY <2>1, <2>2, <2>3, <2>4, TableAssigned
<1>4. ASSUME ClearEnv
      PROVE  /\ TablesKept /\ SameHashes(hv, hv')
             /\ hv'[Len(hv)].vars["cgi"] = NULL
  <2> DEFINE u == [v \in Vars |-> NULL]
  <2>1. u \in [Vars -> Values] /\ u["cgi"] = NULL
    BY DEF Vars, Values
  <2>2. /\ hv' = [hv EXCEPT ![Len(hv)].vars = u]
        /\ req' = IF Env.mg = NULL THEN req ELSE [req EXCEPT ![Env.mg].table = u]
        /\ Env.mg # NULL /\ hv[1].vars["cgi"] = Env.mg => stray'
    BY <1>4 DEF ClearEnv, Orphans
  <2> HIDE DEF u
  <2>3. SameHashes(hv, hv') /\ hv'[Len(hv)].vars["cgi"] = NULL
    BY <2>1, <2>2, HashAssigned
  <2>4. TablesKept
    BY <1>e, <2>1, <2>2, TablesSame, TableAssigned
  <2> QED
    BY <2>3, <2>4
<1>5. /\ ~stray' => ~stray
      /\ stack' = stack /\ tls' = tls /\ special' = special
      /\ stdio' = stdio /\ endav' = endav
  BY DEF Assigning, AssignEnv, AssignTable, ClearEnv
<1>6. \A w \in Writes : w[1] \in Vars /\ w[2] \in {"set", NULL}
  BY RequestAssumption
<1> QED
  BY <1>t, <1>2, <1>3, <1>4, <1>5, <1>6 DEF Assigning

\* $r->subprocess_env in void context.
LEMMA PopulateEffect ==
    ASSUME NestingInv, Populate
    PROVE  /\ Running \in Requests
           /\ req' \in [Requests -> RequestType]
           /\ \A p \in Requests \ {Running} : req'[p] = req[p]
           /\ SameButTable(req[Running], req'[Running])
           /\ CgiSet(Running, req[Running], req'[Running], hv, hv')
<1>t. /\ req \in [Requests -> RequestType] /\ Running \in Requests
      /\ req[Running] \in RequestType /\ hv \in Seq(HashType) /\ hv # <<>>
  BY ReqTyped, NestingTypes, RunningFacts DEF Populate
<1> DEFINE q == AddCgi(Running, req[Running])
<1>1. req' = [req EXCEPT ![Running] = q] /\ hv' = TablePopulate(hv, q.table)
  BY DEF Populate
<1>2. /\ q \in RequestType /\ SameButTable(req[Running], q)
      /\ CgiSet(Running, req[Running], q, hv, hv')
  BY <1>t, <1>1, AddCgiFacts, RecordFields DEF SameButTable
<1> HIDE DEF q
<1> QED
  BY <1>t, <1>1, <1>2

\* modperl_config_req_cleanup for a request that goes away.
LEMMA GoneEffect ==
    ASSUME NestingInv, NEW s \in Requests,
           hv' = Unpopulated(hv, req[s]),
           tls' = ResetTo(req[s]),
           req' = [req EXCEPT ![s] = NoRequest]
    PROVE  /\ req' \in [Requests -> RequestType]
           /\ \A p \in Requests \ {s} : req'[p] = req[p]
           /\ req'[s].conf = NULL /\ ~req'[s].setup
           /\ SameHashes(hv, hv')
           /\ IF req[s].cleanup /\ req[s].setup /\ req[s].table["cgi"] # NULL
              THEN hv'[Len(hv)].vars["cgi"] = NULL
              ELSE hv'[Len(hv)].vars["cgi"] = hv[Len(hv)].vars["cgi"]
           /\ tls' \in Requests \cup {NULL}
           /\ req[s].resets = <<>> => tls' = tls
           /\ req[s].resets # <<>> => tls' = Head(req[s].resets)
<1>t. /\ req \in [Requests -> RequestType] /\ req[s] \in RequestType
      /\ req[s].table \in [Vars -> Values]
      /\ hv \in Seq(HashType) /\ hv # <<>>
      /\ tls \in Requests \cup {NULL}
  BY ReqTyped, NestingTypes
<1>1. NoRequest \in RequestType /\ NoRequest.conf = NULL /\ ~NoRequest.setup
  BY <1>t, RecordTypes DEF NoRequest
<1>2. /\ SameHashes(hv, hv')
      /\ IF req[s].cleanup /\ req[s].setup /\ req[s].table["cgi"] # NULL
         THEN hv'[Len(hv)].vars["cgi"] = NULL
         ELSE hv'[Len(hv)].vars["cgi"] = hv[Len(hv)].vars["cgi"]
  <2>1. CASE req[s].cleanup /\ req[s].setup
    BY <1>t, <2>1, UnpopulateFacts DEF Unpopulated
  <2>2. CASE ~(req[s].cleanup /\ req[s].setup)
    BY <1>t, <2>2 DEF Unpopulated, SameHashes
  <2> QED
    BY <2>1, <2>2
<1>3. tls' \in Requests \cup {NULL}
  <2>1. req[s].resets \in Seq(Requests \cup {NULL})
    BY <1>t DEF RequestType
  <2>2. req[s].resets # <<>> => Head(req[s].resets) \in Requests \cup {NULL}
    BY <2>1
  <2> QED
    BY <1>t, <2>2 DEF ResetTo
<1>4. /\ req' \in [Requests -> RequestType]
      /\ \A p \in Requests \ {s} : req'[p] = req[p]
      /\ req'[s].conf = NULL /\ ~req'[s].setup
  <2> HIDE DEF NoRequest
  <2> QED
    BY <1>t, <1>1
<1> QED
  BY <1>2, <1>3, <1>4 DEF ResetTo

\* A request that comes in, or a subrequest that is made.
NewIs(s, by) ==
    /\ req' \in [Requests -> RequestType]
    /\ \A p \in Requests \ {s} : req'[p] = req[p]
    /\ req'[s].conf # NULL /\ req'[s].by = by
    /\ ~req'[s].ran /\ ~req'[s].setup
    /\ req'[s].resets = <<>>

LEMMA NewEffect ==
    ASSUME NestingInv, NEW s \in Requests, NEW l \in Confs,
           NEW t \in [Vars -> Values], NEW by \in Requests \cup {NULL},
           req' = [req EXCEPT ![s] = Create(l, t, by)]
    PROVE  NewIs(s, by)
<1>1. req \in [Requests -> RequestType]
  BY ReqTyped
<1>2. l # NULL
  BY RequestAssumption
<1> QED
  BY <1>1, <1>2, NewRequest DEF NewIs

\* modperl_global_request_set in a hook before the response.
LEMMA HookEffect ==
    ASSUME NestingInv, HookGlobal
    PROVE  /\ req' \in [Requests -> RequestType]
           /\ \A p \in Requests \ {Main} : req'[p] = req[p]
           /\ SameOrigin(req[Main], req'[Main])
           /\ req'[Main].ran = req[Main].ran
           /\ req'[Main].globals = req[Main].globals
           /\ req'[Main].cleanup = req[Main].cleanup
           /\ req'[Main].setup = req[Main].setup
           /\ req'[Main].table["cgi"] = req[Main].table["cgi"]
           /\ req'[Main].resets = Append(req[Main].resets, tls)
           /\ tls' = Main
<1>t. /\ req \in [Requests -> RequestType] /\ Main \in Requests
      /\ req[Main] \in RequestType /\ tls \in Requests \cup {NULL}
  BY ReqTyped
<1>1. req' = [req EXCEPT ![Main] = GlobalSet(req[Main])] /\ tls' = Main
  BY DEF HookGlobal
<1>2. GlobalSet(req[Main]) \in RequestType
  BY <1>t, RecordTypes
<1>3. req'[Main] = GlobalSet(req[Main])
  BY <1>t, <1>1
<1> QED
  BY <1>t, <1>1, <1>2, <1>3, RecordFields, CgiFields DEF SameOrigin

-----------------------------------------------------------------------------
(* %ENV, the handles and the special variables.                            *)

\* The types after a step that makes no hash and drops none.
LEMMA TypesStay ==
    ASSUME NestingInv, req' \in [Requests -> RequestType],
           stack' \in Seq(FrameType), SameHashes(hv, hv'), stdio' = stdio,
           special' \in SpecialValues, endav' \in BOOLEAN,
           tls' \in Requests \cup {NULL}, stray' \in BOOLEAN
    PROVE  RequestTypeOK'
<1>1. hv' \in Seq(HashType) /\ Len(hv') = Len(stdio') + 1
  BY NestingTypes DEF SameHashes
<1> QED
  BY <1>1, NestingTypes DEF RequestTypeOK

\* The history variable has its type.
LEMMA StrayTyped ==
    ASSUME NestingInv, [RequestNext]_qvars
    PROVE  stray' \in BOOLEAN
<1>1. stray \in BOOLEAN
  BY DEF NestingInv, RequestTypeOK
<1>2. CASE stray' = stray
  BY <1>1, <1>2
<1>3. UNCHANGED qvars => stray' = stray
  BY DEF qvars
<1>4. Begin \/ HookGlobal \/ EarlyHandler(Main) => stray' = stray
  BY DEF Begin, HookGlobal, EarlyHandler
<1>5. \A r \in Requests : /\ ResponseModperl(r) \/ ResponseCgi(r) \/ DeclineCgi(r)
                             => stray' = stray
                          /\ DeclineModperl(r) => stray' \in BOOLEAN
  BY DEF ResponseModperl, ResponseCgi, DeclineModperl, DeclineCgi
<1>6. ReturnModperl \/ ReturnCgi \/ Populate => stray' = stray
  BY DEF ReturnModperl, ReturnCgi, Populate
<1>7. /\ ClearEnv => stray' \in BOOLEAN
      /\ \A w \in Writes : AssignEnv(w[1], w[2]) \/ AssignTable(w[1], w[2])
                          => stray' \in BOOLEAN
  BY DEF ClearEnv, AssignEnv, AssignTable
<1>8. /\ \A g \in Specials : AssignSpecial(g) => stray' = stray
      /\ \A s \in Subs : Lookup(s) \/ DestroySub(s) => stray' = stray
      /\ End => stray' \in BOOLEAN
  BY DEF AssignSpecial, Lookup, DestroySub, End
<1> QED
  BY <1>2, <1>3, <1>4, <1>5, <1>6, <1>7, <1>8 DEF RequestNext

\* Nothing has happened to the scripts if the hashes are the same and only the
\* request s is another, which runs no script.
LEMMA OneRequest ==
    ASSUME NestingInv, SameHashes(hv, hv'), stdio' = stdio, endav' => endav,
           NEW s \in Requests,
           \A p \in Requests \ {s} : req'[p] = req[p],
           \/ SameScript(req[s], req'[s])
           \/ \A k \in 1..Len(stack) : IsScript(stack[k]) => stack[k].r # s
    PROVE  ScriptsUntouched
<1> SUFFICES ASSUME NEW k \in 1..Len(stack), IsScript(stack[k])
             PROVE  SameScript(req[stack[k].r], req'[stack[k].r])
  BY DEF ScriptsUntouched
<1>1. stack[k].r \in Requests
  BY NestingTypes
<1>2. CASE stack[k].r = s
  BY <1>2
<1>3. CASE stack[k].r # s
  BY <1>1, <1>3 DEF SameScript
<1> QED
  BY <1>2, <1>3

\* Every step keeps the invariant, one case for each action.
LEMMA NestingStep ==
    ASSUME NestingInv, [RequestNext]_qvars
    PROVE  NestingInv'
<1>t. /\ stack \in Seq(FrameType) /\ special \in SpecialValues
      /\ tls \in Requests \cup {NULL} /\ Main \in Requests /\ Subs \subseteq Requests
      /\ req \in [Requests -> RequestType] /\ hv \in Seq(HashType)
      /\ endav \in BOOLEAN /\ stray' \in BOOLEAN
  BY NestingTypes, ReqTyped, StrayTyped
<1>h. SameHashes(hv, hv)
  BY <1>t DEF SameHashes
<1>e. ASSUME stack = <<>>, NEW s
      PROVE  \A k \in 1..Len(stack) : IsScript(stack[k]) => stack[k].r # s
  BY <1>e
<1>x. ASSUME NEW k \in 1..Len(stack), IsScript(stack[k])
      PROVE  req[stack[k].r].conf # NULL /\ req[stack[k].r].ran
  BY <1>x DEF NestingInv, ScriptsKept, ScriptKept
<1>1. CASE UNCHANGED qvars
  <2>1. req' = req /\ stack' = stack /\ hv' = hv /\ stdio' = stdio /\ endav' = endav
        /\ special' = special /\ tls' = tls
    BY <1>1 DEF qvars
  <2>2. RequestTypeOK'
    BY <1>t, <1>h, <2>1, TypesStay
  <2>3. ScriptsUntouched
    BY <1>h, <2>1 DEF ScriptsUntouched, SameScript
  <2> QED
    BY <2>1, <2>2, <2>3, NestingQuiet
<1>2. CASE Begin
  <2>1. stack = <<>> /\ stack' = stack /\ hv' = hv /\ stdio' = stdio /\ endav' = endav
        /\ special' = special /\ tls' = tls
    BY <1>2 DEF Begin
  <2>2. PICK l \in Confs : req' = [req EXCEPT ![Main] = Create(l, NoRequest.table, NULL)]
    BY <1>2 DEF Begin
  <2>3. req' \in [Requests -> RequestType] /\ \A p \in Requests \ {Main} : req'[p] = req[p]
    <3>1. NoRequest.table \in [Vars -> Values] /\ NULL \in Requests \cup {NULL}
      BY ReqTyped
    <3> HIDE DEF NoRequest
    <3>2. NewIs(Main, NULL)
      BY <1>t, <2>2, <3>1, NewEffect
    <3> QED
      BY <3>2 DEF NewIs
  <2>4. RequestTypeOK'
    BY <1>t, <1>h, <2>1, <2>3, TypesStay
  <2>5. ScriptsUntouched
    BY <1>t, <1>h, <1>e, <2>1, <2>3, OneRequest
  <2> QED
    BY <2>1, <2>4, <2>5, NestingQuiet
<1>3. ASSUME NEW s \in Subs, Lookup(s)
      PROVE  NestingInv'
  <2>1. stack # <<>> /\ stack' = stack /\ hv' = hv /\ stdio' = stdio /\ endav' = endav
        /\ special' = special /\ tls' = tls /\ req[s].conf = NULL
    BY <1>3 DEF Lookup, Exists
  <2>2. PICK l \in Confs : req' = [req EXCEPT ![s] = Create(l, req[Running].table, Running)]
    BY <1>3 DEF Lookup
  <2>r. s \in Requests /\ Running \in Requests
    BY <1>t, <2>1, RunningFacts
  <2>3. req' \in [Requests -> RequestType] /\ \A p \in Requests \ {s} : req'[p] = req[p]
    <3>1. req[Running].table \in [Vars -> Values]
      BY <2>r, ReqTyped
    <3>2. NewIs(s, Running)
      BY <2>2, <2>r, <3>1, NewEffect
    <3> QED
      BY <3>2 DEF NewIs
  <2>4. RequestTypeOK'
    BY <1>t, <1>h, <2>1, <2>3, TypesStay
  <2>5. \A k \in 1..Len(stack) : IsScript(stack[k]) => stack[k].r # s
    BY <1>x, <2>1
  <2>6. ScriptsUntouched
    BY <1>h, <2>1, <2>r, <2>3, <2>5, OneRequest
  <2> QED
    BY <2>1, <2>4, <2>6, NestingQuiet
<1>4. CASE HookGlobal
  <2>1. stack' = stack /\ hv' = hv /\ stdio' = stdio /\ endav' = endav
        /\ special' = special /\ tls' = Main
    BY <1>4 DEF HookGlobal
  <2>2. /\ req' \in [Requests -> RequestType]
        /\ \A p \in Requests \ {Main} : req'[p] = req[p]
        /\ SameScript(req[Main], req'[Main])
    BY <1>4, HookEffect DEF SameScript, SameOrigin
  <2>3. RequestTypeOK'
    BY <1>t, <1>h, <2>1, <2>2, TypesStay
  <2>4. ScriptsUntouched
    BY <1>t, <1>h, <2>1, <2>2, OneRequest
  <2> QED
    BY <2>1, <2>3, <2>4, NestingQuiet
<1>5. CASE EarlyHandler(Main)
  <2>1. stack = <<>> /\ stack' = <<Frame(Main, "early")>> /\ stdio' = stdio
        /\ endav' = endav /\ special' = special /\ tls' = tls
    BY <1>5 DEF EarlyHandler
  <2>2. /\ req' \in [Requests -> RequestType] /\ SameHashes(hv, hv')
        /\ \A p \in Requests \ {Main} : req'[p] = req[p]
        /\ SameScript(req[Main], req'[Main])
    BY <1>5, EarlyEffect DEF SameScript, SameOrigin, CgiSet
  <2>3. stack' = Append(stack, Frame(Main, "early"))
    BY <2>1
  <2>4. Frame(Main, "early") \in FrameType
    BY <1>t, NestingTypes
  <2>5. stack' \in Seq(FrameType)
    BY <1>t, <2>3, <2>4, AppendFacts
  <2>6. RequestTypeOK'
    BY <1>t, <2>1, <2>2, <2>5, TypesStay
  <2>7. ScriptsUntouched
    BY <1>t, <2>1, <2>2, OneRequest
  <2> QED
    BY <1>t, <2>3, <2>6, <2>7, NestingPush
<1>6. ASSUME NEW r \in Requests, ResponseModperl(r)
      PROVE  NestingInv'
  <2>1. stack' = Append(stack, Frame(r, "modperl")) /\ stdio' = stdio
        /\ endav' = endav /\ special' = special /\ tls' = tls /\ ~req[r].ran
    BY <1>6 DEF ResponseModperl, MayRespond
  <2>2. /\ req' \in [Requests -> RequestType] /\ SameHashes(hv, hv')
        /\ \A p \in Requests \ {r} : req'[p] = req[p]
    BY <1>6, ModperlEffect DEF CgiSet
  <2>3. \A k \in 1..Len(stack) : IsScript(stack[k]) => stack[k].r # r
    BY <1>x, <2>1
  <2>4. Frame(r, "modperl") \in FrameType
    BY NestingTypes
  <2>5. stack' \in Seq(FrameType)
    BY <1>t, <2>1, <2>4, AppendFacts
  <2>6. RequestTypeOK'
    BY <1>t, <2>1, <2>2, <2>5, TypesStay
  <2>7. ScriptsUntouched
    BY <2>1, <2>2, <2>3, OneRequest
  <2> QED
    BY <2>1, <2>6, <2>7, NestingPush
<1>7. ASSUME NEW r \in Requests, ResponseCgi(r)
      PROVE  NestingInv'
  <2>1. stack' = Append(stack, Frame(r, "perl-script")) /\ stdio' = Append(stdio, r)
        /\ endav' = TRUE /\ special' = special /\ ~req[r].ran /\ req[r].conf # NULL
    BY <1>7 DEF ResponseCgi, MayRespond, OverrideStd, Exists
  <2>2. /\ req' \in [Requests -> RequestType]
        /\ \A p \in Requests \ {r} : req'[p] = req[p]
        /\ req'[r].conf # NULL /\ req'[r].ran
        /\ req'[r].globals = [special |-> special, hash |-> Len(hv)]
        /\ hv' \in Seq(HashType) /\ Len(hv') = Len(hv) + 1
        /\ \A i \in 1..Len(hv) : hv'[i] = hv[i]
        /\ hv'[Len(hv) + 1].mg = r
        /\ tls' = r \/ tls' = tls
    BY <1>7, <2>1, CgiEffect DEF SameOrigin
  <2>3. RequestTypeOK'
    <3>1. Frame(r, "perl-script") \in FrameType
      BY NestingTypes
    <3>2. stack' \in Seq(FrameType)
      BY <1>t, <2>1, <3>1, AppendFacts
    <3>3. stdio' \in Seq(Requests) /\ Len(stdio') = Len(stdio) + 1
      BY <2>1, NestingTypes, AppendFacts
    <3>4. Len(hv') = Len(stdio') + 1
      BY <2>2, <3>3, NestingTypes
    <3>5. endav' \in BOOLEAN
      BY <2>1
    <3>6. special' \in SpecialValues /\ tls' \in Requests \cup {NULL}
      BY <1>t, <2>1, <2>2
    <3> QED
      BY <1>t, <2>2, <3>2, <3>3, <3>4, <3>5, <3>6 DEF RequestTypeOK
  <2> QED
    BY <2>1, <2>2, <2>3, NestingCall
<1>8. CASE ReturnModperl
  <2>1. stack # <<>> /\ ~IsScript(Last(stack)) /\ stack' = Front(stack)
        /\ req' = req /\ hv' = hv /\ stdio' = stdio /\ endav' = endav
        /\ special' = special /\ tls' = tls
    BY <1>8 DEF ReturnModperl, IsScript
  <2>2. stack' \in Seq(FrameType)
    BY <1>t, <2>1, FrontFacts
  <2>3. RequestTypeOK'
    BY <1>t, <1>h, <2>1, <2>2, TypesStay
  <2>4. ScriptsUntouched
    BY <1>h, <2>1 DEF ScriptsUntouched, SameScript
  <2> QED
    BY <2>1, <2>3, <2>4, NestingPop
<1>9. CASE ReturnCgi
  <2>1. stack # <<>> /\ IsScript(Last(stack)) /\ stack' = Front(stack)
        /\ req' = req /\ stdio' = Front(stdio) /\ endav' = FALSE /\ tls' = tls
        /\ hv' = SubSeq(hv, 1, req[Running].globals.hash)
        /\ special' = req[Running].globals.special
    BY <1>9 DEF ReturnCgi, IsScript, Restore, RestoreStd
  <2> DEFINE f == Last(stack)
  <2>2. /\ f \in FrameType /\ ScriptKept(f, req[f.r], hv, stdio)
        /\ Len(hv) = f.was.hash + 1 /\ f.was.hash \in 1..Len(hv)
    BY <2>1, TopScript
  <2>3. Running = f.r
    BY <2>1, RunningFacts
  <2>4. hv' = SubSeq(hv, 1, f.was.hash) /\ special' = f.was.special
    BY <2>1, <2>2, <2>3 DEF ScriptKept
  <2>5. special' \in SpecialValues /\ f.was.hash \in Nat
    BY <2>2, <2>4 DEF FrameType
  <2>6. hv' \in Seq(HashType) /\ Len(hv') = f.was.hash
    BY <2>2, <2>4, <2>5, SubSeqFacts, NestingTypes
  <2>7. stdio' \in Seq(Requests) /\ Len(stdio') = f.was.hash - 1
    <3>1. stdio # <<>> /\ Len(stdio) = f.was.hash
      BY <2>2, <2>5, NestingTypes
    <3> QED
      BY <2>1, <3>1, FrontFacts, NestingTypes
  <2>8. stack' \in Seq(FrameType)
    BY <1>t, <2>1, FrontFacts
  <2>9. Len(hv') = Len(stdio') + 1
    BY <2>5, <2>6, <2>7
  <2>10. endav' \in BOOLEAN
    BY <2>1
  <2>11. RequestTypeOK'
    BY <1>t, <2>1, <2>5, <2>6, <2>7, <2>8, <2>9, <2>10 DEF RequestTypeOK
  <2> QED
    BY <2>1, <2>4, <2>11, NestingReturn
<1>10. CASE Populate
  <2>1. stack' = stack /\ stdio' = stdio /\ endav' = endav
        /\ special' = special /\ tls' = tls
    BY <1>10 DEF Populate
  <2>2. /\ req' \in [Requests -> RequestType] /\ SameHashes(hv, hv')
        /\ Running \in Requests
        /\ \A p \in Requests \ {Running} : req'[p] = req[p]
        /\ SameScript(req[Running], req'[Running])
    BY <1>10, PopulateEffect DEF SameScript, SameButTable, CgiSet
  <2>3. RequestTypeOK'
    BY <1>t, <2>1, <2>2, TypesStay
  <2>4. ScriptsUntouched
    BY <2>1, <2>2, OneRequest
  <2> QED
    BY <2>1, <2>3, <2>4, NestingQuiet
<1>11. CASE Assigning
  <2>1. /\ stack' = stack /\ stdio' = stdio /\ endav' = endav
        /\ special' = special /\ tls' = tls
        /\ TablesKept /\ SameHashes(hv, hv')
    BY <1>11, AssignEffect
  <2>2. /\ req' \in [Requests -> RequestType]
        /\ \A r \in Requests : SameScript(req[r], req'[r])
    BY <2>1 DEF SameScript, SameButTable, TablesKept
  <2>3. RequestTypeOK'
    BY <1>t, <2>1, <2>2, TypesStay
  <2>4. ScriptsUntouched
    BY <2>1, <2>2, NestingTypes DEF ScriptsUntouched
  <2> QED
    BY <2>1, <2>3, <2>4, NestingQuiet
<1>12. ASSUME NEW g \in Specials, AssignSpecial(g)
       PROVE  NestingInv'
  <2>1. stack' = stack /\ stdio' = stdio /\ endav' = endav /\ req' = req /\ hv' = hv
        /\ special' = [special EXCEPT ![g] = 1] /\ tls' = tls
    BY <1>12 DEF AssignSpecial
  <2>2. special' \in SpecialValues
    BY <1>t, <2>1 DEF SpecialValues
  <2>3. RequestTypeOK'
    BY <1>t, <1>h, <2>1, <2>2, TypesStay
  <2>4. ScriptsUntouched
    BY <1>h, <2>1 DEF ScriptsUntouched, SameScript
  <2> QED
    BY <2>1, <2>3, <2>4, NestingQuiet
<1>13. ASSUME NEW s \in Subs, DestroySub(s)
       PROVE  NestingInv'
  <2>1. stack' = stack /\ stdio' = stdio /\ endav' = endav /\ special' = special
        /\ (\A i \in DOMAIN stack : stack[i].r # s) /\ s \in Requests
    BY <1>t, <1>13 DEF DestroySub
  <2>2. /\ req' \in [Requests -> RequestType] /\ SameHashes(hv, hv')
        /\ \A p \in Requests \ {s} : req'[p] = req[p]
        /\ tls' \in Requests \cup {NULL}
    BY <1>13, <2>1, GoneEffect DEF DestroySub
  <2>3. \A k \in 1..Len(stack) : IsScript(stack[k]) => stack[k].r # s
    BY <1>t, <2>1
  <2>4. RequestTypeOK'
    BY <1>t, <2>1, <2>2, TypesStay
  <2>5. ScriptsUntouched
    BY <2>1, <2>2, <2>3, OneRequest
  <2> QED
    BY <2>1, <2>4, <2>5, NestingQuiet
<1>14. CASE End
  <2>1. stack = <<>> /\ stack' = stack /\ stdio' = stdio /\ endav' = endav
        /\ special' = special
    BY <1>14 DEF End
  <2>2. /\ req' \in [Requests -> RequestType] /\ SameHashes(hv, hv')
        /\ \A p \in Requests \ {Main} : req'[p] = req[p]
        /\ tls' \in Requests \cup {NULL}
    BY <1>t, <1>14, GoneEffect DEF End
  <2>3. RequestTypeOK'
    BY <1>t, <2>1, <2>2, TypesStay
  <2>4. ScriptsUntouched
    BY <1>t, <1>e, <2>1, <2>2, OneRequest
  <2> QED
    BY <2>1, <2>3, <2>4, NestingQuiet
<1>15. ASSUME NEW r \in Requests, DeclineModperl(r) \/ DeclineCgi(r)
       PROVE  NestingInv'
  <2>1. /\ stack' = stack /\ stdio' = stdio /\ special' = special /\ ~req[r].ran
        /\ endav' \in BOOLEAN /\ (endav' => endav)
    <3>1. CASE DeclineModperl(r)
      BY <1>t, <3>1 DEF DeclineModperl, MayRespond
    <3>2. CASE DeclineCgi(r)
      <4>1. endav' = FALSE
        BY <3>2 DEF DeclineCgi
      <4> QED
        BY <3>2, <4>1 DEF DeclineCgi, MayRespond
    <3> QED
      BY <1>15, <3>1, <3>2
  <2>2. /\ req' \in [Requests -> RequestType] /\ SameHashes(hv, hv')
        /\ \A p \in Requests \ {r} : req'[p] = req[p]
        /\ tls' \in Requests \cup {NULL}
    <3>1. CASE DeclineModperl(r)
      BY <1>t, <3>1, DeclineModperlEffect DEF CgiSet, DeclineModperl
    <3>2. CASE DeclineCgi(r)
      <4>1. hv' = hv
        BY <3>2 DEF DeclineCgi
      <4> QED
        BY <1>t, <1>h, <3>2, <4>1, DeclineCgiEffect
    <3> QED
      BY <1>15, <3>1, <3>2
  <2>3. \A k \in 1..Len(stack) : IsScript(stack[k]) => stack[k].r # r
    BY <1>x, <2>1
  <2>4. RequestTypeOK'
    BY <1>t, <2>1, <2>2, TypesStay
  <2>5. ScriptsUntouched
    BY <2>1, <2>2, <2>3, OneRequest
  <2> QED
    BY <2>1, <2>4, <2>5, NestingQuiet
<1> QED
  BY <1>1, <1>2, <1>3, <1>4, <1>5, <1>6, <1>7, <1>8, <1>9, <1>10, <1>11,
     <1>12, <1>13, <1>14, <1>15
  DEF RequestNext, Assigning

\* Before the first request %ENV is the server's.
LEMMA NestingAtInit ==
    ASSUME RequestInit
    PROVE  NestingInv
<1> DEFINE e == [vars |-> [v \in Vars |-> IF v = "srv" THEN "conf" ELSE NULL],
                 mg |-> NULL]
<1>1. e \in HashType /\ e.mg = NULL
  BY DEF HashType, Values
<1>2. req = [r \in Requests |-> NoRequest] /\ stack = <<>> /\ stdio = <<>>
      /\ tls = NULL /\ hv = <<e>> /\ special = [g \in Specials |-> 0]
      /\ endav = FALSE /\ stray = FALSE
  BY DEF RequestInit
<1> HIDE DEF e
<1>3. req \in [Requests -> RequestType]
  <2>1. NoRequest \in RequestType
    BY DEF NoRequest, RequestType, Values
  <2> HIDE DEF NoRequest
  <2> QED
    BY <1>2, <2>1
<1>4. /\ hv \in Seq(HashType) /\ Len(hv) = 1 /\ hv[1].mg = NULL
      /\ stack \in Seq(FrameType) /\ Len(stack) = 0
      /\ stdio \in Seq(Requests) /\ Len(stdio) = 0
  BY <1>1, <1>2
<1>5. special \in SpecialValues
  BY <1>2 DEF SpecialValues
<1>6. endav \in BOOLEAN /\ ~endav /\ stray \in BOOLEAN
  BY <1>2
<1>7. RequestTypeOK
  BY <1>2, <1>3, <1>4, <1>5, <1>6 DEF RequestTypeOK
<1>8. HashesNested(stack, Len(hv)) /\ ScriptsKept
  BY <1>4 DEF HashesNested, ScriptsKept, HashAt
<1> QED
  BY <1>4, <1>6, <1>7, <1>8 DEF NestingInv

\* The state of the scripts tells what %ENV and the handles are tied to.
LEMMA NestingOwn ==
    ASSUME NestingInv
    PROVE  OwnEnvAndHandles
<1>t. /\ stack \in Seq(FrameType) /\ Len(stack) \in Nat
      /\ hv \in Seq(HashType) /\ Len(hv) \in Nat /\ Len(stdio) \in Nat
      /\ Len(hv) = Len(stdio) + 1 /\ stdio \in Seq(Requests)
      /\ DOMAIN stack = 1..Len(stack)
      /\ HashesNested(stack, Len(hv))
  BY NestingTypes DEF NestingInv
<1>e. Env = hv[Len(hv)]
  BY DEF Env, Last
<1>1. ASSUME NEW k \in DOMAIN stack, Innermost(k)
      PROVE  Env.mg = stack[k].r /\ stdio # <<>> /\ Last(stdio) = stack[k].r
  <2>1. k \in 1..Len(stack) /\ IsScript(stack[k])
    BY <1>t, <1>1 DEF Innermost, Script, IsScript
  <2>2. \A i \in (k + 1)..Len(stack) : ~IsScript(stack[i])
    <3> TAKE i \in (k + 1)..Len(stack)
    <3>1. i \in DOMAIN stack /\ i > k
      BY <1>t, <2>1
    <3> QED
      BY <1>1, <3>1 DEF Innermost, Script, IsScript
  <2>3. ScriptBelow(stack, k, Len(stack) + 1)
    BY <1>t, <2>1, <2>2 DEF ScriptBelow
  <2>4. Len(hv) = stack[k].was.hash + 1 /\ stack[k].was.hash \in Nat
    BY <1>t, <2>1, <2>3, NestedTop, NestingTypes
  <2>5. ScriptKept(stack[k], req[stack[k].r], hv, stdio)
    BY <2>1 DEF NestingInv, ScriptsKept
  <2>6. Env.mg = stack[k].r
    BY <1>e, <2>4, <2>5 DEF ScriptKept
  <2>7. Len(stdio) = stack[k].was.hash /\ Len(stdio) > 0
    BY <1>t, <2>4, <2>5 DEF ScriptKept
  <2>8. stdio # <<>>
    BY <1>t, <2>7
  <2>9. Last(stdio) = stack[k].r
    BY <2>5, <2>7 DEF Last, ScriptKept
  <2> QED
    BY <2>6, <2>8, <2>9
<1>2. ASSUME \A k \in DOMAIN stack : ~Script(k)
      PROVE  Env.mg = NULL /\ stdio = <<>> /\ ~endav
  <2>1. \A k \in 1..Len(stack) : ~IsScript(stack[k])
    BY <1>t, <1>2 DEF Script, IsScript
  <2>2. Len(hv) = 1
    BY <1>t, <2>1, NestedTop
  <2>3. Env.mg = NULL
    BY <1>e, <2>2 DEF NestingInv
  <2>4. stdio = <<>>
    BY <1>t, <2>2
  <2>5. ~endav
    BY <2>1 DEF NestingInv, SomeScript
  <2> QED
    BY <2>3, <2>4, <2>5
<1> QED
  BY <1>1, <1>2 DEF OwnEnvAndHandles

\* Whatever subrequests a handler makes, keeps and runs, and however deep they
\* nest: the code that runs reads and writes the %ENV and the handles of its
\* own request, and code outside of scripts those of the server.
THEOREM EnvAndHandlesOwn ==
    RequestSpec => [](RequestTypeOK /\ OwnEnvAndHandles)
<1>1. RequestInit => NestingInv
  BY NestingAtInit
<1>2. NestingInv /\ [RequestNext]_qvars => NestingInv'
  BY NestingStep
<1>3. NestingInv => RequestTypeOK /\ OwnEnvAndHandles
  BY NestingOwn DEF NestingInv
<1> QED
  BY <1>1, <1>2, <1>3, PTL DEF RequestSpec

\* The return of a script puts back what was current at its call.
LEMMA ReturnRestores ==
    ASSUME NestingInv, [RequestNext]_qvars,
           Len(stack') < Len(stack), Last(stack).kind = "perl-script"
    PROVE  Now' = Last(stack).was
<1>t. /\ stack \in Seq(FrameType) /\ Len(stack) \in Nat
  BY NestingTypes
<1>1. ReturnCgi
  <2>1. stack' # stack /\ stack # <<>>
    BY <1>t
  <2>2. ASSUME NEW f \in FrameType
        PROVE  stack' # Append(stack, f)
    BY <1>t, <2>2, AppendFacts
  <2>3. ASSUME NEW r \in Requests
        PROVE  /\ ~ResponseModperl(r) /\ ~ResponseCgi(r)
               /\ ~DeclineModperl(r) /\ ~DeclineCgi(r)
    BY <2>1, <2>2, NestingTypes
    DEF ResponseModperl, ResponseCgi, DeclineModperl, DeclineCgi
  <2>4. ~Begin /\ ~HookGlobal /\ ~EarlyHandler(Main) /\ ~ReturnModperl
        /\ ~Populate /\ ~Assigning /\ ~End
    BY <2>1, AssignEffect DEF Begin, HookGlobal, EarlyHandler, ReturnModperl,
                              Populate, End
  <2>5. (\A g \in Specials : ~AssignSpecial(g))
        /\ \A s \in Subs : ~Lookup(s) /\ ~DestroySub(s)
    BY <2>1 DEF AssignSpecial, Lookup, DestroySub
  <2>6. ~UNCHANGED qvars
    BY <2>1 DEF qvars
  <2> QED
    BY <2>3, <2>4, <2>5, <2>6 DEF RequestNext, Assigning
<1> DEFINE f == Last(stack)
<1>2. stack # <<>> /\ IsScript(f) /\ stdio' = Front(stdio)
      /\ hv' = SubSeq(hv, 1, req[Running].globals.hash)
      /\ special' = req[Running].globals.special
  BY <1>1 DEF ReturnCgi, IsScript, Restore, RestoreStd
<1>3. /\ f \in FrameType /\ ScriptKept(f, req[f.r], hv, stdio)
      /\ Len(hv) = f.was.hash + 1 /\ f.was.hash \in 1..Len(hv)
  BY <1>2, TopScript
<1>4. Running = f.r
  BY <1>2, RunningFacts
<1>5. hv' = SubSeq(hv, 1, f.was.hash) /\ special' = f.was.special
  BY <1>2, <1>3, <1>4 DEF ScriptKept
<1>6. /\ f.was.hash \in Nat /\ f.was.stdio \in Nat
      /\ f.was = [special |-> f.was.special, hash |-> f.was.hash,
                  stdio |-> f.was.stdio]
  BY <1>3 DEF FrameType
<1>7. Len(hv') = f.was.hash
  BY <1>3, <1>5, <1>6, SubSeqFacts, NestingTypes
<1>8. Len(stdio') = f.was.stdio
  <2>1. stdio # <<>> /\ Len(stdio) = f.was.hash
    BY <1>3, <1>6, NestingTypes
  <2>2. Len(stdio') = f.was.hash - 1
    BY <1>2, <2>1, FrontFacts, NestingTypes
  <2>3. f.was.stdio + 1 = f.was.hash
    BY <1>3 DEF ScriptKept
  <2> QED
    BY <1>6, <2>2, <2>3
<1>9. Now' = [special |-> special', hash |-> Len(hv'), stdio |-> Len(stdio')]
  BY DEF Now
<1> QED
  BY <1>5, <1>6, <1>7, <1>8, <1>9

\* When a script returns, @INC, $/, the hash behind %ENV and the handles are
\* those that were current when it was called, whatever it and the
\* subrequests it ran did in between.
THEOREM ScriptsRestore == RequestSpec => SpecialsRestored
<1>1. RequestInit => NestingInv
  BY NestingAtInit
<1>2. NestingInv /\ [RequestNext]_qvars => NestingInv'
  BY NestingStep
<1>3. NestingInv /\ [RequestNext]_qvars =>
        [Len(stack') < Len(stack) /\ Last(stack).kind = "perl-script"
         => Now' = Last(stack).was]_qvars
  BY ReturnRestores
<1> QED
  BY <1>1, <1>2, <1>3, PTL DEF RequestSpec, SpecialsRestored

-----------------------------------------------------------------------------
(* The line of requests.  A request is made by the handler that runs; if   *)
(* handlers let go of their subrequests, the requests that exist are those *)
(* of the handlers that run and at most one more, made by the last.  st is *)
(* a stack of handlers and Q the requests.                                 *)

OnStack(st, r) == \E k \in 1..Len(st) : st[k].r = r

\* The k-th handler runs for a request that exists, made by the one below it.
FrameOK(st, Q, k) ==
    /\ Q[st[k].r].conf # NULL
    /\ Q[st[k].r].cleanup
    /\ IF k = 1 THEN st[k].r = Main
       ELSE st[k].r \in Subs /\ Q[st[k].r].ran /\ Q[st[k].r].by = st[k - 1].r

\* No two handlers run for the same request, and no request is made twice.
Line(st, Q) ==
    /\ \A k \in 1..Len(st) : FrameOK(st, Q, k)
    /\ \A j, k \in 1..Len(st) : st[j].r = st[k].r => j = k
    /\ \A s \in Subs : Q[s].conf # NULL => OnStack(st, Q[s].by)
    /\ \A s, t \in Subs :
         Q[s].conf # NULL /\ Q[t].conf # NULL /\ Q[s].by = Q[t].by => s = t

\* What a step that neither makes nor destroys a request keeps of it.
SameLine(q, p) ==
    /\ p.conf = q.conf /\ p.by = q.by
    /\ q.ran => p.ran
    /\ q.cleanup => p.cleanup

\* A subrequest that runs no handler was made by the last handler.
LEMMA OffStack ==
    ASSUME NEW st \in Seq(FrameType), NEW Q, Line(st, Q),
           NEW s \in Subs, Q[s].conf # NULL, ~OnStack(st, s)
    PROVE  st # <<>> /\ Q[s].by = st[Len(st)].r
<1>t. Len(st) \in Nat
  OBVIOUS
<1>1. PICK k \in 1..Len(st) : st[k].r = Q[s].by
  BY DEF Line, OnStack
<1>2. CASE k = Len(st)
  BY <1>1, <1>2
<1>3. CASE k # Len(st)
  <2>1. k + 1 \in 1..Len(st) /\ k + 1 # 1 /\ (k + 1) - 1 = k
    BY <1>t, <1>3
  <2>2. FrameOK(st, Q, k + 1)
    BY <2>1 DEF Line
  <2>3. /\ st[k + 1].r \in Subs /\ Q[st[k + 1].r].conf # NULL
        /\ Q[st[k + 1].r].by = st[k].r
    BY <2>1, <2>2 DEF FrameOK
  <2>4. st[k + 1].r = s
    BY <1>1, <2>3 DEF Line
  <2> QED
    BY <2>1, <2>4 DEF OnStack
<1> QED
  BY <1>2, <1>3

\* Without a handler that runs there is no subrequest, and without the request
\* no handler.
LEMMA LineEmpty ==
    ASSUME NEW st \in Seq(FrameType), NEW Q, Line(st, Q)
    PROVE  /\ st = <<>> => \A s \in Subs : Q[s].conf = NULL
           /\ Q[Main].conf = NULL => st = <<>>
           /\ st # <<>> => st[1].r = Main
           /\ \A k \in 1..Len(st) : st[k].r \in Subs => Q[st[k].r].ran
<1>t. Len(st) \in Nat
  OBVIOUS
<1>1. st = <<>> => \A s \in Subs : Q[s].conf = NULL
  BY DEF Line, OnStack
<1>2. st # <<>> => 1 \in 1..Len(st)
  BY <1>t
<1>3. st # <<>> => st[1].r = Main /\ Q[Main].conf # NULL
  BY <1>2 DEF Line, FrameOK
<1>4. \A k \in 1..Len(st) : st[k].r \in Subs => Q[st[k].r].ran
  BY RequestAssumption DEF Line, FrameOK
<1> QED
  BY <1>1, <1>3, <1>4

\* The line after a step that neither makes nor destroys a request.
LEMMA LineSame ==
    ASSUME NEW st \in Seq(FrameType), NEW Q, NEW P, Line(st, Q),
           \A r \in Requests : SameLine(Q[r], P[r])
    PROVE  Line(st, P)
<1>1. \A s \in Subs : s \in Requests
  BY DEF Requests
<1>2. \A k \in 1..Len(st) : st[k].r \in Requests
  <2>1. \A k \in 1..Len(st) : st[k] \in FrameType
    OBVIOUS
  <2> QED
    BY <2>1 DEF FrameType
<1>3. \A k \in 1..Len(st) : FrameOK(st, P, k)
  BY <1>2 DEF Line, FrameOK, SameLine
<1> QED
  BY <1>1, <1>3 DEF Line, SameLine

\* The line after a request came in or a subrequest was made.
LEMMA LineNew ==
    ASSUME NEW st \in Seq(FrameType), NEW Q, NEW P, Line(st, Q),
           NEW s \in Requests, Q[s].conf = NULL,
           \A r \in Requests \ {s} : P[r] = Q[r],
           s \in Subs => /\ OnStack(st, P[s].by)
                         /\ \A t \in Subs : Q[t].conf # NULL => Q[t].by # P[s].by
    PROVE  Line(st, P)
<1>1. \A t \in Subs : t \in Requests
  BY DEF Requests
<1>2. \A k \in 1..Len(st) : st[k].r \in Requests
  <2>1. \A k \in 1..Len(st) : st[k] \in FrameType
    OBVIOUS
  <2> QED
    BY <2>1 DEF FrameType
<1>3. \A k \in 1..Len(st) : st[k].r # s
  BY DEF Line, FrameOK
<1>4. \A k \in 1..Len(st) : FrameOK(st, P, k)
  BY <1>2, <1>3 DEF Line, FrameOK
<1>5. \A t \in Subs : P[t].conf # NULL => OnStack(st, P[t].by)
  BY <1>1 DEF Line
<1>6. \A t, u \in Subs :
        P[t].conf # NULL /\ P[u].conf # NULL /\ P[t].by = P[u].by => t = u
  BY <1>1 DEF Line
<1> QED
  BY <1>4, <1>5, <1>6 DEF Line

\* The line after a request that runs no handler is gone.
LEMMA LineGone ==
    ASSUME NEW st \in Seq(FrameType), NEW Q, NEW P, Line(st, Q),
           NEW s \in Requests, ~OnStack(st, s), P[s].conf = NULL,
           \A r \in Requests \ {s} : P[r] = Q[r]
    PROVE  Line(st, P)
<1>1. \A t \in Subs : t \in Requests
  BY DEF Requests
<1>2. \A k \in 1..Len(st) : st[k].r \in Requests
  <2>1. \A k \in 1..Len(st) : st[k] \in FrameType
    OBVIOUS
  <2> QED
    BY <2>1 DEF FrameType
<1>3. \A k \in 1..Len(st) : st[k].r # s
  BY DEF OnStack
<1>4. \A k \in 1..Len(st) : FrameOK(st, P, k)
  BY <1>2, <1>3 DEF Line, FrameOK
<1>5. \A t \in Subs : P[t].conf # NULL => t # s /\ P[t] = Q[t]
  BY <1>1
<1> QED
  BY <1>4, <1>5 DEF Line

\* The line after a handler of a request is called.
LEMMA LinePush ==
    ASSUME NEW st \in Seq(FrameType), NEW Q, Line(st, Q),
           NEW f \in FrameType, Q[f.r].conf # NULL, Q[f.r].cleanup, ~OnStack(st, f.r),
           IF f.r = Main THEN st = <<>>
           ELSE st # <<>> /\ Q[f.r].ran /\ Q[f.r].by = st[Len(st)].r
    PROVE  Line(Append(st, f), Q)
<1> DEFINE su == Append(st, f)
<1>t. Len(st) \in Nat /\ f.r \in Requests
  BY DEF FrameType
<1>s. /\ Len(su) = Len(st) + 1
      /\ \A k \in 1..Len(st) : su[k] = st[k]
      /\ su[Len(st) + 1] = f
  BY AppendFacts
<1>k. \A k \in 1..Len(su) : k \in 1..Len(st) \/ k = Len(st) + 1
  BY <1>t, <1>s
<1>j. \A k \in 1..Len(st) : k \in 1..Len(su)
  BY <1>t, <1>s
<1> HIDE DEF su
<1>1. \A k \in 1..Len(st) : FrameOK(su, Q, k)
  <2> TAKE k \in 1..Len(st)
  <2>1. FrameOK(st, Q, k) /\ su[k] = st[k]
    BY <1>s DEF Line
  <2>2. k = 1 \/ k - 1 \in 1..Len(st)
    BY <1>t
  <2> QED
    BY <1>s, <2>1, <2>2 DEF FrameOK
<1>2. FrameOK(su, Q, Len(st) + 1)
  <2>1. CASE f.r = Main
    <3>1. Len(st) + 1 = 1
      BY <2>1
    <3> QED
      BY <1>s, <2>1, <3>1 DEF FrameOK
  <2>2. CASE f.r # Main
    <3>1. Len(st) + 1 # 1 /\ (Len(st) + 1) - 1 = Len(st) /\ Len(st) \in 1..Len(st)
      BY <1>t, <2>2
    <3>2. f.r \in Subs
      BY <1>t, <2>2 DEF Requests
    <3> QED
      BY <1>s, <2>2, <3>1, <3>2 DEF FrameOK
  <2> QED
    BY <2>1, <2>2
<1>3. \A j, k \in 1..Len(su) : su[j].r = su[k].r => j = k
  <2>1. \A k \in 1..Len(st) : st[k].r # f.r
    BY DEF OnStack
  <2> QED
    BY <1>s, <1>k, <2>1 DEF Line
<1>4. \A r : OnStack(st, r) => OnStack(su, r)
  BY <1>s, <1>j DEF OnStack
<1>5. Line(su, Q)
  BY <1>k, <1>1, <1>2, <1>3, <1>4 DEF Line
<1> QED
  BY <1>5 DEF su

\* The line after a handler returns that has let go of its subrequests.
LEMMA LinePop ==
    ASSUME NEW st \in Seq(FrameType), NEW Q, Line(st, Q), st # <<>>,
           \A s \in Subs : Q[s].conf # NULL => Q[s].by # Last(st).r
    PROVE  /\ Line(Front(st), Q)
           /\ \A s \in Subs : Q[s].conf # NULL => OnStack(st, s)
<1> DEFINE su == Front(st)
<1>s. /\ Len(su) = Len(st) - 1 /\ Len(st) \in Nat /\ Len(st) > 0
      /\ \A k \in 1..(Len(st) - 1) : su[k] = st[k]
      /\ Last(st) = st[Len(st)]
  BY FrontFacts
<1>k. \A k \in 1..Len(su) : k \in 1..Len(st) /\ su[k] = st[k]
  BY <1>s
<1>j. \A k \in 1..Len(st) : k \in 1..Len(su) \/ k = Len(st)
  BY <1>s
<1> HIDE DEF su
<1>1. \A k \in 1..Len(su) : FrameOK(su, Q, k)
  <2> TAKE k \in 1..Len(su)
  <2>1. FrameOK(st, Q, k) /\ su[k] = st[k]
    BY <1>k DEF Line
  <2>2. k = 1 \/ k - 1 \in 1..Len(su)
    BY <1>s
  <2> QED
    BY <1>k, <2>1, <2>2 DEF FrameOK
<1>2. \A s \in Subs : Q[s].conf # NULL => OnStack(su, Q[s].by)
  BY <1>s, <1>k, <1>j DEF Line, OnStack
<1>3. Line(su, Q)
  BY <1>k, <1>1, <1>2 DEF Line
<1>4. \A s \in Subs : Q[s].conf # NULL => OnStack(st, s)
  BY <1>s, OffStack
<1> QED
  BY <1>3, <1>4 DEF su

-----------------------------------------------------------------------------
(* The global request.  t is MP_tls_request_rec.                           *)

\* The request that is put back when s is destroyed runs a handler below s.
ResetOK(st, Q, s) ==
    LET h == Head(Q[s].resets) IN
    \/ h = NULL
    \/ \E k \in 1..Len(st) : /\ st[k].r = h /\ Q[h].resets # <<>>
                             /\ \A j \in 1..Len(st) : st[j].r = s => k < j

\* The global request exists and puts back another; the first one NULL.
Tls(t, st, Q) ==
    /\ t # NULL => t \in Requests /\ Q[t].conf # NULL /\ Q[t].resets # <<>>
    /\ Q[Main].conf # NULL /\ Q[Main].resets # <<>> => Head(Q[Main].resets) = NULL
    /\ \A s \in Subs : Q[s].conf # NULL /\ Q[s].resets # <<>> => ResetOK(st, Q, s)
    /\ \A s \in Subs : Q[s].conf # NULL /\ ~Q[s].ran => Q[s].resets = <<>>

\* A step that is not about the global request.
LEMMA TlsSame ==
    ASSUME NEW t, NEW st \in Seq(FrameType), NEW Q, NEW P, Tls(t, st, Q),
           \A r \in Requests : SameLine(Q[r], P[r]) /\ P[r].resets = Q[r].resets
    PROVE  Tls(t, st, P)
<1>1. \A s \in Subs : s \in Requests
  BY DEF Requests
<1>2. Main \in Requests
  BY DEF Requests
<1>3. \A k \in 1..Len(st) : st[k].r \in Requests
  <2>1. \A k \in 1..Len(st) : st[k] \in FrameType
    OBVIOUS
  <2> QED
    BY <2>1 DEF FrameType
<1>4. ASSUME NEW s \in Subs, Q[s].conf # NULL, Q[s].resets # <<>>
      PROVE  ResetOK(st, P, s)
  <2>1. ResetOK(st, Q, s) /\ P[s].resets = Q[s].resets
    BY <1>1, <1>4 DEF Tls
  <2> QED
    BY <1>3, <2>1 DEF ResetOK
<1> QED
  BY <1>1, <1>2, <1>4 DEF Tls, SameLine

\* A request comes in or is made.
LEMMA TlsNew ==
    ASSUME NEW t, NEW st \in Seq(FrameType), NEW Q, NEW P, Tls(t, st, Q), Line(st, Q),
           NEW s \in Requests, Q[s].conf = NULL, P[s].resets = <<>>,
           \A r \in Requests \ {s} : P[r] = Q[r]
    PROVE  Tls(t, st, P)
<1>1. \A u \in Subs : u \in Requests
  BY DEF Requests
<1>2. Main \in Requests
  BY DEF Requests
<1>3. \A k \in 1..Len(st) : st[k].r \in Requests /\ st[k].r # s
  <2>1. \A k \in 1..Len(st) : st[k] \in FrameType
    OBVIOUS
  <2> QED
    BY <2>1 DEF FrameType, Line, FrameOK
<1>4. ASSUME NEW u \in Subs, u # s, Q[u].conf # NULL, Q[u].resets # <<>>
      PROVE  ResetOK(st, P, u)
  <2>1. ResetOK(st, Q, u) /\ P[u] = Q[u]
    BY <1>1, <1>4 DEF Tls
  <2> QED
    BY <1>3, <2>1 DEF ResetOK
<1>5. t # NULL => t # s
  BY DEF Tls
<1> QED
  BY <1>1, <1>2, <1>4, <1>5 DEF Tls

\* A handler is called.
LEMMA TlsPush ==
    ASSUME NEW t, NEW st \in Seq(FrameType), NEW Q, Tls(t, st, Q),
           NEW f \in FrameType
    PROVE  Tls(t, Append(st, f), Q)
<1> DEFINE su == Append(st, f)
<1>s. /\ Len(st) \in Nat /\ Len(su) = Len(st) + 1
      /\ \A k \in 1..Len(st) : su[k] = st[k]
  BY AppendFacts
<1>k. \A k \in 1..Len(su) : k \in 1..Len(st) \/ k = Len(st) + 1
  BY <1>s
<1>j. \A k \in 1..Len(st) : k \in 1..Len(su) /\ k < Len(st) + 1
  BY <1>s
<1> HIDE DEF su
<1>1. ASSUME NEW s \in Subs, ResetOK(st, Q, s)
      PROVE  ResetOK(su, Q, s)
  BY <1>s, <1>k, <1>j, <1>1 DEF ResetOK
<1>2. Tls(t, su, Q)
  BY <1>1 DEF Tls
<1> QED
  BY <1>2 DEF su

\* A handler returns when all subrequests that exist run handlers.
LEMMA TlsPop ==
    ASSUME NEW t, NEW st \in Seq(FrameType), NEW Q, Tls(t, st, Q), st # <<>>,
           \A s \in Subs : Q[s].conf # NULL => OnStack(st, s)
    PROVE  Tls(t, Front(st), Q)
<1> DEFINE su == Front(st)
<1>s. /\ Len(su) = Len(st) - 1 /\ Len(st) \in Nat /\ Len(st) > 0
      /\ \A k \in 1..(Len(st) - 1) : su[k] = st[k]
  BY FrontFacts
<1>k. \A k \in 1..Len(su) : k \in 1..Len(st) /\ su[k] = st[k]
  BY <1>s
<1>j. \A j, k \in 1..Len(st) : k < j => k \in 1..Len(su)
  BY <1>s
<1> HIDE DEF su
<1>1. ASSUME NEW s \in Subs, Q[s].conf # NULL, ResetOK(st, Q, s)
      PROVE  ResetOK(su, Q, s)
  <2>1. PICK j \in 1..Len(st) : st[j].r = s
    BY <1>1 DEF OnStack
  <2> QED
    BY <1>k, <1>j, <1>1, <2>1 DEF ResetOK
<1>2. Tls(t, su, Q)
  BY <1>1 DEF Tls
<1> QED
  BY <1>2 DEF su

\* modperl_global_request_set for a request that runs no handler yet.
LEMMA TlsSet ==
    ASSUME NEW t, NEW st \in Seq(FrameType), NEW Q, NEW P, Tls(t, st, Q), Line(st, Q),
           NEW r \in Requests, Q[r].conf # NULL, ~OnStack(st, r),
           Q[r].resets \in Seq(Requests \cup {NULL}), t \in Requests \cup {NULL},
           \A p \in Requests \ {r} : P[p] = Q[p],
           P[r].conf = Q[r].conf, P[r].resets = Append(Q[r].resets, t),
           IF r = Main THEN st = <<>> ELSE ~Q[r].ran /\ P[r].ran
    PROVE  Tls(r, st, P)
<1>n. r # NULL
  BY RequestAssumption
<1>0. \A u \in Subs : u \in Requests /\ u # Main
  BY RequestAssumption DEF Requests
<1>m. Main \in Requests /\ (r # Main => r \in Subs)
  BY DEF Requests
<1>1. P[r].resets # <<>> /\ (Q[r].resets # <<>> => Head(P[r].resets) = Head(Q[r].resets))
      /\ (Q[r].resets = <<>> => Head(P[r].resets) = t)
  OBVIOUS
<1>k. \A k \in 1..Len(st) : st[k].r \in Requests /\ st[k].r # r
  <2>1. \A k \in 1..Len(st) : st[k] \in FrameType
    OBVIOUS
  <2> QED
    BY <2>1 DEF FrameType, OnStack
<1>2. ASSUME NEW u \in Subs, u # r, Q[u].conf # NULL, Q[u].resets # <<>>
      PROVE  ResetOK(st, P, u)
  <2>1. ResetOK(st, Q, u) /\ P[u] = Q[u]
    BY <1>0, <1>2 DEF Tls
  <2> QED
    BY <1>k, <2>1 DEF ResetOK
<1>3. CASE r = Main
  <2>1. \A s \in Subs : Q[s].conf = NULL
    BY <1>3, LineEmpty
  <2>2. Q[Main].resets = <<>> => t = NULL
    <3>1. t # NULL => t \notin Subs
      BY <2>1 DEF Tls
    <3>2. t # NULL => t = Main
      BY <3>1 DEF Requests
    <3> QED
      BY <3>2 DEF Tls
  <2>3. Head(P[Main].resets) = NULL
    BY <1>1, <1>3, <2>2 DEF Tls
  <2>4. \A s \in Subs : P[s].conf = NULL
    BY <1>0, <1>3, <2>1
  <2> QED
    BY <1>1, <1>3, <2>3, <2>4 DEF Tls
<1>4. CASE r # Main
  <2>1. r \in Subs /\ Q[r].resets = <<>> /\ P[r].ran
    BY <1>4, <1>m DEF Tls
  <2>2. Head(P[r].resets) = t
    BY <1>1, <2>1
  <2>3. ResetOK(st, P, r)
    <3>1. CASE t = NULL
      BY <2>2, <3>1 DEF ResetOK
    <3>2. CASE t # NULL
      <4>1. t \in Requests /\ Q[t].conf # NULL /\ Q[t].resets # <<>> /\ t # r
        BY <2>1, <3>2 DEF Tls
      <4>2. st # <<>> /\ Q[r].by = st[Len(st)].r
        BY <2>1, OffStack
      <4>3. OnStack(st, t)
        <5>1. CASE t = Main
          <6>1. st[1].r = Main /\ 1 \in 1..Len(st)
            BY <4>2, LineEmpty
          <6> QED
            BY <5>1, <6>1 DEF OnStack
        <5>2. CASE t # Main
          <6>1. t \in Subs
            BY <4>1, <5>2 DEF Requests
          <6>2. ~OnStack(st, t) => Q[t].by = Q[r].by
            BY <4>1, <4>2, <6>1, OffStack
          <6> QED
            BY <2>1, <4>1, <6>1, <6>2 DEF Line
        <5> QED
          BY <5>1, <5>2
      <4>4. PICK k \in 1..Len(st) : st[k].r = t
        BY <4>3 DEF OnStack
      <4>5. P[t].resets # <<>>
        BY <4>1
      <4> QED
        BY <1>k, <2>2, <4>4, <4>5 DEF ResetOK
    <3> QED
      BY <3>1, <3>2
  <2>4. P[Main] = Q[Main]
    BY <1>4, <1>m
  <2>5. \A s \in Subs : s # r => P[s] = Q[s]
    BY <1>0
  <2> QED
    BY <1>n, <1>1, <1>2, <2>1, <2>3, <2>4, <2>5 DEF Tls
<1> QED
  BY <1>3, <1>4

\* modperl_tls_reset_cleanup for a request that goes away.
LEMMA TlsGone ==
    ASSUME NEW t, NEW u, NEW st \in Seq(FrameType), NEW Q, NEW P, Tls(t, st, Q), Line(st, Q),
           NEW s \in Requests, Q[s].conf # NULL, ~OnStack(st, s),
           \A r \in Requests \ {s} : P[r] = Q[r],
           P[s].conf = NULL,
           Q[s].resets = <<>> => u = t,
           Q[s].resets # <<>> => u = Head(Q[s].resets)
    PROVE  Tls(u, st, P)
<1>0. \A x \in Subs : x \in Requests
  BY DEF Requests
<1>m. Main \in Requests /\ (s # Main => s \in Subs)
  BY DEF Requests
<1>k. \A k \in 1..Len(st) : st[k].r \in Requests /\ st[k].r # s
  <2>1. \A k \in 1..Len(st) : st[k] \in FrameType
    OBVIOUS
  <2> QED
    BY <2>1 DEF FrameType, OnStack
<1>1. ASSUME NEW x \in Subs, x # s, Q[x].conf # NULL, Q[x].resets # <<>>
      PROVE  ResetOK(st, P, x)
  <2>1. ResetOK(st, Q, x) /\ P[x] = Q[x]
    BY <1>0, <1>1 DEF Tls
  <2> QED
    BY <1>k, <2>1 DEF ResetOK
<1>2. u # NULL => u \in Requests /\ P[u].conf # NULL /\ P[u].resets # <<>>
  <2>1. CASE Q[s].resets = <<>>
    BY <2>1 DEF Tls
  <2>2. CASE Q[s].resets # <<>>
    <3>1. CASE s = Main
      BY <2>2, <3>1 DEF Tls
    <3>2. CASE s # Main
      <4>1. ResetOK(st, Q, s)
        BY <1>m, <2>2, <3>2 DEF Tls
      <4>2. CASE u # NULL
        <5>1. PICK k \in 1..Len(st) : st[k].r = u /\ Q[u].resets # <<>>
          BY <2>2, <4>1, <4>2 DEF ResetOK
        <5>2. Q[u].conf # NULL
          BY <5>1 DEF Line, FrameOK
        <5> QED
          BY <1>k, <5>1, <5>2
      <4> QED
        BY <4>2
    <3> QED
      BY <3>1, <3>2
  <2> QED
    BY <2>1, <2>2
<1>3. \A x \in Subs : P[x].conf # NULL => x # s /\ P[x] = Q[x]
  BY <1>0
<1>4. P[Main].conf # NULL => P[Main] = Q[Main]
  BY <1>m
<1> QED
  BY <1>1, <1>2, <1>3, <1>4 DEF Tls

-----------------------------------------------------------------------------
(* The CGI variables.  c is the CGI variable of the first hash, the one    *)
(* that %ENV is outside of scripts; z tells that it may be left there.     *)

\* What a request has in its table once it has its CGI variables.
OwnCgi(Q) ==
    \A r \in Requests : Q[r].setup => Q[r].table["cgi"] \in {r, "set", NULL}

\* The end of the request takes the CGI variable out of %ENV.
Cleans(q) ==
    q.conf # NULL /\ q.setup /\ q.cleanup /\ q.table["cgi"] # NULL

\* And finds the first hash then.
MayOwn(st, Q, r) ==
    /\ Cleans(Q[r])
    /\ \/ r = Main
       \/ \A k \in 1..Len(st) :
            st[k].r = Q[r].by => \A j \in 1..k : ~IsScript(st[j])

Clean(z, c, st, Q) ==
    /\ OwnCgi(Q)
    /\ ~z => (c \in Requests => MayOwn(st, Q, c))

\* A step of one request that runs or is going to.
LEMMA CleanStep ==
    ASSUME NEW z, NEW c, NEW st, NEW Q, NEW P, Clean(z, c, st, Q),
           NEW s \in Requests, CgiKept(s, Q[s], P[s]),
           P[s].conf = Q[s].conf, P[s].by = Q[s].by, Q[s].cleanup => P[s].cleanup,
           \A r \in Requests \ {s} : P[r] = Q[r]
    PROVE  Clean(z, c, st, P)
<1>1. OwnCgi(P)
  BY DEF Clean, OwnCgi, CgiKept
<1>2. \A r \in Requests : P[r].by = Q[r].by /\ (Cleans(Q[r]) => Cleans(P[r]))
  BY DEF Cleans, CgiKept
<1> QED
  BY <1>1, <1>2 DEF Clean, MayOwn

\* A handler outside of scripts gets the CGI variables.
LEMMA CleanOwn ==
    ASSUME NEW z, NEW d, NEW st \in Seq(FrameType), NEW P, OwnCgi(P),
           NEW r \in Requests, P[r].conf # NULL, P[r].setup,
           d = P[r].table["cgi"], d # NULL, ~z => P[r].cleanup,
           \A k \in 1..Len(st) : ~IsScript(st[k])
    PROVE  Clean(z, d, st, P)
<1>1. Len(st) \in Nat
  OBVIOUS
<1>2. \A k \in 1..Len(st), j \in Nat : j \in 1..k => j \in 1..Len(st)
  BY <1>1
<1>3. d \in Requests => d = r
  BY RequestAssumption DEF OwnCgi
<1>4. ~z => Cleans(P[r])
  BY DEF Cleans
<1> QED
  BY <1>2, <1>3, <1>4 DEF Clean, MayOwn

\* A request comes in or is made.
LEMMA CleanNew ==
    ASSUME NEW z, NEW c, NEW st, NEW Q, NEW P, Clean(z, c, st, Q),
           NEW s \in Requests, Q[s].conf = NULL, ~P[s].setup,
           \A r \in Requests \ {s} : P[r] = Q[r]
    PROVE  Clean(z, c, st, P)
<1>1. OwnCgi(P)
  BY DEF OwnCgi, Clean
<1>2. \A r \in Requests : MayOwn(st, Q, r) => MayOwn(st, P, r)
  BY DEF MayOwn, Cleans
<1> QED
  BY <1>1, <1>2 DEF Clean

\* A handler is called.
LEMMA CleanPush ==
    ASSUME NEW z, NEW c, NEW st \in Seq(FrameType), NEW Q, Clean(z, c, st, Q),
           Line(st, Q), NEW f \in FrameType, ~OnStack(st, f.r)
    PROVE  Clean(z, c, Append(st, f), Q)
<1> DEFINE su == Append(st, f)
<1>s. /\ Len(st) \in Nat /\ Len(su) = Len(st) + 1
      /\ \A k \in 1..Len(st) : su[k] = st[k]
      /\ su[Len(st) + 1] = f
  BY AppendFacts
<1>k. \A k \in 1..Len(su) : k \in 1..Len(st) \/ k = Len(st) + 1
  BY <1>s
<1>j. \A k \in 1..Len(st) : \A j \in 1..k : j \in 1..Len(st)
  BY <1>s
<1> HIDE DEF su
<1>1. ASSUME NEW r \in Requests, MayOwn(st, Q, r)
      PROVE  MayOwn(su, Q, r)
  <2>1. CASE r = Main
    BY <1>1, <2>1 DEF MayOwn
  <2>2. CASE r # Main
    <3>1. OnStack(st, Q[r].by)
      BY <1>1, <2>2 DEF Line, MayOwn, Cleans, Requests
    <3>2. Q[r].by # f.r
      BY <3>1
    <3>3. ASSUME NEW k \in 1..Len(su), su[k].r = Q[r].by, NEW j \in 1..k
          PROVE  ~IsScript(su[j])
      <4>1. k \in 1..Len(st)
        BY <1>k, <1>s, <3>2, <3>3
      <4>2. st[k].r = Q[r].by /\ j \in 1..Len(st)
        BY <1>s, <1>j, <3>3, <4>1
      <4>3. ~IsScript(st[j])
        BY <1>1, <2>2, <3>3, <4>1, <4>2 DEF MayOwn
      <4> QED
        BY <1>s, <4>2, <4>3
    <3> QED
      BY <1>1, <3>3 DEF MayOwn
  <2> QED
    BY <2>1, <2>2
<1>2. Clean(z, c, su, Q)
  BY <1>1 DEF Clean
<1> QED
  BY <1>2 DEF su

\* A handler returns.
LEMMA CleanPop ==
    ASSUME NEW z, NEW c, NEW st \in Seq(FrameType), NEW Q, Clean(z, c, st, Q), st # <<>>
    PROVE  Clean(z, c, Front(st), Q)
<1> DEFINE su == Front(st)
<1>s. /\ Len(su) = Len(st) - 1 /\ Len(st) \in Nat /\ Len(st) > 0
      /\ \A k \in 1..(Len(st) - 1) : su[k] = st[k]
  BY FrontFacts
<1>k. \A k \in 1..Len(su) : k \in 1..Len(st) /\ su[k] = st[k]
  BY <1>s
<1>j. \A k \in 1..Len(su) : \A j \in 1..k : j \in 1..Len(su)
  BY <1>s
<1> HIDE DEF su
<1>1. \A r \in Requests : MayOwn(st, Q, r) => MayOwn(su, Q, r)
  BY <1>k, <1>j DEF MayOwn
<1>2. Clean(z, c, su, Q)
  BY <1>1 DEF Clean
<1> QED
  BY <1>2 DEF su

\* What the end of the request s does to the tables and the first hash, which
\* holds c before it and d after it.
Goes(s, z, y, c, d, st, Q, P) ==
    /\ ~P[s].setup
    /\ \A r \in Requests \ {s} : P[r] = Q[r]
    /\ IF s = Main THEN st = <<>>
       ELSE st # <<>> /\ Q[s].by = st[Len(st)].r
    /\ d = c \/ d = NULL
    /\ Cleans(Q[s]) /\ (\A k \in 1..Len(st) : ~IsScript(st[k])) => d = NULL
    /\ ~y => ~z \/ d \notin Requests

\* A request goes away, and the first hash may then be clean whatever happened.
LEMMA CleanGone ==
    ASSUME NEW z, NEW y, NEW c, NEW d, NEW st \in Seq(FrameType), NEW Q, NEW P,
           NEW s \in Requests, Clean(z, c, st, Q), Goes(s, z, y, c, d, st, Q, P)
    PROVE  Clean(y, d, st, P)
<1>t. Len(st) \in Nat
  OBVIOUS
<1>n. NULL \notin Requests
  BY RequestAssumption
<1>1. OwnCgi(P)
  BY DEF OwnCgi, Clean, Goes
<1>2. ASSUME MayOwn(st, Q, s)
      PROVE  d = NULL
  <2>1. CASE s = Main
    BY <1>2, <2>1 DEF MayOwn, Goes
  <2>2. CASE s # Main
    <3>1. Len(st) \in 1..Len(st) /\ st[Len(st)].r = Q[s].by
      BY <1>t, <2>2 DEF Goes
    <3> QED
      BY <1>2, <2>2, <3>1 DEF MayOwn, Goes
  <2> QED
    BY <2>1, <2>2
<1>3. ASSUME ~y, d \in Requests
      PROVE  MayOwn(st, P, d)
  <2>1. d = c /\ MayOwn(st, Q, d)
    BY <1>n, <1>3 DEF Clean, Goes
  <2>2. d # s
    BY <1>2, <1>n, <1>3, <2>1
  <2> QED
    BY <1>3, <2>1, <2>2 DEF MayOwn, Goes
<1> QED
  BY <1>1, <1>3 DEF Clean

-----------------------------------------------------------------------------
(* Handlers that let go of their subrequests.                              *)

FirstCgi == hv[1].vars["cgi"]

LexicalInv ==
    /\ NestingInv
    /\ Line(stack, req)
    /\ Tls(tls, stack, req)
    /\ Clean(stray, FirstCgi, stack, req)

\* There is one hash as long as no script runs.
LEMMA OneHash ==
    ASSUME NestingInv
    PROVE  Len(hv) = 1 <=> \A k \in 1..Len(stack) : ~IsScript(stack[k])
<1>1. HashesNested(stack, Len(hv)) /\ stack \in Seq(FrameType) /\ Len(hv) \in Nat
  BY NestingTypes DEF NestingInv
<1>2. (\A k \in 1..Len(stack) : ~IsScript(stack[k])) => Len(hv) = 1
  BY <1>1, NestedTop
<1>3. ASSUME NEW k \in 1..Len(stack), IsScript(stack[k])
      PROVE  Len(hv) # 1
  <2>1. ScriptKept(stack[k], req[stack[k].r], hv, stdio)
    BY <1>3 DEF NestingInv, ScriptsKept
  <2>2. stack[k].was.hash \in Nat
    BY NestingTypes
  <2> QED
    BY <1>1, <2>1, <2>2 DEF ScriptKept
<1> QED
  BY <1>2, <1>3

\* A change of the current hash is one of the first only outside of scripts.
LEMMA FirstHash ==
    ASSUME NestingInv, SameHashes(hv, hv')
    PROVE  \/ FirstCgi' = FirstCgi
           \/ /\ \A k \in 1..Len(stack) : ~IsScript(stack[k])
              /\ FirstCgi' = hv'[Len(hv)].vars["cgi"]
              /\ FirstCgi = hv[Len(hv)].vars["cgi"]
<1>1. Len(hv) \in Nat /\ Len(hv) > 0
  <2>1. Len(hv) \in Nat /\ Len(stdio) \in Nat /\ Len(hv) = Len(stdio) + 1
    BY NestingTypes
  <2> QED
    BY <2>1
<1>2. CASE Len(hv) = 1
  BY <1>2, OneHash DEF FirstCgi
<1>3. CASE Len(hv) # 1
  <2>0. \A n \in Nat : n > 0 /\ n # 1 => 1 \in 1..(n - 1)
    OBVIOUS
  <2>1. 1 \in 1..(Len(hv) - 1)
    BY <1>1, <1>3, <2>0
  <2> QED
    BY <2>1 DEF SameHashes, FirstCgi
<1> QED
  BY <1>2, <1>3

\* A response handler is called for a request that runs no handler.
LEMMA MayRespondFacts ==
    ASSUME LexicalInv, NEW r \in Requests, NEW kind, MayRespond(r, kind)
    PROVE  /\ req[r].conf # NULL /\ ~req[r].ran /\ ~OnStack(stack, r)
           /\ IF r = Main THEN stack = <<>>
              ELSE r \in Subs /\ stack # <<>> /\ req[r].by = stack[Len(stack)].r
<1>t. stack \in Seq(FrameType)
  BY NestingTypes DEF LexicalInv
<1>1. req[r].conf # NULL /\ ~req[r].ran
      /\ IF r = Main THEN stack = <<>> ELSE req[r].by = Running
  BY DEF MayRespond, Exists
<1>2. CASE r = Main
  BY <1>1, <1>2 DEF OnStack
<1>3. CASE r # Main
  <2>1. r \in Subs
    BY <1>3 DEF Requests
  <2>2. stack # <<>>
    BY <1>t, <1>1, <2>1, LineEmpty DEF LexicalInv
  <2>3. Running = stack[Len(stack)].r
    BY <2>2, RunningFacts DEF LexicalInv
  <2>4. ~OnStack(stack, r)
    BY <1>t, <1>1, <2>1, LineEmpty DEF LexicalInv, OnStack
  <2> QED
    BY <1>1, <1>3, <2>1, <2>2, <2>3, <2>4
<1> QED
  BY <1>2, <1>3

\* With Lexical, a handler that returns or makes a subrequest has none.
LEMMA LetGoFacts ==
    ASSUME Lexical, NestingInv, stack # <<>>, LetGo(Running)
    PROVE  \A s \in Subs : req[s].conf # NULL => req[s].by # Last(stack).r
BY RunningFacts DEF LetGo, Subrequests, Exists

\* Every step keeps the line of requests, the global request and the owner of
\* the CGI variables.
LEMMA LexicalStep ==
    ASSUME Lexical, LexicalInv, [RequestNext]_qvars
    PROVE  LexicalInv'
<1>n. NestingInv /\ NestingInv'
  BY NestingStep DEF LexicalInv
<1>i. /\ Line(stack, req) /\ Tls(tls, stack, req)
      /\ Clean(stray, FirstCgi, stack, req)
  BY DEF LexicalInv
<1>t. /\ stack \in Seq(FrameType) /\ stack' \in Seq(FrameType)
      /\ Main \in Requests /\ Subs \subseteq Requests /\ Main \notin Subs
      /\ tls \in Requests \cup {NULL}
      /\ hv \in Seq(HashType) /\ hv # <<>>
      /\ \A r \in Requests : req[r].resets \in Seq(Requests \cup {NULL})
  <2>1. \A r \in Requests : req[r].resets \in Seq(Requests \cup {NULL})
    BY <1>n, ReqTyped DEF RequestType
  <2>2. stack' \in Seq(FrameType)
    BY <1>n DEF NestingInv, RequestTypeOK
  <2> QED
    BY <1>n, <2>1, <2>2, NestingTypes, ReqTyped, RequestAssumption
<1>q. SUFFICES Line(stack', req') /\ Tls(tls', stack', req')
               /\ Clean(stray', FirstCgi', stack', req')
  BY <1>n DEF LexicalInv
<1>f. ASSUME hv' = hv
      PROVE  FirstCgi' = FirstCgi
  BY <1>f DEF FirstCgi
<1>1. CASE UNCHANGED qvars \/ \E g \in Specials : AssignSpecial(g)
  <2>1. req' = req /\ stack' = stack /\ hv' = hv /\ tls' = tls /\ stray' = stray
    BY <1>1 DEF qvars, AssignSpecial
  <2> QED
    BY <1>i, <1>f, <2>1
<1>2. CASE Begin
  <2>1. stack' = stack /\ hv' = hv /\ tls' = tls /\ req[Main].conf = NULL
        /\ stray' = stray
    BY <1>2 DEF Begin, Exists
  <2>2. PICK l \in Confs : req' = [req EXCEPT ![Main] = Create(l, NoRequest.table, NULL)]
    BY <1>2 DEF Begin
  <2>3. /\ \A p \in Requests \ {Main} : req'[p] = req[p]
        /\ ~req'[Main].setup /\ req'[Main].resets = <<>>
    <3>1. NoRequest.table \in [Vars -> Values] /\ NULL \in Requests \cup {NULL}
      BY <1>n, ReqTyped
    <3> HIDE DEF NoRequest
    <3>2. NewIs(Main, NULL)
      BY <1>n, <1>t, <2>2, <3>1, NewEffect
    <3> QED
      BY <3>2 DEF NewIs
  <2>4. Line(stack, req')
    BY <1>i, <1>t, <2>1, <2>3, LineNew
  <2>5. Tls(tls, stack, req')
    BY <1>i, <1>t, <2>1, <2>3, TlsNew
  <2>6. Clean(stray, FirstCgi, stack, req')
    BY <1>i, <1>t, <2>1, <2>3, CleanNew
  <2> QED
    BY <1>f, <2>1, <2>4, <2>5, <2>6
<1>3. ASSUME NEW s \in Subs, Lookup(s)
      PROVE  Line(stack', req') /\ Tls(tls', stack', req')
             /\ Clean(stray', FirstCgi', stack', req')
  <2>1. stack # <<>> /\ stack' = stack /\ hv' = hv /\ tls' = tls /\ req[s].conf = NULL
        /\ LetGo(Running) /\ stray' = stray
    BY <1>3 DEF Lookup, Exists
  <2>2. PICK l \in Confs : req' = [req EXCEPT ![s] = Create(l, req[Running].table, Running)]
    BY <1>3 DEF Lookup
  <2>r. /\ s \in Requests /\ Running \in Requests /\ Running = stack[Len(stack)].r
        /\ Running = Last(stack).r /\ Len(stack) \in 1..Len(stack)
    BY <1>n, <1>t, <2>1, RunningFacts
  <2>3. /\ \A p \in Requests \ {s} : req'[p] = req[p]
        /\ ~req'[s].setup /\ req'[s].resets = <<>> /\ req'[s].by = Running
    <3>1. /\ Running \in Requests \cup {NULL} /\ s \in Requests /\ l \in Confs
          /\ req[Running].table \in [Vars -> Values]
      BY <1>n, <2>r, ReqTyped
    <3>2. NewIs(s, Running)
      BY ONLY <1>n, <2>2, <3>1, NewEffect
    <3> QED
      BY <3>2 DEF NewIs
  <2>4. Line(stack, req')
    <3>1. OnStack(stack, req'[s].by)
      BY <2>r, <2>3 DEF OnStack
    <3>2. \A t \in Subs : req[t].conf # NULL => req[t].by # req'[s].by
      BY <1>n, <2>1, <2>r, <2>3, LetGoFacts
    <3> QED
      BY <1>i, <1>t, <2>1, <2>r, <2>3, <3>1, <3>2, LineNew
  <2>5. Tls(tls, stack, req')
    BY <1>i, <1>t, <2>1, <2>r, <2>3, TlsNew
  <2>6. Clean(stray, FirstCgi, stack, req')
    BY <1>i, <1>t, <2>1, <2>r, <2>3, CleanNew
  <2> QED
    BY <1>f, <2>1, <2>4, <2>5, <2>6
<1>4. CASE HookGlobal
  <2>1. stack = <<>> /\ stack' = stack /\ hv' = hv /\ req[Main].conf # NULL
        /\ stray' = stray
    BY <1>4 DEF HookGlobal, Exists
  <2>2. /\ \A p \in Requests \ {Main} : req'[p] = req[p]
        /\ SameOrigin(req[Main], req'[Main])
        /\ req'[Main].ran = req[Main].ran
        /\ req'[Main].cleanup = req[Main].cleanup
        /\ req'[Main].setup = req[Main].setup
        /\ req'[Main].table["cgi"] = req[Main].table["cgi"]
        /\ req'[Main].resets = Append(req[Main].resets, tls)
        /\ tls' = Main
    BY <1>n, <1>4, HookEffect
  <2>3. \A r \in Requests : SameLine(req[r], req'[r])
    BY <2>2 DEF SameLine, SameOrigin
  <2>4. Line(stack, req')
    BY <1>i, <1>t, <2>3, LineSame
  <2>5. Tls(Main, stack, req')
    <3>1. ~OnStack(stack, Main)
      BY <2>1 DEF OnStack
    <3>2. req'[Main].conf = req[Main].conf
      BY <2>2 DEF SameOrigin
    <3> QED
      BY <1>i, <1>t, <2>1, <2>2, <3>1, <3>2, TlsSet
  <2>6. Clean(stray, FirstCgi, stack, req')
    <3>1. CgiKept(Main, req[Main], req'[Main])
      BY <2>2 DEF CgiKept
    <3> QED
      BY <1>i, <1>t, <2>2, <3>1, CleanStep DEF SameOrigin
  <2> QED
    BY <1>f, <2>1, <2>2, <2>4, <2>5, <2>6
<1>5. ASSUME EarlyHandler(Main) \/ \E r \in Requests : ResponseModperl(r)
      PROVE  Line(stack', req') /\ Tls(tls', stack', req')
             /\ Clean(stray', FirstCgi', stack', req')
  <2>1. PICK r \in Requests, kind \in {"early", "modperl"} :
          /\ stack' = Append(stack, Frame(r, kind)) /\ tls' = tls /\ stray' = stray
          /\ req[r].conf # NULL /\ ~OnStack(stack, r)
          /\ IF r = Main THEN stack = <<>>
             ELSE req'[r].ran /\ stack # <<>> /\ req[r].by = stack[Len(stack)].r
          /\ \A p \in Requests \ {r} : req'[p] = req[p]
          /\ SameOrigin(req[r], req'[r])
          /\ (req[r].ran => req'[r].ran) /\ req'[r].cleanup
          /\ req'[r].resets = req[r].resets
          /\ CgiSet(r, req[r], req'[r], hv, hv')
    <3>1. CASE EarlyHandler(Main)
      <4>1. stack = <<>> /\ stack' = <<Frame(Main, "early")>> /\ req[Main].conf # NULL
            /\ tls' = tls /\ stray' = stray
        BY <3>1 DEF EarlyHandler, Exists
      <4>2. stack' = Append(stack, Frame(Main, "early")) /\ ~OnStack(stack, Main)
        BY <4>1 DEF OnStack
      <4> QED
        BY <1>n, <1>t, <3>1, <4>1, <4>2, EarlyEffect
    <3>2. ASSUME NEW r \in Requests, ResponseModperl(r)
          PROVE  /\ stack' = Append(stack, Frame(r, "modperl")) /\ tls' = tls
                 /\ stray' = stray
                 /\ req[r].conf # NULL /\ ~OnStack(stack, r)
                 /\ IF r = Main THEN stack = <<>>
                    ELSE req'[r].ran /\ stack # <<>> /\ req[r].by = stack[Len(stack)].r
                 /\ \A p \in Requests \ {r} : req'[p] = req[p]
                 /\ SameOrigin(req[r], req'[r])
                 /\ (req[r].ran => req'[r].ran) /\ req'[r].cleanup
                 /\ req'[r].resets = req[r].resets
                 /\ CgiSet(r, req[r], req'[r], hv, hv')
      <4>1. /\ stack' = Append(stack, Frame(r, "modperl")) /\ tls' = tls
            /\ stray' = stray
            /\ MayRespond(r, "modperl")
        BY <3>2 DEF ResponseModperl
      <4> QED
        BY <1>n, <3>2, <4>1, MayRespondFacts, ModperlEffect
    <3> QED
      BY <1>5, <3>1, <3>2
  <2> DEFINE f == Frame(r, kind)
  <2>2. f \in FrameType /\ f.r = r /\ ~IsScript(f)
    <3>1. f \in FrameType
      BY <1>n, NestingTypes
    <3> QED
      BY <3>1 DEF Frame, IsScript
  <2>3. \A p \in Requests : SameLine(req[p], req'[p]) /\ req'[p].resets = req[p].resets
    BY <2>1 DEF SameLine, SameOrigin
  <2>4. Line(stack, req')
    BY <1>i, <1>t, <2>3, LineSame
  <2>o. req'[r].conf # NULL /\ req'[r].cleanup /\ req'[r].by = req[r].by
    BY <2>1 DEF SameOrigin
  <2> HIDE DEF f
  <2>s. stack' = Append(stack, f)
    BY <2>1 DEF f
  <2>5. Line(stack', req')
    BY <1>t, <2>1, <2>2, <2>4, <2>o, <2>s, LinePush
  <2>6. Tls(tls', stack', req')
    <3>1. Tls(tls, stack, req')
      BY <1>i, <1>t, <2>3, TlsSame
    <3> QED
      BY <1>t, <2>1, <2>2, <2>s, <3>1, TlsPush
  <2>7. Clean(stray, FirstCgi, stack, req')
    <3>1. CgiKept(r, req[r], req'[r]) /\ req'[r].conf = req[r].conf
      BY <2>1 DEF CgiSet, SameOrigin
    <3> QED
      BY <1>i, <2>1, <2>o, <3>1, CleanStep
  <2>8. Clean(stray', FirstCgi', stack', req')
    <3>1. CASE FirstCgi' = FirstCgi
      <4>1. Clean(stray', FirstCgi', stack, req')
        BY <2>1, <2>7, <3>1
      <4> QED
        BY <1>t, <2>1, <2>2, <2>4, <2>s, <4>1, CleanPush
    <3>2. CASE FirstCgi' # FirstCgi
      <4>1. /\ \A k \in 1..Len(stack) : ~IsScript(stack[k])
            /\ req'[r].setup /\ FirstCgi' = req'[r].table["cgi"]
            /\ req'[r].table["cgi"] # NULL
        BY <1>n, <2>1, <3>2, FirstHash DEF CgiSet
      <4>2. /\ Len(stack') = Len(stack) + 1 /\ Len(stack) \in Nat
            /\ \A k \in 1..Len(stack) : stack'[k] = stack[k]
            /\ stack'[Len(stack) + 1] = f
        BY <1>t, <2>2, <2>s, AppendFacts
      <4>3. \A k \in 1..Len(stack') : k \in 1..Len(stack) \/ k = Len(stack) + 1
        BY <4>2
      <4>4. \A k \in 1..Len(stack') : ~IsScript(stack'[k])
        BY <2>2, <4>1, <4>2, <4>3
      <4>5. OwnCgi(req')
        BY <2>7 DEF Clean
      <4> QED
        BY <1>t, <2>o, <4>1, <4>4, <4>5, CleanOwn
    <3> QED
      BY <3>1, <3>2
  <2> QED
    BY <2>5, <2>6, <2>8
<1>6. ASSUME NEW r \in Requests, ResponseCgi(r)
      PROVE  Line(stack', req') /\ Tls(tls', stack', req')
             /\ Clean(stray', FirstCgi', stack', req')
  <2> DEFINE f == Frame(r, "perl-script")
  <2>1. stack' = Append(stack, f) /\ MayRespond(r, "perl-script") /\ stray' = stray
    BY <1>6 DEF ResponseCgi
  <2>2. /\ req[r].conf # NULL /\ ~req[r].ran /\ ~OnStack(stack, r)
        /\ IF r = Main THEN stack = <<>>
           ELSE r \in Subs /\ stack # <<>> /\ req[r].by = stack[Len(stack)].r
    BY <2>1, MayRespondFacts
  <2>3. /\ \A p \in Requests \ {r} : req'[p] = req[p]
        /\ SameOrigin(req[r], req'[r]) /\ req'[r].ran /\ req'[r].cleanup
        /\ \/ req'[r].resets = Append(req[r].resets, tls) /\ tls' = r
           \/ req'[r].resets = req[r].resets /\ tls' = tls
        /\ CgiKept(r, req[r], req'[r])
        /\ \A i \in 1..Len(hv) : hv'[i] = hv[i]
    BY <1>n, <1>6, CgiEffect
  <2>4. f \in FrameType /\ f.r = r
    <3>1. f \in FrameType
      BY <1>n, NestingTypes
    <3> QED
      BY <3>1 DEF Frame
  <2> HIDE DEF f
  <2>5. \A p \in Requests : SameLine(req[p], req'[p])
    BY <2>3 DEF SameLine, SameOrigin
  <2>6. Line(stack, req')
    BY <1>i, <1>t, <2>5, LineSame
  <2>o. req'[r].conf = req[r].conf /\ req'[r].by = req[r].by
    BY <2>3 DEF SameOrigin
  <2>7. Line(stack', req')
    BY <1>t, <2>1, <2>2, <2>3, <2>4, <2>6, <2>o, LinePush
  <2>8. Tls(tls', stack, req')
    <3>1. CASE req'[r].resets = Append(req[r].resets, tls) /\ tls' = r
      <4>1. IF r = Main THEN stack = <<>> ELSE ~req[r].ran /\ req'[r].ran
        BY <2>2, <2>3
      <4>2. Tls(r, stack, req')
        <5>1. /\ stack \in Seq(FrameType) /\ tls \in Requests \cup {NULL}
              /\ req[r].resets \in Seq(Requests \cup {NULL})
          BY <1>t
        <5>2. req'[r].resets = Append(req[r].resets, tls)
          BY <3>1
        <5>3. /\ req[r].conf # NULL /\ ~OnStack(stack, r)
              /\ \A p \in Requests \ {r} : req'[p] = req[p]
          BY <2>2, <2>3
        <5> QED
          BY <1>i, <2>o, <4>1, <5>1, <5>2, <5>3, TlsSet
      <4> QED
        BY <3>1, <4>2
    <3>2. CASE req'[r].resets = req[r].resets /\ tls' = tls
      <4>1. \A p \in Requests : SameLine(req[p], req'[p]) /\ req'[p].resets = req[p].resets
        BY <2>3, <2>5, <3>2
      <4> QED
        BY <1>i, <1>t, <3>2, <4>1, TlsSame
    <3> QED
      BY <2>3, <3>1, <3>2
  <2>9. Tls(tls', stack', req')
    BY <1>t, <2>1, <2>4, <2>8, TlsPush
  <2>10. Clean(stray, FirstCgi, stack, req')
    BY <1>i, <2>3, <2>o, CleanStep
  <2>11. FirstCgi' = FirstCgi
    <3>1. 1 \in 1..Len(hv)
      BY <1>n, NestingTypes
    <3> QED
      BY <2>3, <3>1 DEF FirstCgi
  <2>12. Clean(stray', FirstCgi', stack, req')
    BY <2>1, <2>10, <2>11
  <2>13. Clean(stray', FirstCgi', stack', req')
    BY <1>t, <2>1, <2>2, <2>4, <2>6, <2>12, CleanPush
  <2> QED
    BY <2>7, <2>9, <2>13
<1>7. CASE ReturnModperl \/ ReturnCgi
  <2>1. stack # <<>> /\ stack' = Front(stack) /\ req' = req /\ tls' = tls
        /\ LetGo(Running) /\ stray' = stray
    BY <1>7 DEF ReturnModperl, ReturnCgi
  <2>2. FirstCgi' = FirstCgi
    <3>1. CASE ReturnModperl
      BY <1>f, <3>1 DEF ReturnModperl
    <3>2. CASE ReturnCgi
      <4>1. IsScript(Last(stack)) /\ hv' = SubSeq(hv, 1, req[Running].globals.hash)
        BY <3>2 DEF ReturnCgi, IsScript, Restore
      <4>2. /\ ScriptKept(Last(stack), req[Last(stack).r], hv, stdio)
            /\ Last(stack).was.hash \in 1..Len(hv)
        BY <1>n, <2>1, <4>1, TopScript
      <4>3. Running = Last(stack).r
        BY <1>n, <2>1, RunningFacts
      <4>4. hv' = SubSeq(hv, 1, Last(stack).was.hash)
        BY <4>1, <4>2, <4>3 DEF ScriptKept
      <4>5. Len(hv) \in Nat
        BY <1>t
      <4>6. hv'[1] = hv[1]
        <5> DEFINE h == Last(stack).was.hash
        <5>1. h \in 0..Len(hv) /\ 1 \in 1..h
          BY <4>2, <4>5
        <5>2. hv' = SubSeq(hv, 1, h)
          BY <4>4
        <5> HIDE DEF h
        <5> QED
          BY <1>t, <5>1, <5>2, SubSeqFacts
      <4> QED
        BY <4>6 DEF FirstCgi
    <3> QED
      BY <1>7, <3>1, <3>2
  <2>3. \A s \in Subs : req[s].conf # NULL => req[s].by # Last(stack).r
    BY <1>n, <2>1, LetGoFacts
  <2>4. /\ Line(Front(stack), req)
        /\ \A s \in Subs : req[s].conf # NULL => OnStack(stack, s)
    BY <1>i, <1>t, <2>1, <2>3, LinePop
  <2>5. Tls(tls, Front(stack), req)
    BY <1>i, <1>t, <2>1, <2>4, TlsPop
  <2>6. Clean(stray, FirstCgi, Front(stack), req)
    BY <1>i, <1>t, <2>1, CleanPop
  <2> QED
    BY <2>1, <2>2, <2>4, <2>5, <2>6
<1>8. CASE Populate
  <2>1. stack # <<>> /\ stack' = stack /\ tls' = tls /\ stray' = stray
    BY <1>8 DEF Populate
  <2>2. /\ Running \in Requests
        /\ \A p \in Requests \ {Running} : req'[p] = req[p]
        /\ SameButTable(req[Running], req'[Running])
        /\ CgiSet(Running, req[Running], req'[Running], hv, hv')
    BY <1>n, <1>8, PopulateEffect
  <2>3. \A p \in Requests : SameLine(req[p], req'[p]) /\ req'[p].resets = req[p].resets
    BY <2>2 DEF SameLine, SameButTable
  <2>4. Line(stack, req') /\ Tls(tls, stack, req')
    BY <1>i, <1>t, <2>3, LineSame, TlsSame
  <2>5. req[Running].cleanup /\ req[Running].conf # NULL
    <3>1. Running = stack[Len(stack)].r /\ Len(stack) \in 1..Len(stack)
      BY <1>n, <2>1, RunningFacts
    <3>2. FrameOK(stack, req, Len(stack))
      BY <1>i, <3>1 DEF Line
    <3> QED
      BY <3>1, <3>2 DEF FrameOK
  <2>6. Clean(stray, FirstCgi, stack, req')
    <3>1. /\ CgiKept(Running, req[Running], req'[Running])
          /\ req'[Running].cleanup = req[Running].cleanup
          /\ req'[Running].conf = req[Running].conf /\ req'[Running].by = req[Running].by
      BY <2>2 DEF CgiSet, SameButTable
    <3> QED
      BY <1>i, <2>2, <3>1, CleanStep
  <2>7. Clean(stray', FirstCgi', stack, req')
    <3>1. CASE FirstCgi' = FirstCgi
      BY <2>1, <2>6, <3>1
    <3>2. CASE FirstCgi' # FirstCgi
      <4>1. /\ \A k \in 1..Len(stack) : ~IsScript(stack[k])
            /\ req'[Running].setup /\ FirstCgi' = req'[Running].table["cgi"]
            /\ req'[Running].table["cgi"] # NULL
        BY <1>n, <2>2, <3>2, FirstHash DEF CgiSet
      <4>2. req'[Running].conf # NULL /\ req'[Running].cleanup /\ OwnCgi(req')
        BY <2>2, <2>5, <2>6 DEF SameButTable, Clean
      <4> QED
        BY <1>t, <2>2, <4>1, <4>2, CleanOwn
    <3> QED
      BY <3>1, <3>2
  <2> QED
    BY <2>1, <2>4, <2>7
<1>9. CASE Assigning
  <2>1. /\ stack' = stack /\ tls' = tls /\ TablesKept /\ SameHashes(hv, hv')
        /\ hv'[Len(hv)].vars["cgi"] \in {hv[Len(hv)].vars["cgi"], "set", NULL}
        /\ ~stray' => ~stray
    BY <1>n, <1>9, AssignEffect
  <2>2. \A r \in Requests : /\ SameButTable(req[r], req'[r])
                            /\ req'[r].setup = req[r].setup
    BY <2>1 DEF TablesKept
  <2>3. \A p \in Requests : SameLine(req[p], req'[p]) /\ req'[p].resets = req[p].resets
    BY <2>2 DEF SameLine, SameButTable
  <2>4. Line(stack, req') /\ Tls(tls, stack, req')
    BY <1>i, <1>t, <2>3, LineSame, TlsSame
  <2>5. OwnCgi(req')
    BY <1>i, <2>1 DEF Clean, OwnCgi, TablesKept
  <2>6. FirstCgi' \in Requests => FirstCgi' = FirstCgi
    <3>1. FirstCgi' = FirstCgi \/ FirstCgi' \in {FirstCgi, "set", NULL}
      BY <1>n, <2>1, FirstHash
    <3> QED
      BY <3>1, RequestAssumption
  <2>7. ASSUME ~stray', FirstCgi' \in Requests
        PROVE  MayOwn(stack, req', FirstCgi')
    <3> DEFINE c == FirstCgi
    <3>1. c = hv[1].vars["cgi"]
      BY DEF FirstCgi
    <3>2. FirstCgi' = c /\ c \in Requests
      BY <2>6, <2>7
    <3> HIDE DEF c
    <3>3. MayOwn(stack, req, c)
      <4>1. Clean(stray, c, stack, req) /\ ~stray
        BY <1>i, <2>1, <2>7 DEF c
      <4> QED
        BY <3>2, <4>1 DEF Clean
    <3>4. req'[c].table["cgi"] = req[c].table["cgi"] \/ req'[c].table["cgi"] = "set"
      BY <2>1, <2>7, <3>1, <3>2 DEF TablesKept
    <3>5. "set" # NULL
      BY RequestAssumption
    <3>6. Cleans(req'[c])
      BY <2>2, <3>2, <3>3, <3>4, <3>5 DEF MayOwn, Cleans, SameButTable
    <3>7. req'[c].by = req[c].by
      BY <2>2, <3>2 DEF SameButTable
    <3>8. MayOwn(stack, req', c)
      BY <3>3, <3>6, <3>7 DEF MayOwn
    <3> QED
      BY <3>2, <3>8
  <2>8. Clean(stray', FirstCgi', stack, req')
    BY <2>5, <2>7 DEF Clean
  <2> QED
    BY <2>1, <2>4, <2>8
<1>10. ASSUME End \/ \E s \in Subs : DestroySub(s)
       PROVE  Line(stack', req') /\ Tls(tls', stack', req')
              /\ Clean(stray', FirstCgi', stack', req')
  <2>1. PICK s \in Requests :
          /\ stack' = stack /\ req[s].conf # NULL /\ ~OnStack(stack, s)
          /\ IF s = Main THEN stack = <<>>
             ELSE stack # <<>> /\ req[s].by = stack[Len(stack)].r
          /\ hv' = Unpopulated(hv, req[s]) /\ tls' = ResetTo(req[s])
          /\ req' = [req EXCEPT ![s] = NoRequest]
          /\ \/ stray' = stray
             \/ s = Main /\ stray' = (stray /\ Last(hv').vars["cgi"] \in Requests)
    <3>1. CASE End
      <4>1. stack = <<>> /\ stack' = stack /\ req[Main].conf # NULL
            /\ hv' = Unpopulated(hv, req[Main]) /\ tls' = ResetTo(req[Main])
            /\ req' = [req EXCEPT ![Main] = NoRequest]
            /\ stray' = (stray /\ Last(hv').vars["cgi"] \in Requests)
        BY <3>1 DEF End, Exists
      <4> QED
        <5>1. ~OnStack(stack, Main)
          BY <4>1 DEF OnStack
        <5> QED
          BY <1>t, <4>1, <5>1
    <3>2. ASSUME NEW s \in Subs, DestroySub(s)
          PROVE  /\ s \in Requests /\ s # Main
                 /\ stack' = stack /\ req[s].conf # NULL /\ ~OnStack(stack, s)
                 /\ stack # <<>> /\ req[s].by = stack[Len(stack)].r
                 /\ hv' = Unpopulated(hv, req[s]) /\ tls' = ResetTo(req[s])
                 /\ req' = [req EXCEPT ![s] = NoRequest]
                 /\ stray' = stray
      <4>1. stack' = stack /\ req[s].conf # NULL /\ stray' = stray
            /\ (\A i \in DOMAIN stack : stack[i].r # s)
            /\ hv' = Unpopulated(hv, req[s]) /\ tls' = ResetTo(req[s])
            /\ req' = [req EXCEPT ![s] = NoRequest]
        BY <3>2 DEF DestroySub, Exists
      <4>2. ~OnStack(stack, s)
        BY <1>t, <4>1 DEF OnStack
      <4> QED
        BY <1>i, <1>t, <4>1, <4>2, OffStack
    <3> QED
      BY <1>10, <3>1, <3>2
  <2>2. /\ \A p \in Requests \ {s} : req'[p] = req[p]
        /\ req'[s].conf = NULL /\ ~req'[s].setup /\ SameHashes(hv, hv')
        /\ IF req[s].cleanup /\ req[s].setup /\ req[s].table["cgi"] # NULL
           THEN hv'[Len(hv)].vars["cgi"] = NULL
           ELSE hv'[Len(hv)].vars["cgi"] = hv[Len(hv)].vars["cgi"]
        /\ req[s].resets = <<>> => tls' = tls
        /\ req[s].resets # <<>> => tls' = Head(req[s].resets)
    BY <1>n, <2>1, GoneEffect
  <2>a. req[s].conf # NULL /\ ~OnStack(stack, s)
        /\ IF s = Main THEN stack = <<>>
           ELSE stack # <<>> /\ req[s].by = stack[Len(stack)].r
    BY <2>1
  <2>b. /\ \A p \in Requests \ {s} : req'[p] = req[p]
        /\ req'[s].conf = NULL /\ ~req'[s].setup
    BY <2>2
  <2>3. Line(stack, req')
    BY <1>i, <1>t, <2>a, <2>b, LineGone
  <2>4. Tls(tls', stack, req')
    <3>1. /\ req[s].resets = <<>> => tls' = tls
          /\ req[s].resets # <<>> => tls' = Head(req[s].resets)
      BY <2>2
    <3> QED
      BY <1>i, <1>t, <2>a, <2>b, <3>1, TlsGone
  <2>5. Clean(stray', FirstCgi', stack, req')
    <3>1. FirstCgi' = FirstCgi \/ FirstCgi' = NULL
      BY <1>n, <2>2, FirstHash
    <3>2. ASSUME Cleans(req[s]), \A k \in 1..Len(stack) : ~IsScript(stack[k])
          PROVE  FirstCgi' = NULL
      <4>1. Len(hv) = 1
        BY <1>n, <3>2, OneHash
      <4> QED
        BY <2>2, <3>2, <4>1 DEF Cleans, FirstCgi
    <3>3. ASSUME s = Main
          PROVE  Last(hv').vars["cgi"] = FirstCgi'
      <4>1. \A k \in 1..Len(stack) : ~IsScript(stack[k])
        BY <2>a, <3>3
      <4>2. Len(hv') = 1
        BY <1>n, <2>2, <4>1, OneHash DEF SameHashes
      <4> QED
        BY <4>2 DEF Last, FirstCgi
    <3>4. ~stray' => ~stray \/ FirstCgi' \notin Requests
      BY <2>1, <3>3
    <3>5. Cleans(req[s]) /\ (\A k \in 1..Len(stack) : ~IsScript(stack[k]))
            => FirstCgi' = NULL
      BY <3>2
    <3> DEFINE c == FirstCgi
               d == FirstCgi'
               z == stray
               y == stray'
               P == req'
    <3>6. stack \in Seq(FrameType) /\ Clean(z, c, stack, req)
      BY <1>t, <1>i
    <3>7. Goes(s, z, y, c, d, stack, req, P)
      BY <2>a, <2>b, <3>1, <3>4, <3>5 DEF Goes
    <3> HIDE DEF c, d, z, y, P
    <3>9. Clean(y, d, stack, P)
      BY <3>6, <3>7, CleanGone
    <3> QED
      BY <3>9 DEF d, y, P
  <2> QED
    BY <2>1, <2>3, <2>4, <2>5
<1>11. ASSUME NEW r \in Requests, DeclineModperl(r)
       PROVE  Line(stack', req') /\ Tls(tls', stack', req')
              /\ Clean(stray', FirstCgi', stack', req')
  <2>1. stack' = stack /\ tls' = tls /\ MayRespond(r, "modperl")
    BY <1>11 DEF DeclineModperl
  <2>2. /\ \A p \in Requests \ {r} : req'[p] = req[p]
        /\ SameOrigin(req[r], req'[r])
        /\ req'[r].ran
        /\ req'[r].resets = req[r].resets
        /\ req'[r].cleanup = req[r].cleanup
        /\ CgiSet(r, req[r], req'[r], hv, hv')
        /\ ~stray' => ~stray
        /\ hv' = hv \/ Len(hv) # 1 \/ stray' \/ req'[r].cleanup
    BY <1>n, <1>11, DeclineModperlEffect
  <2>3. \A p \in Requests : SameLine(req[p], req'[p]) /\ req'[p].resets = req[p].resets
    BY <2>2 DEF SameLine, SameOrigin
  <2>4. Line(stack, req') /\ Tls(tls, stack, req')
    BY <1>i, <1>t, <2>3, LineSame, TlsSame
  <2>5. req'[r].conf = req[r].conf /\ req'[r].by = req[r].by /\ req[r].conf # NULL
    BY <2>1, <2>2, MayRespondFacts DEF SameOrigin
  <2>6. Clean(stray, FirstCgi, stack, req')
    <3>1. CgiKept(r, req[r], req'[r])
      BY <2>2 DEF CgiSet
    <3> QED
      BY <1>i, <2>2, <2>5, <3>1, CleanStep
  <2>7. Clean(stray', FirstCgi', stack, req')
    <3>1. CASE FirstCgi' = FirstCgi
      BY <2>2, <2>6, <3>1 DEF Clean
    <3>2. CASE FirstCgi' # FirstCgi
      <4>1. /\ \A k \in 1..Len(stack) : ~IsScript(stack[k])
            /\ req'[r].setup /\ FirstCgi' = req'[r].table["cgi"]
            /\ req'[r].table["cgi"] # NULL
        BY <1>n, <2>2, <3>2, FirstHash DEF CgiSet
      <4>2. Len(hv) = 1 /\ hv' # hv
        BY <1>n, <1>f, <3>2, <4>1, OneHash
      <4>3. (~stray' => req'[r].cleanup) /\ OwnCgi(req')
        BY <2>2, <2>6, <4>2 DEF Clean
      <4> QED
        BY <1>t, <2>5, <4>1, <4>3, CleanOwn
    <3> QED
      BY <3>1, <3>2
  <2> QED
    BY <2>1, <2>4, <2>7
<1>12. ASSUME NEW r \in Requests, DeclineCgi(r)
       PROVE  Line(stack', req') /\ Tls(tls', stack', req')
              /\ Clean(stray', FirstCgi', stack', req')
  <2>1. stack' = stack /\ hv' = hv /\ MayRespond(r, "perl-script") /\ stray' = stray
    BY <1>12 DEF DeclineCgi
  <2>2. /\ req[r].conf # NULL /\ ~req[r].ran /\ ~OnStack(stack, r)
        /\ IF r = Main THEN stack = <<>>
           ELSE r \in Subs /\ stack # <<>> /\ req[r].by = stack[Len(stack)].r
    BY <2>1, MayRespondFacts
  <2>3. /\ \A p \in Requests \ {r} : req'[p] = req[p]
        /\ SameOrigin(req[r], req'[r]) /\ req'[r].ran
        /\ \/ req'[r].resets = Append(req[r].resets, tls) /\ tls' = r
           \/ req'[r].resets = req[r].resets /\ tls' = tls
        /\ req'[r].cleanup = req[r].cleanup
        /\ CgiKept(r, req[r], req'[r])
    BY <1>n, <1>12, DeclineCgiEffect
  <2>4. \A p \in Requests : SameLine(req[p], req'[p])
    BY <2>3 DEF SameLine, SameOrigin
  <2>5. Line(stack, req')
    BY <1>i, <1>t, <2>4, LineSame
  <2>o. req'[r].conf = req[r].conf /\ req'[r].by = req[r].by
    BY <2>3 DEF SameOrigin
  <2>6. Tls(tls', stack, req')
    <3>1. CASE req'[r].resets = Append(req[r].resets, tls) /\ tls' = r
      <4>1. IF r = Main THEN stack = <<>> ELSE ~req[r].ran /\ req'[r].ran
        BY <2>2, <2>3
      <4>2. /\ stack \in Seq(FrameType) /\ tls \in Requests \cup {NULL}
            /\ req[r].resets \in Seq(Requests \cup {NULL})
        BY <1>t
      <4>3. req'[r].resets = Append(req[r].resets, tls)
        BY <3>1
      <4>4. /\ req[r].conf # NULL /\ ~OnStack(stack, r)
            /\ \A p \in Requests \ {r} : req'[p] = req[p]
        BY <2>2, <2>3
      <4>5. Tls(r, stack, req')
        BY <1>i, <2>o, <4>1, <4>2, <4>3, <4>4, TlsSet
      <4> QED
        BY <3>1, <4>5
    <3>2. CASE req'[r].resets = req[r].resets /\ tls' = tls
      <4>1. \A p \in Requests : SameLine(req[p], req'[p]) /\ req'[p].resets = req[p].resets
        BY <2>3, <2>4, <3>2
      <4> QED
        BY <1>i, <1>t, <3>2, <4>1, TlsSame
    <3> QED
      BY <2>3, <3>1, <3>2
  <2>7. Clean(stray, FirstCgi, stack, req')
    BY <1>i, <2>3, <2>o, CleanStep
  <2> QED
    BY <1>f, <2>1, <2>5, <2>6, <2>7
<1> QED
  BY <1>1, <1>2, <1>3, <1>4, <1>5, <1>6, <1>7, <1>8, <1>9, <1>10, <1>11, <1>12
  DEF RequestNext, Assigning

\* Before the first request there is none.
LEMMA LexicalAtInit ==
    ASSUME RequestInit
    PROVE  LexicalInv
<1>1. NestingInv
  BY NestingAtInit
<1>2. stack = <<>> /\ tls = NULL
      /\ \A r \in Requests : req[r].conf = NULL /\ ~req[r].setup
  BY DEF RequestInit, NoRequest
<1>3. \A s \in Subs : s \in Requests
  BY DEF Requests
<1>4. Main \in Requests
  BY DEF Requests
<1>5. Line(stack, req)
  BY <1>2, <1>3 DEF Line
<1>6. Tls(tls, stack, req)
  BY <1>2, <1>3, <1>4 DEF Tls
<1>7. FirstCgi = NULL
  <2>1. hv = <<[vars |-> [v \in Vars |-> IF v = "srv" THEN "conf" ELSE NULL],
                mg |-> NULL]>>
    BY DEF RequestInit
  <2> QED
    BY <2>1 DEF FirstCgi, Vars
<1>8. Clean(stray, FirstCgi, stack, req)
  BY <1>2, <1>7, RequestAssumption DEF Clean, OwnCgi
<1> QED
  BY <1>1, <1>5, <1>6, <1>8 DEF LexicalInv

\* Without a request the CGI variables are gone, but for stray ones.
LEMMA LexicalGone ==
    ASSUME LexicalInv, ~Exists(Main), ~stray
    PROVE  Env.vars["cgi"] \notin Requests
<1>n. NestingInv
  BY DEF LexicalInv
<1>1. stack \in Seq(FrameType)
  BY <1>n, NestingTypes
<1>2. stack = <<>> /\ \A s \in Subs : req[s].conf = NULL
  BY <1>1, LineEmpty DEF LexicalInv, Exists
<1>3. \A r \in Requests : req[r].conf = NULL
  BY <1>2 DEF Requests, Exists
<1>4. FirstCgi \notin Requests
  BY <1>3 DEF LexicalInv, Clean, MayOwn, Cleans
<1>5. \A k \in 1..Len(stack) : ~IsScript(stack[k])
  BY <1>2
<1>6. Len(hv) = 1
  BY <1>n, <1>5, OneHash
<1> QED
  BY <1>4, <1>6 DEF Env, Last, FirstCgi

\* If handlers let go of their subrequests before they make others or return,
\* Apache2::RequestUtil->request is never a request that was destroyed.
THEOREM GlobalRequest ==
    ASSUME Lexical
    PROVE  RequestSpec => []GlobalRequestAlive
<1>1. RequestInit => LexicalInv
  BY LexicalAtInit
<1>2. LexicalInv /\ [RequestNext]_qvars => LexicalInv'
  BY LexicalStep
<1>3. LexicalInv => GlobalRequestAlive
  BY DEF LexicalInv, Tls, GlobalRequestAlive, Exists
<1> QED
  BY <1>1, <1>2, <1>3, PTL DEF RequestSpec

\* And no CGI variable of a request is left in %ENV for the next one, whatever
\* handlers and subrequests ran, declined or assigned to %ENV, unless one of two
\* things happened that the end of a request does not see: the variable was
\* taken out of its table while the hash outside of scripts had it, or a modperl
\* handler for which %ENV was filled declined before a cleanup was registered.
THEOREM EnvLeftClean ==
    ASSUME Lexical
    PROVE  RequestSpec => []CgiVarsGone
<1>1. RequestInit => LexicalInv
  BY LexicalAtInit
<1>2. LexicalInv /\ [RequestNext]_qvars => LexicalInv'
  BY LexicalStep
<1>3. LexicalInv => CgiVarsGone
  BY LexicalGone DEF CgiVarsGone
<1> QED
  BY <1>1, <1>2, <1>3, PTL DEF RequestSpec

-----------------------------------------------------------------------------
(* The inductive invariant.                                                *)

\* The bytes in the filter, v and h being inv and held, and all that has passed
\* the response handler's buffer, o being what came out.
InFilter(v, h) ==
    IF v = None THEN h
    ELSE v.wb \o (Payload(v.bb_out) \o (h \o (v.left \o Payload(v.bb))))
Through(o, v, h) == BytesOf(o) \o InFilter(v, h)

\* The bytes in the calls p that the response handler has to make.
Calls(p) ==
    FlattenSeq([i \in 1 .. Len(p) |-> p[i].d \o Payload(p[i].bb)])

\* Those calls: the first one is on its way while the filter runs.
Todo(rs, v) ==
    IF rs.pending = <<>> THEN <<>>
    ELSE IF v # None THEN Tail(rs.pending) ELSE rs.pending

\* The bytes of the CGI header that do not come out as body.
Skip(rs) == IF rs.cgi /\ ~rs.parse THEN HeaderLen ELSE 0

\* A mark is the last bucket of its brigade.
BrigadeOK(bb) == \A j \in 1 .. Len(bb) : j # Len(bb) => IsData(bb[j])

\* A single call.
ItemOK(it) ==
    /\ it.op \in {"copy", "pass"} => it.bb = <<>>
    /\ it.op \in {"flush", "flushed"} => it.d = <<>> /\ it.bb = <<>>
    /\ it.op = "direct" => it.d = <<>> /\ BrigadeOK(it.bb)

\* The calls p can be made with b in the buffer: what does not go through the
\* buffer finds it empty, and what is copied into it fits.  Only a flush comes
\* before such a call and only flushes behind it.
Ready(p, b) ==
    /\ \A i \in 1 .. Len(p) : ItemOK(p[i])
    /\ p # <<>> /\ p[1].op \in {"pass", "direct", "flushed"} => b = <<>>
    /\ p # <<>> /\ p[1].op = "copy" => Len(b) + Len(p[1].d) <= BufSize
    /\ \A i \in 1 .. Len(p) : i # 1 /\ p[i].op # "flush" =>
         /\ i = 2 /\ p[1].op = "flush"
         /\ p[i].op = "copy" => Len(p[i].d) <= BufSize
    /\ \A i \in 1 .. Len(p) : p[i].op = "flushed" => i = Len(p)

\* No data goes around the buffer in the calls p, and none into it.
Buffered(p) == \A i \in 1 .. Len(p) : p[i].op = "direct" => Payload(p[i].bb) = <<>>
NoCopy(p) == \A i \in 1 .. Len(p) : p[i].op # "copy"

\* The invocation v in mode m; the reader wants so many bytes.
InvocationOK(v, m, want) ==
    v # None =>
        /\ v \in InvType /\ BrigadeOK(v.bb)
        /\ ~v.got => v.bb = <<>> /\ ~v.seen_eos
        /\ ~v.read => v.left = <<>>
        /\ v.seen_eos \/ v.dry => v.left = <<>> /\ v.bb = <<>>
        /\ Len(v.wb) <= BufSize
        /\ m = "out" => Payload(v.bb_out) = <<>> /\ v.got
        /\ m = "in" => /\ v.wb = <<>> /\ (~v.read => ~v.got)
                       /\ Len(Payload(v.bb_out)) + v.room = want

\* The response handler, while the invocation is v.
ResponseOK(rs, m, v) ==
    /\ rs.parse => rs.cgi
    /\ Len(rs.buf) <= BufSize
    /\ v # None => rs.pending # <<>> /\ rs.buf = <<>>
    /\ Ready(Todo(rs, v), rs.buf)
    /\ rs.parse => Buffered(Todo(rs, v))
    /\ rs.at # "handler" => NoCopy(Todo(rs, v))
    /\ rs.at # "handler" /\ m = "out" /\ rs.buf # <<>> =>
         rs.pending # <<>> /\ rs.pending[1].op = "flush"
    /\ m = "in" => /\ ~rs.cgi /\ rs.buf = <<>> /\ rs.n = 0
                   /\ rs.pending \in {<<>>, <<Direct(<<>>)>>}

\* Nothing is missing.
Whole(m, rs, v, h, k, o) ==
    IF m = "in" THEN Through(o, v, h) = Numbers(0, k)
    ELSE /\ Skip(rs) <= rs.n
         /\ Through(o, v, h) \o (rs.buf \o Calls(Todo(rs, v)))
              = Numbers(Skip(rs), rs.n)
         /\ rs.parse => Through(o, v, h) = <<>>

\* The invariant: what is on its way is whole, wherever it stands, and what was
\* flushed is behind all that is still held.
FilterInv ==
    /\ FilterTypeOK
    /\ InvocationOK(inv, mode, resp.want)
    /\ ResponseOK(resp, mode, inv)
    /\ reset => lost
    /\ inv # None => ~sent_eos
    /\ inv = None /\ (~chained \/ sent_eos) => held = <<>>
    /\ ~lost /\ ~resp.err => Whole(mode, resp, inv, held, net, out)
    /\ flushed + Len(resp.buf) + Len(Calls(Todo(resp, inv))) <= resp.n

-----------------------------------------------------------------------------
(* Sequences.                                                              *)

\* g[i] is what FlattenSeq makes of the first i sequences.
FlattenLoop(g, ss, A) ==
    /\ g[0] = <<>>
    /\ \A j \in 1 .. Len(ss) : g[j] = g[j - 1] \o ss[j]
    /\ \A j \in 0 .. Len(ss) : g[j] \in Seq(A)
    /\ FlattenSeq(ss) = g[Len(ss)]

\* Every sequence of sequences has such a loop.
LEMMA FlattenLoops ==
    ASSUME NEW A, NEW ss \in Seq(Seq(A))
    PROVE  \E g : FlattenLoop(g, ss, A)
<1> DEFINE n == Len(ss)
           Body(f, i) == IF i = 1 THEN ss[i] ELSE f[i - 1] \o ss[i]
           F == CHOOSE f : f = [i \in 1 .. n |-> Body(f, i)]
           st == [p \in (Nat \ {0}) \X Seq(A) |->
                    IF p[1] \in 1 .. n THEN p[2] \o ss[p[1]] ELSE p[2]]
<1>1. n \in Nat /\ \A j \in 1 .. n : ss[j] \in Seq(A)
  OBVIOUS
<1>2. st \in [(Nat \ {0}) \X Seq(A) -> Seq(A)]
  <2>1. ASSUME NEW i \in Nat \ {0}, NEW s \in Seq(A)
        PROVE  (IF i \in 1 .. n THEN s \o ss[i] ELSE s) \in Seq(A)
    BY <1>1, ConcatProperties
  <2> QED BY <2>1
<1>3. PICK g : IsLoop(g, n, Seq(A), <<>>, st)
  <2>1. << >> \in Seq(A)
    OBVIOUS
  <2> HIDE DEF st, n
  <2> QED BY <1>1, <1>2, <2>1, LoopExists
<1>4. g[0] = <<>> /\ \A j \in 0 .. n : g[j] \in Seq(A)
  <2> HIDE DEF st, n
  <2> QED BY <1>3 DEF IsLoop
<1>5. ASSUME NEW j \in 1 .. n PROVE g[j] = g[j - 1] \o ss[j]
  <2>1. g[j] = st[<<j, g[j - 1]>>] /\ g[j - 1] \in Seq(A)
    <3> HIDE DEF n, st
    <3> QED BY <1>1, <1>3 DEF IsLoop
  <2>2. <<j, g[j - 1]>> \in (Nat \ {0}) \X Seq(A)
    BY <2>1, <1>1
  <2> QED BY <2>1, <2>2, <1>1
<1>5a. 1 \in 1 .. n => g[1] = ss[1]
  <2> HIDE DEF n, st
  <2> SUFFICES ASSUME 1 \in 1 .. n PROVE g[1] = ss[1]
    OBVIOUS
  <2>1. g[1] = g[0] \o ss[1] /\ ss[1] \in Seq(A)
    <3>1. g[1] = g[1 - 1] \o ss[1]
      BY <1>5
    <3> QED BY <1>1, <3>1
  <2>2. <<>> \o ss[1] = ss[1]
    BY <2>1, ConcatEmptySeq
  <2> QED BY <1>4, <2>1, <2>2
<1> DEFINE f == [i \in 1 .. n |-> g[i]]
<1>6. f = [i \in 1 .. n |-> Body(f, i)]
  <2>1. ASSUME NEW i \in 1 .. n PROVE f[i] = Body(f, i)
    <3>1. f[i] = g[i]
      OBVIOUS
    <3>2. CASE i = 1
      <4>1. g[i] = ss[i]
        BY <1>5a, <3>2
      <4> QED BY <3>1, <3>2, <4>1
    <3>3. CASE i # 1
      <4>1. i - 1 \in 1 .. n
        BY <1>1, <3>3
      <4>2. f[i - 1] = g[i - 1]
        BY <4>1
      <4> HIDE DEF f, n
      <4> QED BY <1>5, <3>1, <3>3, <4>2
    <3> QED BY <3>2, <3>3
  <2> HIDE DEF Body, n
  <2> QED BY <2>1
<1>7. F = [i \in 1 .. n |-> Body(F, i)]
  <2> HIDE DEF Body, n, f
  <2> QED BY <1>6, Zenon
<1>8. \A i \in 1 .. n : F[i] = Body(F, i)
  <2> HIDE DEF F, Body, n
  <2> QED BY <1>7
<1>9. \A i \in 0 .. n : i # 0 => F[i] = g[i]
  <2> DEFINE T == {i \in Nat : i # 0 => F[i] = g[i]}
  <2> HIDE DEF F
  <2>1. 0 \in T
    OBVIOUS
  <2>2. ASSUME NEW i \in 1 .. n, i - 1 \in T PROVE i \in T
    <3>1. F[i] = Body(F, i) /\ g[i] = g[i - 1] \o ss[i] /\ i \in Nat
      <4>1. F[i] = Body(F, i)
        <5> HIDE DEF Body, n, T
        <5> QED BY <1>8
      <4>2. g[i] = g[i - 1] \o ss[i]
        <5> HIDE DEF Body, n, T
        <5> QED BY <1>5
      <4>3. i \in Nat
        BY <1>1
      <4> QED BY <4>1, <4>2, <4>3
    <3>2. CASE i = 1
      <4>1. g[i] = ss[i]
        BY <1>5a, <3>2
      <4> QED BY <3>1, <3>2, <4>1
    <3>3. CASE i # 1
      <4>1. F[i - 1] = g[i - 1]
        BY <2>2, <3>3
      <4> QED BY <3>1, <3>3, <4>1
    <3> QED BY <3>2, <3>3
  <2> HIDE DEF T, n
  <2>3. \A i \in 0 .. n : i \in T
    BY <1>1, <2>1, <2>2, Upto
  <2> QED BY <2>3 DEF T
<1>10. FlattenSeq(ss) = IF n = 0 THEN ss ELSE F[n]
  BY DEF FlattenSeq
<1>11. FlattenSeq(ss) = g[n]
  <2>1. CASE n = 0
    <3>1. ss = <<>>
      BY <2>1
    <3> QED BY <1>4, <1>10, <2>1, <3>1
  <2>2. CASE n # 0
    <3>1. n \in 0 .. n
      BY <1>1
    <3> HIDE DEF F, n
    <3> QED BY <1>9, <1>10, <2>2, <3>1
  <2> QED BY <2>1, <2>2
<1>12. FlattenLoop(g, ss, A)
  BY <1>4, <1>5, <1>11 DEF FlattenLoop
<1> QED BY <1>12

\* FlattenSeq, from both ends.
LEMMA FlattenFacts ==
    ASSUME NEW A, NEW ss \in Seq(Seq(A))
    PROVE  /\ FlattenSeq(ss) \in Seq(A)
           /\ ss = <<>> => FlattenSeq(ss) = <<>>
           /\ \A x \in Seq(A) : FlattenSeq(Append(ss, x)) = FlattenSeq(ss) \o x
<1>1. PICK g : FlattenLoop(g, ss, A)
  BY FlattenLoops
<1>2. Len(ss) \in Nat
  OBVIOUS
<1>3. FlattenSeq(ss) \in Seq(A) /\ (ss = <<>> => FlattenSeq(ss) = <<>>)
  <2>1. Len(ss) \in 0 .. Len(ss) /\ (ss = <<>> => Len(ss) = 0)
    BY <1>2
  <2> QED BY <1>1, <2>1 DEF FlattenLoop
<1>4. ASSUME NEW x \in Seq(A) PROVE FlattenSeq(Append(ss, x)) = FlattenSeq(ss) \o x
  <2> DEFINE tt == Append(ss, x)
             n == Len(ss)
  <2>1. /\ tt \in Seq(Seq(A)) /\ Len(tt) = n + 1 /\ tt[n + 1] = x
        /\ \A i \in 1 .. n : tt[i] = ss[i]
    OBVIOUS
  <2>2. PICK h : FlattenLoop(h, tt, A)
    BY <2>1, FlattenLoops
  <2> HIDE DEF tt
  <2>3. \A i \in 0 .. n : h[i] = g[i]
    <3> DEFINE T == {i \in Nat : h[i] = g[i]}
    <3>1. 0 \in T
      BY <1>1, <2>2 DEF FlattenLoop
    <3>2. ASSUME NEW i \in 1 .. n, i - 1 \in T PROVE i \in T
      <4>1. g[i] = g[i - 1] \o ss[i]
        BY <1>1 DEF FlattenLoop
      <4>2. i \in 1 .. Len(tt)
        BY <1>2, <2>1
      <4>3. h[i] = h[i - 1] \o tt[i]
        BY <2>2, <4>2 DEF FlattenLoop
      <4>4. h[i - 1] = g[i - 1] /\ tt[i] = ss[i] /\ i \in Nat
        BY <1>2, <2>1, <3>2
      <4> QED BY <4>1, <4>3, <4>4
    <3> HIDE DEF T, n
    <3>3. \A i \in 0 .. n : i \in T
      BY <1>2, <3>1, <3>2, Upto DEF n
    <3> QED BY <3>3 DEF T
  <2>4. h[n + 1] = h[n] \o x
    <3>1. n + 1 \in 1 .. Len(tt) /\ (n + 1) - 1 = n
      BY <1>2, <2>1
    <3> QED BY <2>1, <2>2, <3>1 DEF FlattenLoop
  <2>5. n \in 0 .. n
    BY <1>2
  <2>6. FlattenSeq(ss) = g[n] /\ FlattenSeq(tt) = h[n + 1]
    BY <1>1, <2>1, <2>2 DEF FlattenLoop
  <2> QED BY <2>3, <2>4, <2>5, <2>6 DEF tt
<1> QED BY <1>3, <1>4

\* The concatenation of what the function f makes of the members of s.
Gather(f, s) == FlattenSeq([i \in 1 .. Len(s) |-> f[s[i]]])

\* One element more adds its own piece at the end.
LEMMA GatherAppend ==
    ASSUME NEW A, NEW D, NEW f \in [D -> Seq(A)], NEW s \in Seq(D)
    PROVE  /\ Gather(f, s) \in Seq(A)
           /\ s = <<>> => Gather(f, s) = <<>>
           /\ \A x \in D : Gather(f, Append(s, x)) = Gather(f, s) \o f[x]
<1> DEFINE ss == [i \in 1 .. Len(s) |-> f[s[i]]]
<1>1. Len(s) \in Nat /\ \A i \in 1 .. Len(s) : s[i] \in D /\ f[s[i]] \in Seq(A)
  OBVIOUS
<1>2. ss \in Seq(Seq(A)) /\ Len(ss) = Len(s)
  BY <1>1
<1>3. s = <<>> => ss = <<>>
  BY <1>2
<1>4. Gather(f, s) = FlattenSeq(ss)
  BY DEF Gather
<1>5. ASSUME NEW x \in D PROVE Gather(f, Append(s, x)) = Gather(f, s) \o f[x]
  <2> DEFINE t == Append(s, x)
             tt == [i \in 1 .. Len(t) |-> f[t[i]]]
  <2>1. Len(t) = Len(s) + 1 /\ t[Len(s) + 1] = x
        /\ \A i \in 1 .. Len(s) : t[i] = s[i]
    OBVIOUS
  <2>2. tt = Append(ss, f[x])
    <3> HIDE DEF t
    <3>1. Append(ss, f[x]) = [i \in 1 .. Len(ss) + 1 |->
                                IF i = Len(ss) + 1 THEN f[x] ELSE ss[i]]
      <4> HIDE DEF ss
      <4> QED BY <1>2
    <3>2. ASSUME NEW i \in 1 .. Len(t)
          PROVE  tt[i] = IF i = Len(ss) + 1 THEN f[x] ELSE ss[i]
      BY <1>1, <1>2, <2>1
    <3> QED BY <1>2, <2>1, <3>1, <3>2
  <2>3. f[x] \in Seq(A)
    OBVIOUS
  <2>4. Gather(f, t) = FlattenSeq(tt)
    BY DEF Gather
  <2> HIDE DEF ss, tt, t
  <2>5. FlattenSeq(Append(ss, f[x])) = FlattenSeq(ss) \o f[x]
    BY <1>2, <2>3, FlattenFacts
  <2> QED BY <1>4, <2>2, <2>4, <2>5 DEF t
<1> HIDE DEF ss
<1> QED BY <1>2, <1>3, <1>4, <1>5, FlattenFacts

\* The pieces a, b and c taken together do not depend on which are joined first.
In3(A, a, b, c) == a \in Seq(A) /\ b \in Seq(A) /\ c \in Seq(A)

\* Concatenation is associative, stated with that predicate.
LEMMA AssocOf ==
    ASSUME NEW A, NEW a, NEW b, NEW c, In3(A, a, b, c)
    PROVE  (a \o b) \o c = a \o (b \o c)
BY ConcatAssociative, SMTT(40) DEF In3

\* Gathering distributes over concatenation, as a homomorphism of sequences.
LEMMA GatherFacts ==
    ASSUME NEW A, NEW D, NEW f \in [D -> Seq(A)]
    PROVE  /\ Gather(f, <<>>) = <<>>
           /\ \A x \in D : Gather(f, <<x>>) = f[x]
           /\ \A s, t \in Seq(D) : Gather(f, s \o t) = Gather(f, s) \o Gather(f, t)
<1>0. ASSUME NEW s \in Seq(D)
      PROVE  /\ Gather(f, s) \in Seq(A)
             /\ s = <<>> => Gather(f, s) = <<>>
             /\ \A x \in D : Gather(f, Append(s, x)) = Gather(f, s) \o f[x]
  BY GatherAppend
<1>0a. \A x \in D : f[x] \in Seq(A)
  OBVIOUS
<1>1. Gather(f, <<>>) = <<>>
  <2>1. <<>> \in Seq(D)
    OBVIOUS
  <2> QED BY <2>1, <1>0
<1>2. ASSUME NEW x \in D PROVE Gather(f, <<x>>) = f[x]
  <2>1. <<x>> = Append(<<>>, x) /\ <<>> \in Seq(D)
    OBVIOUS
  <2>2. Gather(f, Append(<<>>, x)) = Gather(f, <<>>) \o f[x]
    BY <2>1, <1>0
  <2>3. <<>> \o f[x] = f[x]
    BY <1>0a, ConcatEmptySeq
  <2> QED BY <1>1, <2>1, <2>2, <2>3
<1>3. ASSUME NEW s \in Seq(D), NEW t \in Seq(D)
      PROVE  Gather(f, s \o t) = Gather(f, s) \o Gather(f, t)
  <2> DEFINE u(k) == SubSeq(t, 1, k)
             T == {k \in Nat : Gather(f, s \o u(k)) = Gather(f, s) \o Gather(f, u(k))}
  <2>1. Len(t) \in Nat
    OBVIOUS
  <2>2. Gather(f, s) \in Seq(A)
    BY <1>0
  <2>3. 0 \in T
    <3>1. u(0) = <<>>
      BY SubSeqEmpty
    <3>2. s \o <<>> = s /\ Gather(f, s) \o <<>> = Gather(f, s)
      BY <2>2, ConcatEmptySeq
    <3> HIDE DEF u
    <3> QED BY <1>1, <3>1, <3>2
  <2>4. ASSUME NEW k \in 1 .. Len(t), k - 1 \in T PROVE k \in T
    <3>1. k \in Nat /\ k - 1 \in Nat /\ k \in 1 .. Len(t) /\ 1 \in 1 .. Len(t)
      BY <2>1
    <3>2. u(k - 1) \in Seq(D) /\ t[k] \in D
      <4>1. \A i \in 1 .. k - 1 : t[i] \in D
        BY <2>1
      <4>2. SubSeq(t, 1, k - 1) \in Seq(D)
        BY <3>1, <4>1, SubSeqProperties
      <4> QED BY <4>2
    <3>3. u(k) = Append(u(k - 1), t[k])
      <4>1. SubSeq(t, 1, k) = SubSeq(t, 1, k - 1) \o <<t[k]>>
        BY <3>1, SubSeqRecursiveSecond
      <4> QED BY <3>2, <4>1
    <3>4. Gather(f, s \o u(k - 1)) = Gather(f, s) \o Gather(f, u(k - 1))
      BY <2>4
    <3> HIDE DEF u
    <3> DEFINE v == u(k - 1)
               x == t[k]
    <3>5. v \in Seq(D) /\ x \in D
      BY <3>2
    <3>6. u(k) = Append(v, x)
      BY <3>3
    <3>7. Gather(f, s \o v) = Gather(f, s) \o Gather(f, v)
      BY <3>4
    <3> HIDE DEF v, x
    <3>8. s \o Append(v, x) = Append(s \o v, x) /\ s \o v \in Seq(D)
      BY <3>5, SMTT(30)
    <3>9. Gather(f, Append(s \o v, x)) = Gather(f, s \o v) \o f[x]
      BY <3>5, <3>8, <1>0
    <3>10. Gather(f, Append(v, x)) = Gather(f, v) \o f[x] /\ Gather(f, v) \in Seq(A)
      BY <3>5, <1>0
    <3>11. (Gather(f, s) \o Gather(f, v)) \o f[x] = Gather(f, s) \o (Gather(f, v) \o f[x])
      <4> DEFINE a == Gather(f, s)
                 b == Gather(f, v)
                 c == f[x]
      <4>1. a \in Seq(A) /\ b \in Seq(A) /\ c \in Seq(A)
        BY <1>0a, <2>2, <3>5, <3>10
      <4> HIDE DEF a, b, c
      <4>2. In3(A, a, b, c)
        BY <4>1 DEF In3
      <4>3. (a \o b) \o c = a \o (b \o c)
        BY ONLY <4>2, AssocOf, SMTT(40)
      <4> QED BY <4>3 DEF a, b, c
    <3> QED BY <3>1, <3>6, <3>7, <3>8, <3>9, <3>10, <3>11
  <2> HIDE DEF T
  <2>5. \A k \in 0 .. Len(t) : k \in T
    BY <2>1, <2>3, <2>4, Upto
  <2>6. Len(t) \in T
    BY <2>1, <2>5
  <2>7. u(Len(t)) = t
    BY SubSeqFull
  <2> HIDE DEF u
  <2> QED BY <2>6, <2>7 DEF T
<1> QED BY <1>1, <1>2, <1>3


\* Induction over sequences: a set with the empty one that is closed under
\* Append has them all.
LEMMA SeqInduct ==
    ASSUME NEW D, NEW T \in SUBSET Seq(D), <<>> \in T,
           \A s \in T : \A x \in D : Append(s, x) \in T
    PROVE  \A s \in Seq(D) : s \in T
<1> SUFFICES ASSUME NEW s \in Seq(D) PROVE s \in T
  OBVIOUS
<1> DEFINE u(k) == SubSeq(s, 1, k)
           U == {k \in Nat : u(k) \in T}
<1>1. Len(s) \in Nat
  OBVIOUS
<1>2. 0 \in U
  <2>1. u(0) = <<>>
    BY SubSeqEmpty
  <2> QED BY <2>1
<1>3. ASSUME NEW k \in 1 .. Len(s), k - 1 \in U PROVE k \in U
  <2>1. k \in Nat /\ k \in 1 .. Len(s) /\ 1 \in 1 .. Len(s) /\ s[k] \in D
    <3>1. k \in Nat /\ 1 \in 1 .. Len(s)
      BY <1>1
    <3>2. s[k] \in D
      BY ElementOfSeq
    <3> QED BY <3>1, <3>2
  <2>2. SubSeq(s, 1, k) = SubSeq(s, 1, k - 1) \o <<s[k]>>
    BY <2>1, SubSeqRecursiveSecond
  <2>3. u(k - 1) \in T /\ u(k - 1) \in Seq(D)
    BY <1>3
  <2> DEFINE v == u(k - 1)
  <2>4. Append(v, s[k]) = v \o <<s[k]>>
    <3> HIDE DEF v
    <3> QED BY <2>1, <2>3, AppendIsConcat DEF v
  <2>5. u(k) = Append(v, s[k])
    BY <2>2, <2>4
  <2> HIDE DEF u
  <2> QED BY <2>1, <2>3, <2>5
<1> HIDE DEF U
<1>4. \A k \in 0 .. Len(s) : k \in U
  BY <1>1, <1>2, <1>3, Upto
<1>5. Len(s) \in U
  BY <1>1, <1>4
<1>6. u(Len(s)) = s
  BY SubSeqFull
<1> HIDE DEF u
<1> QED BY <1>5, <1>6 DEF U

\* Sequences of bytes.
LEMMA Cat ==
    /\ <<>> \in Seq(Nat) /\ Len(<<>>) = 0
    /\ \A a \in Seq(Nat) :
         /\ Len(a) \in Nat /\ <<>> \o a = a /\ a \o <<>> = a
         /\ (Len(a) = 0) = (a = <<>>)
    /\ \A a, b \in Seq(Nat) : a \o b \in Seq(Nat) /\ Len(a \o b) = Len(a) + Len(b)
<1>1. <<>> \in Seq(Nat) /\ Len(<<>>) = 0
  OBVIOUS
<1>2. ASSUME NEW a \in Seq(Nat)
      PROVE /\ Len(a) \in Nat /\ <<>> \o a = a /\ a \o <<>> = a
            /\ (Len(a) = 0) = (a = <<>>)
  <2>1. <<>> \o a = a /\ a \o <<>> = a
    BY ConcatEmptySeq
  <2>2. Len(a) \in Nat /\ ((Len(a) = 0) <=> (a = <<>>))
    OBVIOUS
  <2> QED BY <2>1, <2>2
<1>3. ASSUME NEW a \in Seq(Nat), NEW b \in Seq(Nat)
      PROVE  a \o b \in Seq(Nat) /\ Len(a \o b) = Len(a) + Len(b)
  BY ConcatProperties
<1> QED BY <1>1, <1>2, <1>3

\* Concatenation of bytes is associative.
LEMMA Assoc ==
    \A a, b, c \in Seq(Nat) : (a \o b) \o c = a \o (b \o c)
<1> SUFFICES ASSUME NEW a \in Seq(Nat), NEW b \in Seq(Nat), NEW c \in Seq(Nat)
             PROVE  (a \o b) \o c = a \o (b \o c)
  OBVIOUS
<1> QED BY ConcatAssociative

\* A sequence of bytes falls into its first k and the others.
LEMMA Cut ==
    ASSUME NEW s \in Seq(Nat), NEW k \in 0 .. Len(s)
    PROVE  /\ SubSeq(s, 1, k) \in Seq(Nat) /\ SubSeq(s, k + 1, Len(s)) \in Seq(Nat)
           /\ SubSeq(s, 1, k) \o SubSeq(s, k + 1, Len(s)) = s
           /\ Len(SubSeq(s, 1, k)) = k
           /\ Len(SubSeq(s, k + 1, Len(s))) = Len(s) - k
<1>1. Len(s) \in Nat /\ k \in Nat /\ k <= Len(s)
  OBVIOUS
<1>2. \A i \in 1 .. Len(s) : s[i] \in Nat
  OBVIOUS
<1>3. SubSeq(s, 1, k) \in Seq(Nat) /\ Len(SubSeq(s, 1, k)) = k
  <2>1. \A i \in 1 .. k : s[i] \in Nat
    BY <1>1, <1>2
  <2> QED BY <1>1, <2>1, SubSeqProperties
<1>4. /\ SubSeq(s, k + 1, Len(s)) \in Seq(Nat)
      /\ Len(SubSeq(s, k + 1, Len(s))) = Len(s) - k
  <2>1. \A i \in k + 1 .. Len(s) : s[i] \in Nat
    BY <1>1, <1>2
  <2>2. k + 1 \in Int /\ Len(s) \in Int
    BY <1>1
  <2>3. SubSeq(s, k + 1, Len(s)) \in Seq(Nat)
        /\ Len(SubSeq(s, k + 1, Len(s)))
             = IF k + 1 <= Len(s) THEN Len(s) - (k + 1) + 1 ELSE 0
    BY <2>1, <2>2, SubSeqProperties
  <2> QED BY <1>1, <2>3
<1>5. SubSeq(s, 1, k) \o SubSeq(s, k + 1, Len(s)) = SubSeq(s, 1, Len(s))
  <2>1. 1 \in 1 .. Len(s) + 1 /\ k \in 1 - 1 .. Len(s) /\ Len(s) \in k .. Len(s)
    BY <1>1
  <2> QED BY <2>1, ConcatAdjacentSubSeq
<1>6. SubSeq(s, 1, Len(s)) = s
  BY SubSeqFull
<1> QED BY <1>3, <1>4, <1>5, <1>6, Zenon

\* Consecutive bytes.
LEMMA NumbersFacts ==
    ASSUME NEW a \in Nat, NEW b \in Nat, a <= b
    PROVE  /\ Numbers(a, b) \in Seq(Nat) /\ Len(Numbers(a, b)) = b - a
           /\ Numbers(a, a) = <<>>
           /\ \A i \in 1 .. b - a : Numbers(a, b)[i] = a + i
           /\ \A c \in Nat : b <= c => Numbers(a, b) \o Numbers(b, c) = Numbers(a, c)
<1>1. ASSUME NEW x \in Nat, NEW y \in Nat, x <= y
      PROVE  /\ Numbers(x, y) \in Seq(Nat) /\ Len(Numbers(x, y)) = y - x
             /\ \A i \in 1 .. y - x : Numbers(x, y)[i] = x + i
  <2>1. y - x \in Nat /\ \A i \in 1 .. y - x : x + i \in Nat
    BY <1>1
  <2> QED BY <2>1 DEF Numbers
<1>2. Numbers(a, a) = <<>>
  <2>1. Numbers(a, a) \in Seq(Nat) /\ Len(Numbers(a, a)) = 0
    BY <1>1
  <2> QED BY <2>1, Cat
<1>3. ASSUME NEW c \in Nat, b <= c
      PROVE  Numbers(a, b) \o Numbers(b, c) = Numbers(a, c)
  <2> DEFINE x == Numbers(a, b)
             y == Numbers(b, c)
             z == Numbers(a, c)
  <2>1. x \in Seq(Nat) /\ Len(x) = b - a /\ \A i \in 1 .. b - a : x[i] = a + i
    BY <1>1
  <2>2. y \in Seq(Nat) /\ Len(y) = c - b /\ \A i \in 1 .. c - b : y[i] = b + i
    BY <1>1, <1>3
  <2>3. z \in Seq(Nat) /\ Len(z) = c - a /\ \A i \in 1 .. c - a : z[i] = a + i
    BY <1>1, <1>3
  <2> HIDE DEF x, y, z
  <2>4. /\ x \o y \in Seq(Nat) /\ Len(x \o y) = c - a
        /\ \A i \in 1 .. Len(x) + Len(y) : (x \o y)[i] =
                     IF i <= Len(x) THEN x[i] ELSE y[i - Len(x)]
    <3>1. x \o y \in Seq(Nat) /\ Len(x \o y) = Len(x) + Len(y)
      BY <2>1, <2>2, Cat
    <3>2. \A i \in 1 .. Len(x) + Len(y) : (x \o y)[i] =
                     IF i <= Len(x) THEN x[i] ELSE y[i - Len(x)]
      BY <2>1, <2>2, ConcatProperties
    <3>3. Len(x) + Len(y) = c - a
      BY <2>1, <2>2
    <3> QED BY <3>1, <3>2, <3>3
  <2>5. ASSUME NEW i \in 1 .. c - a PROVE (x \o y)[i] = z[i]
    <3>1. (x \o y)[i] = IF i <= b - a THEN x[i] ELSE y[i - (b - a)]
      BY <2>1, <2>2, <2>4
    <3>2. CASE i <= b - a
      BY <2>1, <2>3, <3>1, <3>2
    <3>3. CASE ~(i <= b - a)
      <4>1. i - (b - a) \in 1 .. c - b
        BY <3>3
      <4>2. y[i - (b - a)] = b + (i - (b - a))
        BY <2>2, <4>1
      <4> QED BY <2>3, <3>1, <3>3, <4>2
    <3> QED BY <3>2, <3>3
  <2>6. x \o y = z
    BY <2>3, <2>4, <2>5, SeqEqual
  <2> QED BY <2>6 DEF x, y, z
<1> QED BY <1>1, <1>2, <1>3

\* The stream behind its headers, x being the data that has all of them.
LEMMA NumbersSplit ==
    ASSUME NEW x \in Seq(Nat), NEW y \in Seq(Nat), NEW n \in Nat, NEW h \in Nat,
           x \o y = Numbers(0, n), h \in ToSet(x)
    PROVE  h <= n /\ SubSeq(x, h + 1, Len(x)) \o y = Numbers(h, n)
<1>0. ASSUME NEW m \in Nat
      PROVE  /\ Numbers(0, m) \in Seq(Nat) /\ Len(Numbers(0, m)) = m
             /\ \A i \in 1 .. m : Numbers(0, m)[i] = i
             /\ \A c \in Nat : m <= c => Numbers(0, m) \o Numbers(m, c) = Numbers(0, c)
  <2>1. 0 \in Nat /\ 0 <= m
    OBVIOUS
  <2>2. /\ Numbers(0, m) \in Seq(Nat) /\ Len(Numbers(0, m)) = m - 0
        /\ \A i \in 1 .. m - 0 : Numbers(0, m)[i] = 0 + i
        /\ \A c \in Nat : m <= c => Numbers(0, m) \o Numbers(m, c) = Numbers(0, c)
    BY <2>1, NumbersFacts
  <2>3. m - 0 = m /\ \A i \in 1 .. m : 0 + i = i
    OBVIOUS
  <2>4. \A i \in 1 .. m : Numbers(0, m)[i] = i
    <3>1. \A i \in 1 .. m : Numbers(0, m)[i] = 0 + i
      BY <2>2, <2>3
    <3> HIDE DEF Numbers
    <3> QED BY <2>3, <3>1, Zenon
  <2> QED BY <2>2, <2>3, <2>4
<1>1. Numbers(0, n) \in Seq(Nat) /\ Len(Numbers(0, n)) = n
      /\ \A i \in 1 .. n : Numbers(0, n)[i] = i
  BY <1>0
<1>2. Len(x) \in Nat /\ Len(y) \in Nat /\ Len(x) + Len(y) = n
  <2>1. Len(x \o y) = n
    BY <1>1
  <2> QED BY <2>1, Cat
<1>3. \A i \in 1 .. n : (x \o y)[i] = IF i <= Len(x) THEN x[i] ELSE y[i - Len(x)]
  BY <1>2, ConcatProperties
<1>4. PICK i \in 1 .. Len(x) : x[i] = h
  BY DEF ToSet
<1>5. h = i
  <2>1. i \in 1 .. n /\ i <= Len(x)
    BY <1>2
  <2>2. (x \o y)[i] = x[i] /\ (x \o y)[i] = i
    <3>1. (x \o y)[i] = x[i]
      BY <1>3, <2>1
    <3>2. Numbers(0, n)[i] = i
      BY <1>1, <2>1
    <3> QED BY <3>1, <3>2
  <2> QED BY <1>4, <2>2
<1>6. h \in 0 .. Len(x) /\ h <= n
  BY <1>2, <1>5
<1> DEFINE c == SubSeq(x, 1, h)
           d == SubSeq(x, h + 1, Len(x))
<1>7. c \in Seq(Nat) /\ d \in Seq(Nat) /\ c \o d = x /\ Len(c) = h
  BY <1>6, Cut
<1>8. /\ Numbers(0, h) \in Seq(Nat) /\ Len(Numbers(0, h)) = h
      /\ Numbers(h, n) \in Seq(Nat) /\ Numbers(0, h) \o Numbers(h, n) = Numbers(0, n)
      /\ \A j \in 1 .. h : Numbers(0, h)[j] = j
  <2>1. Numbers(h, n) \in Seq(Nat)
    BY <1>6, NumbersFacts
  <2> QED BY <1>0, <1>6, <2>1
<1>9. \A j \in 1 .. h : c[j] = x[j]
  <2>1. \A j \in 1 .. h : x[j] \in Nat
    BY <1>6
  <2>2. \A j \in 1 .. h - 1 + 1 : SubSeq(x, 1, h)[j] = x[1 + j - 1]
    BY <2>1, SubSeqProperties
  <2> QED BY <2>2
<1> HIDE DEF c, d
<1>10. c = Numbers(0, h)
  <2>1. \A j \in 1 .. h : c[j] = Numbers(0, h)[j]
    BY <1>1, <1>2, <1>3, <1>6, <1>8, <1>9, SMTT(30)
  <2> QED BY <1>7, <1>8, <2>1, SeqEqual
<1>11. c \o (d \o y) = c \o Numbers(h, n)
  <2>1. (c \o d) \o y = c \o (d \o y)
    BY <1>7, Assoc, ZenonT(60)
  <2>2. (c \o d) \o y = Numbers(0, n)
    BY <1>7
  <2>3. c \o Numbers(h, n) = Numbers(0, n)
    BY <1>8, <1>10
  <2> QED BY <2>1, <2>2, <2>3
<1>12. d \o y \in Seq(Nat)
  BY <1>7, Cat
<1>13. d \o y = Numbers(h, n)
  BY <1>7, <1>8, <1>11, <1>12, ConcatSimplifications
<1> QED BY <1>6, <1>13 DEF d


-----------------------------------------------------------------------------
(* Brigades and what they hold.                                            *)

\* What comes out: bytes and the marks between them.
Marked == Nat \cup {EOS, FLUSH}

\* Data can be told from the marks, in a brigade and in what came out.
LEMMA Marks ==
    ASSUME FilterConstants
    PROVE  /\ \A s \in Seq(Nat) : IsData(s) /\ s \in Bucket
           /\ \A k \in Nat : IsData(k) /\ k \in Marked
           /\ ~IsData(EOS) /\ ~IsData(FLUSH) /\ EOS # FLUSH
           /\ EOS \in Bucket /\ FLUSH \in Bucket /\ EOS \in Marked /\ FLUSH \in Marked
           /\ \A b \in Bucket : b \in Seq(Nat) \/ b \in {EOS, FLUSH}
           /\ \A b \in Bucket : IsData(b) <=> b \in Seq(Nat)
           /\ \A b \in Marked : IsData(b) <=> b \in Nat
BY DEF FilterConstants, IsData, Bucket, Marked

\* The bytes of a brigade are those of its parts, a mark having none.
LEMMA PayloadFacts ==
    ASSUME FilterConstants
    PROVE  /\ Payload(<<>>) = <<>>
           /\ \A b \in Seq(Nat) : Payload(<<b>>) = b
           /\ Payload(<<EOS>>) = <<>> /\ Payload(<<FLUSH>>) = <<>>
           /\ \A s \in Seq(Bucket) : Payload(s) \in Seq(Nat)
           /\ \A s, t \in Seq(Bucket) : Payload(s \o t) = Payload(s) \o Payload(t)
<1> DEFINE f == [b \in Bucket |-> IF IsData(b) THEN b ELSE <<>>]
<1>1. f \in [Bucket -> Seq(Nat)]
  BY Marks
<1>2. ASSUME NEW s \in Seq(Bucket) PROVE Payload(s) = Gather(f, s)
  <2>1. \A i \in 1 .. Len(s) : f[s[i]] = IF IsData(s[i]) THEN s[i] ELSE <<>>
    <3>1. \A i \in 1 .. Len(s) : s[i] \in Bucket
      BY ElementOfSeq
    <3> HIDE DEF Bucket, IsData
    <3> QED BY <3>1
  <2>2. [i \in 1 .. Len(s) |-> f[s[i]]]
          = [i \in 1 .. Len(s) |-> IF IsData(s[i]) THEN s[i] ELSE <<>>]
    <3> HIDE DEF f
    <3> QED BY <2>1
  <2> QED BY <2>2 DEF Payload, Gather
<1>3. /\ \A s \in Seq(Nat) : f[s] = s /\ s \in Bucket
      /\ f[EOS] = <<>> /\ f[FLUSH] = <<>>
  BY Marks
<1> HIDE DEF f
<1>4. /\ Gather(f, <<>>) = <<>>
      /\ \A x \in Bucket : Gather(f, <<x>>) = f[x]
      /\ \A s, t \in Seq(Bucket) : Gather(f, s \o t) = Gather(f, s) \o Gather(f, t)
  BY <1>1, GatherFacts
<1>5. ASSUME NEW s \in Seq(Bucket) PROVE Payload(s) \in Seq(Nat)
  <2>1. Gather(f, s) \in Seq(Nat)
    BY <1>1, GatherAppend
  <2> QED BY <1>2, <2>1
<1>6. ASSUME NEW x \in Bucket PROVE Payload(<<x>>) = f[x]
  <2>1. <<x>> \in Seq(Bucket)
    OBVIOUS
  <2> QED BY <1>2, <1>4, <2>1
<1>7. Payload(<<>>) = <<>>
  <2>1. <<>> \in Seq(Bucket)
    OBVIOUS
  <2> QED BY <1>2, <1>4, <2>1
<1>8. ASSUME NEW s \in Seq(Bucket), NEW t \in Seq(Bucket)
      PROVE  Payload(s \o t) = Payload(s) \o Payload(t)
  <2>1. s \o t \in Seq(Bucket)
    BY ConcatProperties
  <2> QED BY <1>2, <1>4, <2>1
<1>9. Payload(<<EOS>>) = <<>> /\ Payload(<<FLUSH>>) = <<>>
  BY <1>3, <1>6, Marks
<1>10. ASSUME NEW b \in Seq(Nat) PROVE Payload(<<b>>) = b
  BY <1>3, <1>6
<1> QED BY <1>5, <1>7, <1>8, <1>9, <1>10

\* The same of what came out.
LEMMA BytesOfFacts ==
    ASSUME FilterConstants
    PROVE  /\ BytesOf(<<>>) = <<>>
           /\ BytesOf(<<EOS>>) = <<>> /\ BytesOf(<<FLUSH>>) = <<>>
           /\ \A s \in Seq(Marked) : BytesOf(s) \in Seq(Nat)
           /\ \A s, t \in Seq(Marked) : BytesOf(s \o t) = BytesOf(s) \o BytesOf(t)
           /\ \A s \in Seq(Nat) : s \in Seq(Marked) /\ BytesOf(s) = s
<1> DEFINE f == [b \in Marked |-> IF IsData(b) THEN <<b>> ELSE <<>>]
<1>1. f \in [Marked -> Seq(Nat)]
  <2>1. ASSUME NEW b \in Marked
        PROVE  (IF IsData(b) THEN <<b>> ELSE <<>>) \in Seq(Nat)
    <3>1. IsData(b) => b \in Nat
      BY Marks
    <3> QED BY <3>1
  <2> QED BY <2>1
<1>2. ASSUME NEW s \in Seq(Marked) PROVE BytesOf(s) = Gather(f, s)
  <2>1. \A i \in 1 .. Len(s) : f[s[i]] = IF IsData(s[i]) THEN <<s[i]>> ELSE <<>>
    <3>1. \A i \in 1 .. Len(s) : s[i] \in Marked
      BY ElementOfSeq
    <3> HIDE DEF Marked, IsData
    <3> QED BY <3>1
  <2>2. [i \in 1 .. Len(s) |-> f[s[i]]]
          = [i \in 1 .. Len(s) |-> IF IsData(s[i]) THEN <<s[i]>> ELSE <<>>]
    <3> HIDE DEF f
    <3> QED BY <2>1
  <2> QED BY <2>2 DEF BytesOf, Gather
<1>3. /\ \A k \in Nat : f[k] = <<k>> /\ k \in Marked
      /\ f[EOS] = <<>> /\ f[FLUSH] = <<>>
  BY Marks
<1> HIDE DEF f
<1>4. /\ Gather(f, <<>>) = <<>>
      /\ \A x \in Marked : Gather(f, <<x>>) = f[x]
      /\ \A s, t \in Seq(Marked) : Gather(f, s \o t) = Gather(f, s) \o Gather(f, t)
  BY <1>1, GatherFacts
<1>5. ASSUME NEW s \in Seq(Marked) PROVE BytesOf(s) \in Seq(Nat)
  <2>1. Gather(f, s) \in Seq(Nat)
    BY <1>1, GatherAppend
  <2> QED BY <1>2, <2>1
<1>6. ASSUME NEW x \in Marked PROVE BytesOf(<<x>>) = f[x]
  <2>1. <<x>> \in Seq(Marked)
    OBVIOUS
  <2> QED BY <1>2, <1>4, <2>1
<1>7. BytesOf(<<>>) = <<>>
  <2>1. <<>> \in Seq(Marked)
    OBVIOUS
  <2> QED BY <1>2, <1>4, <2>1
<1>8. ASSUME NEW s \in Seq(Marked), NEW t \in Seq(Marked)
      PROVE  BytesOf(s \o t) = BytesOf(s) \o BytesOf(t)
  <2>1. s \o t \in Seq(Marked)
    BY ConcatProperties
  <2> QED BY <1>2, <1>4, <2>1
<1>9. BytesOf(<<EOS>>) = <<>> /\ BytesOf(<<FLUSH>>) = <<>>
  BY <1>3, <1>6, Marks
<1>10. ASSUME NEW s \in Seq(Nat) PROVE s \in Seq(Marked)
  <2>1. Nat \subseteq Marked
    BY DEF Marked
  <2> QED BY <2>1, SeqMonotonic
<1>11. ASSUME NEW s \in Seq(Nat) PROVE BytesOf(s) = s
  <2> DEFINE T == {t \in Seq(Nat) : BytesOf(t) = t}
  <2>1. T \in SUBSET Seq(Nat) /\ <<>> \in T
    BY <1>7
  <2>2. ASSUME NEW t \in T, NEW x \in Nat PROVE Append(t, x) \in T
    <3>1. t \in Seq(Nat) /\ BytesOf(t) = t
      OBVIOUS
    <3>2. Append(t, x) = t \o <<x>> /\ <<x>> \in Seq(Nat) /\ Append(t, x) \in Seq(Nat)
      BY <3>1
    <3>3. BytesOf(t \o <<x>>) = BytesOf(t) \o BytesOf(<<x>>)
      BY <1>8, <1>10, <3>1, <3>2
    <3>4. BytesOf(<<x>>) = <<x>>
      BY <1>3, <1>6
    <3> QED BY <3>1, <3>2, <3>3, <3>4
  <2> HIDE DEF T
  <2>3. \A t \in Seq(Nat) : t \in T
    BY <2>1, <2>2, SeqInduct
  <2> QED BY <2>3 DEF T
<1> QED BY <1>5, <1>7, <1>8, <1>9, <1>10, <1>11

\* What a brigade becomes when it comes out holds its bytes.
LEMMA FlatFacts ==
    ASSUME FilterConstants, NEW bb \in Seq(Bucket)
    PROVE  Flat(bb) \in Seq(Marked) /\ BytesOf(Flat(bb)) = Payload(bb)
<1> DEFINE f == [b \in Bucket |-> IF IsData(b) THEN b ELSE <<b>>]
<1>1. f \in [Bucket -> Seq(Marked)]
  <2>1. ASSUME NEW b \in Bucket
        PROVE  (IF IsData(b) THEN b ELSE <<b>>) \in Seq(Marked)
    <3>1. CASE b \in Seq(Nat)
      BY <3>1, Marks, BytesOfFacts
    <3>2. CASE b \in {EOS, FLUSH}
      <4>1. b \in Marked /\ ~IsData(b)
        BY <3>2, Marks
      <4> QED BY <4>1
    <3> QED BY <3>1, <3>2, Marks
  <2> QED BY <2>1
<1>2. ASSUME NEW s \in Seq(Bucket) PROVE Flat(s) = Gather(f, s)
  <2>1. \A i \in 1 .. Len(s) : f[s[i]] = IF IsData(s[i]) THEN s[i] ELSE <<s[i]>>
    <3>1. \A i \in 1 .. Len(s) : s[i] \in Bucket
      BY ElementOfSeq
    <3> HIDE DEF Bucket, IsData
    <3> QED BY <3>1
  <2>2. [i \in 1 .. Len(s) |-> f[s[i]]]
          = [i \in 1 .. Len(s) |-> IF IsData(s[i]) THEN s[i] ELSE <<s[i]>>]
    <3> HIDE DEF f
    <3> QED BY <2>1
  <2> QED BY <2>2 DEF Flat, Gather
<1>3. /\ \A s \in Seq(Nat) : f[s] = s /\ s \in Bucket
      /\ f[EOS] = <<EOS>> /\ f[FLUSH] = <<FLUSH>>
  BY Marks
<1>4. ASSUME NEW b \in Bucket PROVE BytesOf(f[b]) = Payload(<<b>>)
  <2> HIDE DEF f
  <2>1. CASE b \in Seq(Nat)
    BY <1>3, <2>1, PayloadFacts, BytesOfFacts
  <2>2. CASE b \in {EOS, FLUSH}
    BY <1>3, <2>2, PayloadFacts, BytesOfFacts
  <2> QED BY <2>1, <2>2, Marks
<1> HIDE DEF f
<1>5. ASSUME NEW s \in Seq(Bucket)
      PROVE  /\ Gather(f, s) \in Seq(Marked) /\ (s = <<>> => Gather(f, s) = <<>>)
             /\ \A b \in Bucket : Gather(f, Append(s, b)) = Gather(f, s) \o f[b]
  BY <1>1, GatherAppend, SMTT(30)
<1> DEFINE T == {s \in Seq(Bucket) : BytesOf(Gather(f, s)) = Payload(s)}
<1>6. T \in SUBSET Seq(Bucket) /\ <<>> \in T
  <2>1. <<>> \in Seq(Bucket)
    OBVIOUS
  <2> QED BY <1>5, <2>1, PayloadFacts, BytesOfFacts
<1>7. ASSUME NEW s \in T, NEW b \in Bucket PROVE Append(s, b) \in T
  <2>1. s \in Seq(Bucket) /\ BytesOf(Gather(f, s)) = Payload(s)
    OBVIOUS
  <2>2. Append(s, b) = s \o <<b>> /\ <<b>> \in Seq(Bucket) /\ Append(s, b) \in Seq(Bucket)
    BY <2>1
  <2>3. Gather(f, Append(s, b)) = Gather(f, s) \o f[b]
        /\ Gather(f, s) \in Seq(Marked) /\ f[b] \in Seq(Marked)
    BY <1>1, <1>5, <2>1
  <2>4. BytesOf(Gather(f, s) \o f[b]) = BytesOf(Gather(f, s)) \o BytesOf(f[b])
    BY <2>3, BytesOfFacts
  <2>5. Payload(s \o <<b>>) = Payload(s) \o Payload(<<b>>)
    BY <2>1, <2>2, PayloadFacts
  <2> QED BY <1>4, <2>1, <2>2, <2>3, <2>4, <2>5
<1> HIDE DEF T
<1>8. \A s \in Seq(Bucket) : s \in T
  BY <1>6, <1>7, SeqInduct
<1>9. bb \in T
  BY <1>8
<1> QED BY <1>2, <1>5, <1>9 DEF T

\* The bytes of several calls are those of each of them.
LEMMA CallsFacts ==
    ASSUME FilterConstants
    PROVE  /\ Calls(<<>>) = <<>>
           /\ \A it \in ItemType :
                Calls(<<it>>) = it.d \o Payload(it.bb) /\ it.d \in Seq(Nat)
                /\ it.bb \in Seq(Bucket) /\ Payload(it.bb) \in Seq(Nat)
           /\ \A p \in Seq(ItemType) : Calls(p) \in Seq(Nat)
           /\ \A p, q \in Seq(ItemType) : Calls(p \o q) = Calls(p) \o Calls(q)
<1> DEFINE f == [it \in ItemType |-> it.d \o Payload(it.bb)]
<1>1. ASSUME NEW it \in ItemType
      PROVE  /\ it.d \in Seq(Nat) /\ it.bb \in Seq(Bucket) /\ Payload(it.bb) \in Seq(Nat)
             /\ it.d \o Payload(it.bb) \in Seq(Nat)
  <2>1. it.d \in Seq(Nat) /\ it.bb \in Seq(Bucket)
    BY DEF ItemType
  <2>2. Payload(it.bb) \in Seq(Nat)
    BY <2>1, PayloadFacts
  <2> QED BY <2>1, <2>2, Cat
<1>2. f \in [ItemType -> Seq(Nat)]
  <2> HIDE DEF ItemType
  <2> QED BY <1>1
<1>3. ASSUME NEW p \in Seq(ItemType) PROVE Calls(p) = Gather(f, p)
  <2>1. \A i \in 1 .. Len(p) : f[p[i]] = p[i].d \o Payload(p[i].bb)
    <3>1. \A i \in 1 .. Len(p) : p[i] \in ItemType
      BY ElementOfSeq
    <3> HIDE DEF ItemType
    <3> QED BY <3>1
  <2>2. [i \in 1 .. Len(p) |-> f[p[i]]]
          = [i \in 1 .. Len(p) |-> p[i].d \o Payload(p[i].bb)]
    <3> HIDE DEF f
    <3> QED BY <2>1
  <2> QED BY <2>2 DEF Calls, Gather
<1>4. \A it \in ItemType : f[it] = it.d \o Payload(it.bb)
  OBVIOUS
<1> HIDE DEF f
<1>5. /\ Gather(f, <<>>) = <<>>
      /\ \A x \in ItemType : Gather(f, <<x>>) = f[x]
      /\ \A s, t \in Seq(ItemType) : Gather(f, s \o t) = Gather(f, s) \o Gather(f, t)
  BY <1>2, GatherFacts
<1>6. ASSUME NEW p \in Seq(ItemType) PROVE Calls(p) \in Seq(Nat)
  <2>1. Gather(f, p) \in Seq(Nat)
    BY <1>2, GatherAppend
  <2> QED BY <1>3, <2>1
<1>7. ASSUME NEW it \in ItemType PROVE Calls(<<it>>) = it.d \o Payload(it.bb)
  <2>1. <<it>> \in Seq(ItemType)
    OBVIOUS
  <2> QED BY <1>3, <1>4, <1>5, <2>1
<1>8. Calls(<<>>) = <<>>
  <2>1. <<>> \in Seq(ItemType)
    OBVIOUS
  <2> QED BY <1>3, <1>5, <2>1
<1>9. ASSUME NEW p \in Seq(ItemType), NEW q \in Seq(ItemType)
      PROVE  Calls(p \o q) = Calls(p) \o Calls(q)
  <2>1. p \o q \in Seq(ItemType)
    BY ConcatProperties
  <2> QED BY <1>3, <1>5, <2>1
<1> QED BY <1>1, <1>6, <1>7, <1>8, <1>9

\* The first call and the others.
LEMMA CallsTail ==
    ASSUME FilterConstants, NEW p \in Seq(ItemType), p # <<>>
    PROVE  /\ Head(p) \in ItemType /\ Tail(p) \in Seq(ItemType) /\ Head(p) = p[1]
           /\ Calls(p) = (p[1].d \o Payload(p[1].bb)) \o Calls(Tail(p))
<1>1. Head(p) \in ItemType /\ Tail(p) \in Seq(ItemType) /\ Head(p) = p[1]
  BY HeadTailProperties
<1>2. p = <<Head(p)>> \o Tail(p) /\ <<Head(p)>> \in Seq(ItemType)
  <2>1. Len(p) \in Nat \ {0}
    BY EmptySeq
  <2>2. 1 \in 1 .. Len(p) /\ Len(p) \in 1 .. Len(p)
    BY <2>1
  <2>3. SubSeq(p, 1, Len(p)) = <<p[1]>> \o SubSeq(p, 1 + 1, Len(p))
    BY <2>2, SubSeqRecursiveFirst
  <2>4. SubSeq(p, 1, Len(p)) = p
    BY SubSeqFull
  <2>5. Tail(p) = SubSeq(p, 2, Len(p))
    BY TailIsSubSeq
  <2>6. 1 + 1 = 2
    OBVIOUS
  <2> QED BY <1>1, <2>3, <2>4, <2>5, <2>6
<1> QED BY <1>1, <1>2, CallsFacts, ZenonT(60)


-----------------------------------------------------------------------------
(* Reading.                                                                *)

\* Of a brigade the buckets up to j, and those behind.
LEMMA BrigadeCut ==
    ASSUME FilterConstants, NEW bb \in Seq(Bucket), BrigadeOK(bb), NEW j \in 0 .. Len(bb)
    PROVE  /\ SubSeq(bb, 1, j) \in Seq(Bucket) /\ Payload(SubSeq(bb, 1, j)) \in Seq(Nat)
           /\ SubSeq(bb, j + 1, Len(bb)) \in Seq(Bucket)
           /\ Payload(SubSeq(bb, j + 1, Len(bb))) \in Seq(Nat)
           /\ Payload(bb) = Payload(SubSeq(bb, 1, j)) \o Payload(SubSeq(bb, j + 1, Len(bb)))
           /\ BrigadeOK(SubSeq(bb, j + 1, Len(bb)))
           /\ j # 0 => Payload(SubSeq(bb, 1, j))
                         = Payload(SubSeq(bb, 1, j - 1)) \o Payload(<<bb[j]>>)
           /\ j # 0 /\ ~IsData(bb[j]) => SubSeq(bb, j + 1, Len(bb)) = <<>>
<1> DEFINE c == SubSeq(bb, 1, j)
           d == SubSeq(bb, j + 1, Len(bb))
           n == Len(bb)
<1>1. n \in Nat /\ j \in Nat /\ j <= n /\ \A i \in 1 .. n : bb[i] \in Bucket
  BY ElementOfSeq, LenProperties
<1>2. ASSUME NEW k \in 0 .. n PROVE SubSeq(bb, 1, k) \in Seq(Bucket)
  <2>1. \A i \in 1 .. k : bb[i] \in Bucket
    BY <1>1
  <2>2. 1 \in Int /\ k \in Int
    BY <1>1
  <2> QED BY <2>1, <2>2, SubSeqProperties
<1>3. /\ d \in Seq(Bucket) /\ Len(d) = n - j
      /\ \A i \in 1 .. n - j : d[i] = bb[j + i]
  <2>1. \A i \in j + 1 .. n : bb[i] \in Bucket
    BY <1>1
  <2>2. j + 1 \in Int /\ n \in Int
    BY <1>1
  <2>3. /\ d \in Seq(Bucket)
        /\ Len(d) = IF j + 1 <= n THEN n - (j + 1) + 1 ELSE 0
        /\ \A i \in 1 .. n - (j + 1) + 1 : d[i] = bb[j + 1 + i - 1]
    <3> HIDE DEF n
    <3> QED BY <2>1, <2>2, SubSeqProperties DEF n
  <2> HIDE DEF d, n
  <2>4. n - (j + 1) + 1 = n - j /\ \A i \in 1 .. n - j : j + 1 + i - 1 = j + i
    BY <1>1
  <2>5. Len(d) = n - j
    BY <1>1, <2>3
  <2>6. ASSUME NEW i \in 1 .. n - j PROVE d[i] = bb[j + i]
    <3>1. d[i] = bb[j + 1 + i - 1]
      BY <2>3, <2>4
    <3>2. j + 1 + i - 1 = j + i
      BY <2>4
    <3> QED BY <3>1, <3>2
  <2> QED BY <2>3, <2>5, <2>6
<1>4. c \o d = bb
  <2>1. 1 \in 1 .. n + 1 /\ j \in 1 - 1 .. n /\ n \in j .. n
    BY <1>1
  <2>2. c \o d = SubSeq(bb, 1, n)
    BY <2>1, ConcatAdjacentSubSeq
  <2> QED BY <2>2, SubSeqFull
<1>5. c \in Seq(Bucket)
  BY <1>2
<1>6. BrigadeOK(d)
  <2> HIDE DEF d, n
  <2>1. ASSUME NEW i \in 1 .. Len(d), i # Len(d) PROVE IsData(d[i])
    <3>1. d[i] = bb[j + i] /\ j + i \in 1 .. n /\ j + i # n
      BY <1>1, <1>3, <2>1
    <3> QED BY <3>1 DEF BrigadeOK, n
  <2> QED BY <2>1 DEF BrigadeOK
<1>7. ASSUME j # 0
      PROVE  Payload(c) = Payload(SubSeq(bb, 1, j - 1)) \o Payload(<<bb[j]>>)
  <2>1. 1 \in 1 .. n /\ j \in 1 .. n /\ j - 1 \in 0 .. n
    BY <1>1, <1>7
  <2>2. c = SubSeq(bb, 1, j - 1) \o <<bb[j]>>
    BY <2>1, SubSeqRecursiveSecond
  <2>3. SubSeq(bb, 1, j - 1) \in Seq(Bucket) /\ <<bb[j]>> \in Seq(Bucket)
    <3>1. bb[j] \in Bucket
      BY <1>1, <2>1
    <3> QED BY <1>2, <2>1, <3>1
  <2> HIDE DEF c
  <2> QED BY <2>2, <2>3, PayloadFacts
<1>8. ASSUME j # 0, ~IsData(bb[j]) PROVE d = <<>>
  <2>1. j = n
    BY <1>1, <1>8 DEF BrigadeOK
  <2>2. n \in Int /\ j + 1 \in Int /\ n < j + 1
    BY <1>1, <2>1
  <2> QED BY <2>2, SubSeqEmpty
<1> HIDE DEF c, d
<1>9. Payload(bb) = Payload(c) \o Payload(d) /\ Payload(c) \in Seq(Nat) /\ Payload(d) \in Seq(Nat)
  BY <1>3, <1>4, <1>5, PayloadFacts
<1> QED BY <1>3, <1>5, <1>6, <1>7, <1>8, <1>9 DEF c, d

\* Reading loses nothing, and reads nothing only when there is nothing left;
\* what follows EOS is nothing.
ReadOK(v, r) ==
    /\ r.got \in Seq(Nat) /\ r.v \in InvType
    /\ r.v.wb = v.wb /\ r.v.bb_out = v.bb_out /\ r.v.room = v.room /\ r.v.got = v.got
    /\ r.got \o (r.v.left \o Payload(r.v.bb)) = v.left \o Payload(v.bb)
    /\ r.got = <<>> \/ r.v.seen_eos => r.v.left = <<>> /\ r.v.bb = <<>>
    /\ BrigadeOK(r.v.bb)

\* A read of that form takes its bytes off the front of what is unread.
LEMMA ReadResult ==
    ASSUME NEW v \in InvType, NEW got \in Seq(Nat), NEW left \in Seq(Nat),
           NEW bb \in Seq(Bucket), NEW se \in BOOLEAN, NEW fl \in BOOLEAN,
           got \o (left \o Payload(bb)) = v.left \o Payload(v.bb),
           got = <<>> \/ se => left = <<>> /\ bb = <<>>,
           BrigadeOK(bb)
    PROVE  ReadOK(v, [got |-> got, v |-> [v EXCEPT !.left = left, !.bb = bb,
                                                   !.seen_eos = se, !.flush = fl]])
<1> DEFINE u == [v EXCEPT !.left = left, !.bb = bb, !.seen_eos = se, !.flush = fl]
           r == [got |-> got, v |-> u]
<1>1. /\ u \in InvType /\ u.left = left /\ u.bb = bb /\ u.seen_eos = se
      /\ u.wb = v.wb /\ u.bb_out = v.bb_out /\ u.room = v.room /\ u.got = v.got
  BY DEF InvType
<1>2. r.got = got /\ r.v = u
  OBVIOUS
<1> HIDE DEF u, r
<1>3. ReadOK(v, r)
  BY <1>1, <1>2 DEF ReadOK
<1> QED BY <1>3 DEF r, u

\* modperl_filter_read returns the front of what is unread, whatever was asked
\* for, and leaves the rest unread.
LEMMA FilterReads ==
    ASSUME FilterConstants, NEW v \in InvType, NEW w \in Nat \ {0}, BrigadeOK(v.bb),
           v.seen_eos => v.left = <<>> /\ v.bb = <<>>
    PROVE  ReadOK(v, FilterRead(v, w))
<1> DEFINE n == Len(v.bb)
           after(j) == SubSeq(v.bb, j + 1, Len(v.bb))
           upto(j) == v.left \o Payload(SubSeq(v.bb, 1, j))
           ends(j) == \/ j = Len(v.bb) + 1
                      \/ ~IsData(v.bb[j])
                      \/ Len(upto(j)) >= w
           stop == CHOOSE j \in 1..(Len(v.bb) + 1) :
                       ends(j) /\ \A i \in 1..(j - 1) : ~ends(i)
           res(got, left, bb) == [got |-> got, v |-> [v EXCEPT !.left = left, !.bb = bb]]
           marked == [got |-> upto(stop - 1),
                      v |-> [v EXCEPT !.left = <<>>, !.bb = after(stop),
                                      !.seen_eos = v.bb[stop] = EOS,
                                      !.flush = @ \/ v.bb[stop] = FLUSH]]
           full(got, left, bb, se, fl) ==
             [got |-> got, v |-> [v EXCEPT !.left = left, !.bb = bb,
                                           !.seen_eos = se, !.flush = fl]]
<1>1. FilterRead(v, w) =
        IF v.seen_eos THEN res(<<>>, v.left, v.bb)
        ELSE IF Len(v.left) >= w
        THEN res(SubSeq(v.left, 1, w), SubSeq(v.left, w + 1, Len(v.left)), v.bb)
        ELSE IF stop = Len(v.bb) + 1 THEN res(upto(stop - 1), <<>>, <<>>)
        ELSE IF IsData(v.bb[stop])
        THEN res(SubSeq(upto(stop), 1, w),
                 SubSeq(upto(stop), w + 1, Len(upto(stop))), after(stop))
        ELSE marked
  BY DEF FilterRead
<1>2. /\ v.bb \in Seq(Bucket) /\ v.left \in Seq(Nat) /\ v.seen_eos \in BOOLEAN
      /\ v.flush \in BOOLEAN
  BY DEF InvType
<1>3. n \in Nat /\ w \in Nat /\ w # 0 /\ Len(v.left) \in Nat /\ Payload(v.bb) \in Seq(Nat)
  BY <1>2, PayloadFacts, Cat
<1>4. stop \in 1 .. n + 1 /\ ends(stop)
  <2> HIDE DEF ends
  <2> DEFINE T == {j \in 1 .. n + 1 : ends(j)}
  <2>1. T \in SUBSET Nat /\ n + 1 \in T
    <3>1. n + 1 \in 1 .. n + 1 /\ 1 .. n + 1 \subseteq Nat
      BY <1>3
    <3>2. ends(n + 1)
      BY DEF ends
    <3> QED BY <3>1, <3>2
  <2>2. T # {}
    BY <2>1
  <2>3. PICK m \in T : \A k \in T : m <= k
    <3> HIDE DEF T
    <3> QED BY <2>1, <2>2, LeastElement
  <2>4. m \in 1 .. n + 1 /\ ends(m)
    OBVIOUS
  <2>5. ASSUME NEW i \in 1 .. m - 1 PROVE ~ends(i)
    <3>1. i \in 1 .. n + 1 /\ ~(m <= i)
      BY <1>3, <2>4
    <3> QED BY <2>3, <3>1
  <2> HIDE DEF T
  <2>6. \E j \in 1 .. Len(v.bb) + 1 : ends(j) /\ \A i \in 1 .. j - 1 : ~ends(i)
    BY <2>4, <2>5
  <2> QED BY <2>6
<1>5. ASSUME NEW got, NEW left, NEW bb
      PROVE  res(got, left, bb) = full(got, left, bb, v.seen_eos, v.flush)
  BY <1>2 DEF InvType
<1>6. CASE v.seen_eos
  <2>1. FilterRead(v, w) = full(<<>>, v.left, v.bb, v.seen_eos, v.flush)
    <3> HIDE DEF res, full, stop, ends, upto, after, marked
    <3> QED BY <1>1, <1>5, <1>6
  <2>2. <<>> \o (v.left \o Payload(v.bb)) = v.left \o Payload(v.bb) /\ <<>> \in Seq(Nat)
    BY <1>2, <1>3, Cat
  <2>3. ReadOK(v, full(<<>>, v.left, v.bb, v.seen_eos, v.flush))
    BY <1>2, <1>6, <2>2, ReadResult
  <2> HIDE DEF full
  <2> QED BY <2>1, <2>3
<1>7. CASE ~v.seen_eos /\ Len(v.left) >= w
  <2> DEFINE got == SubSeq(v.left, 1, w)
             left == SubSeq(v.left, w + 1, Len(v.left))
  <2>1. FilterRead(v, w) = full(got, left, v.bb, v.seen_eos, v.flush)
    <3> HIDE DEF res, full, stop, ends, upto, after, marked
    <3> QED BY <1>1, <1>5, <1>7
  <2>2. w \in 0 .. Len(v.left)
    BY <1>3, <1>7
  <2>3. got \in Seq(Nat) /\ left \in Seq(Nat) /\ got \o left = v.left /\ Len(got) = w
    BY <1>2, <2>2, Cut
  <2> HIDE DEF got, left
  <2>4. got # <<>> /\ got \o (left \o Payload(v.bb)) = v.left \o Payload(v.bb)
    <3>1. (got \o left) \o Payload(v.bb) = got \o (left \o Payload(v.bb))
      BY <1>3, <2>3, Assoc
    <3> QED BY <1>3, <2>3, <3>1, Cat
  <2>5. ReadOK(v, full(got, left, v.bb, v.seen_eos, v.flush))
    BY <1>2, <1>7, <2>3, <2>4, ReadResult
  <2> HIDE DEF full
  <2> QED BY <2>1, <2>5
<1>8. CASE ~v.seen_eos /\ ~(Len(v.left) >= w) /\ stop = n + 1
  <2> DEFINE got == v.left \o Payload(v.bb)
  <2>1. upto(stop - 1) = got
    <3>1. stop - 1 = Len(v.bb)
      <4> HIDE DEF stop
      <4> QED BY <1>3, <1>8
    <3>2. SubSeq(v.bb, 1, Len(v.bb)) = v.bb
      BY <1>2, SubSeqFull
    <3> HIDE DEF stop
    <3> QED BY <3>1, <3>2
  <2>2. FilterRead(v, w) = full(got, <<>>, <<>>, v.seen_eos, v.flush)
    <3> HIDE DEF res, full, stop, ends, upto, after, marked, got
    <3> QED BY <1>1, <1>5, <1>8, <2>1
  <2>3. got \in Seq(Nat) /\ <<>> \in Seq(Nat) /\ <<>> \in Seq(Bucket)
    BY <1>2, <1>3, Cat
  <2>4. got \o (<<>> \o Payload(<<>>)) = v.left \o Payload(v.bb)
    <3>1. <<>> \o Payload(<<>>) = <<>>
      BY PayloadFacts, Cat
    <3>2. got \o <<>> = got
      <4> HIDE DEF got
      <4> QED BY <2>3, Cat
    <3> QED BY <3>1, <3>2
  <2>5. BrigadeOK(<<>>)
    BY DEF BrigadeOK
  <2> HIDE DEF got
  <2>6. ReadOK(v, full(got, <<>>, <<>>, v.seen_eos, v.flush))
    BY <1>2, <1>8, <2>3, <2>4, <2>5, ReadResult
  <2> HIDE DEF full
  <2> QED BY <2>2, <2>6
<1>9. CASE ~v.seen_eos /\ ~(Len(v.left) >= w) /\ stop # n + 1
  <2> DEFINE d == after(stop)
             u == upto(stop)
             a == Payload(SubSeq(v.bb, 1, stop))
             x == Payload(SubSeq(v.bb, 1, stop - 1))
  <2>1. stop \in 0 .. Len(v.bb) /\ stop # 0 /\ stop - 1 \in 0 .. Len(v.bb)
    <3> HIDE DEF stop, ends
    <3> QED BY <1>3, <1>4, <1>9
  <2>2. /\ a \in Seq(Nat) /\ d \in Seq(Bucket) /\ Payload(d) \in Seq(Nat)
        /\ Payload(v.bb) = a \o Payload(d) /\ BrigadeOK(d)
        /\ a = x \o Payload(<<v.bb[stop]>>)
        /\ ~IsData(v.bb[stop]) => d = <<>>
    <3> HIDE DEF stop
    <3> QED BY <1>2, <2>1, BrigadeCut
  <2>2a. x \in Seq(Nat)
    <3> HIDE DEF stop
    <3> QED BY <1>2, <2>1, BrigadeCut
  <2>3. u = v.left \o a /\ upto(stop - 1) = v.left \o x
    OBVIOUS
  <2>4. v.bb[stop] \in Bucket
    <3> HIDE DEF stop
    <3>1. stop \in 1 .. Len(v.bb)
      BY <1>3, <2>1
    <3> QED BY <1>2, <3>1, ElementOfSeq
  <2>5. CASE IsData(v.bb[stop])
    <3> DEFINE got == SubSeq(u, 1, w)
               left == SubSeq(u, w + 1, Len(u))
    <3>1. FilterRead(v, w) = full(got, left, d, v.seen_eos, v.flush)
      <4> HIDE DEF res, full, stop, ends, upto, after, marked
      <4> QED BY <1>1, <1>5, <1>9, <2>5
    <3>2. Len(u) >= w
      <4> HIDE DEF stop, u, upto
      <4> QED BY <1>4, <1>9, <2>5 DEF u
    <3> HIDE DEF u, a, d, x, stop
    <3>3. u \in Seq(Nat)
      BY <1>2, <2>2, <2>3, Cat
    <3>4. w \in 0 .. Len(u)
      BY <1>3, <3>2, <3>3
    <3>5. got \in Seq(Nat) /\ left \in Seq(Nat) /\ got \o left = u /\ Len(got) = w
      BY <3>3, <3>4, Cut
    <3> HIDE DEF got, left
    <3>6. got # <<>> /\ got \o (left \o Payload(d)) = v.left \o Payload(v.bb)
      <4>1. (got \o left) \o Payload(d) = got \o (left \o Payload(d))
        BY <2>2, <3>5, Assoc, ZenonT(60)
      <4>2. (v.left \o a) \o Payload(d) = v.left \o (a \o Payload(d))
        BY <1>2, <2>2, Assoc
      <4>3. (got \o left) \o Payload(d) = (v.left \o a) \o Payload(d)
        BY <2>3, <3>5
      <4>4. v.left \o (a \o Payload(d)) = v.left \o Payload(v.bb)
        BY <2>2
      <4>5. got # <<>>
        BY <1>3, <3>5, Cat
      <4> QED BY <4>1, <4>2, <4>3, <4>4, <4>5
    <3>7. ReadOK(v, full(got, left, d, v.seen_eos, v.flush))
      BY <1>2, <1>9, <2>2, <3>5, <3>6, ReadResult
    <3> HIDE DEF full
    <3> QED BY <3>1, <3>7
  <2>6. CASE ~IsData(v.bb[stop])
    <3> DEFINE got == v.left \o x
               se == v.bb[stop] = EOS
               fl == v.flush \/ v.bb[stop] = FLUSH
    <3>1. FilterRead(v, w) = marked
      <4> HIDE DEF res, full, stop, ends, upto, after, marked
      <4> QED BY <1>1, <1>9, <2>6
    <3>2. marked = full(got, <<>>, d, se, fl)
      <4> HIDE DEF stop
      <4> QED OBVIOUS
    <3> HIDE DEF a, d, x, stop, u
    <3>3. got \in Seq(Nat) /\ <<>> \in Seq(Nat) /\ se \in BOOLEAN /\ fl \in BOOLEAN
      BY <1>2, <2>2a, Cat
    <3>4. Payload(<<v.bb[stop]>>) = <<>>
      BY <2>4, <2>6, Marks, PayloadFacts
    <3>5. a = x
      BY <2>2, <2>2a, <3>4, Cat
    <3>6. got \o (<<>> \o Payload(d)) = v.left \o Payload(v.bb)
      <4>1. <<>> \o Payload(d) = Payload(d)
        BY <2>2, Cat
      <4>2. (v.left \o x) \o Payload(d) = v.left \o (x \o Payload(d))
        BY <1>2, <2>2, <2>2a, Assoc, ZenonT(60)
      <4> QED BY <2>2, <3>5, <4>1, <4>2
    <3> HIDE DEF got, se, fl
    <3>7. ReadOK(v, full(got, <<>>, d, se, fl))
      BY <1>2, <2>2, <2>6, <3>3, <3>6, ReadResult
    <3> HIDE DEF full, marked
    <3> QED BY <3>1, <3>2, <3>7
  <2> QED BY <2>5, <2>6
<1> HIDE DEF stop
<1> QED BY <1>6, <1>7, <1>8, <1>9


-----------------------------------------------------------------------------
(* What is in the filter, and what is still to be passed.                  *)

\* The fields of the response handler's state and of an invocation's.
LEMMA RespFields ==
    ASSUME NEW rs \in RespType
    PROVE  /\ rs.pending \in Seq(ItemType) /\ rs.buf \in Seq(Nat) /\ rs.n \in Nat
           /\ rs.want \in Nat /\ rs.flushes \in Nat
           /\ rs.parse \in BOOLEAN /\ rs.cgi \in BOOLEAN /\ rs.err \in BOOLEAN
           /\ Len(rs.buf) \in Nat
BY DEF RespType

\* The same for a running invocation.
LEMMA InvFields ==
    ASSUME FilterConstants, NEW v \in InvType
    PROVE  /\ v # None /\ v.wb \in Seq(Nat) /\ v.left \in Seq(Nat)
           /\ v.bb \in Seq(Bucket) /\ v.bb_out \in Seq(Bucket)
           /\ Payload(v.bb) \in Seq(Nat) /\ Payload(v.bb_out) \in Seq(Nat)
           /\ v.seen_eos \in BOOLEAN /\ v.flush \in BOOLEAN /\ v.dry \in BOOLEAN
           /\ v.read \in BOOLEAN /\ v.got \in BOOLEAN /\ v.room \in Nat
           /\ Len(v.wb) \in Nat
<1>1. /\ v.wb \in Seq(Nat) /\ v.left \in Seq(Nat)
      /\ v.bb \in Seq(Bucket) /\ v.bb_out \in Seq(Bucket)
      /\ v.seen_eos \in BOOLEAN /\ v.flush \in BOOLEAN /\ v.dry \in BOOLEAN
      /\ v.read \in BOOLEAN /\ v.got \in BOOLEAN /\ v.room \in Nat
  BY DEF InvType
<1>2. v # None
  BY DEF FilterConstants
<1> QED BY <1>1, <1>2, PayloadFacts, Cat

\* What has passed the buffer is bytes, and is what came out with what the
\* filter holds behind it.
LEMMA ThroughType ==
    ASSUME FilterConstants, NEW o \in Seq(Marked), NEW h \in Seq(Nat),
           NEW v \in InvType \cup {None}
    PROVE  /\ BytesOf(o) \in Seq(Nat) /\ InFilter(v, h) \in Seq(Nat)
           /\ Through(o, v, h) \in Seq(Nat) /\ Through(o, v, h) = BytesOf(o) \o InFilter(v, h)
<1>1. BytesOf(o) \in Seq(Nat)
  BY BytesOfFacts
<1>2. InFilter(v, h) \in Seq(Nat)
  <2>1. CASE v = None
    BY <2>1 DEF InFilter
  <2>2. CASE v # None
    <3> DEFINE a == v.wb
               b == Payload(v.bb_out)
               c == v.left
               d == Payload(v.bb)
    <3>1. a \in Seq(Nat) /\ b \in Seq(Nat) /\ c \in Seq(Nat) /\ d \in Seq(Nat)
      <4>1. v \in InvType
        BY <2>2
      <4> QED BY <4>1, InvFields
    <3>2. InFilter(v, h) = a \o (b \o (h \o (c \o d)))
      BY <2>2 DEF InFilter
    <3> HIDE DEF a, b, c, d
    <3>3. c \o d \in Seq(Nat)
      BY <3>1, Cat
    <3>4. h \o (c \o d) \in Seq(Nat)
      BY <3>3, Cat
    <3>5. b \o (h \o (c \o d)) \in Seq(Nat)
      BY <3>1, <3>4, Cat
    <3> QED BY <3>1, <3>2, <3>5, Cat
  <2> QED BY <2>1, <2>2
<1> QED BY <1>1, <1>2, Cat DEF Through

\* A brigade that enters the filter, and one that comes out.
LEMMA ThroughNew ==
    ASSUME FilterConstants, NEW o \in Seq(Marked), NEW h \in Seq(Nat),
           NEW v \in InvType, v.wb = <<>>, v.bb_out = <<>>, v.left = <<>>
    PROVE  Through(o, v, h) = Through(o, None, h) \o Payload(v.bb)
<1> DEFINE d == Payload(v.bb)
           b == BytesOf(o)
<1>1. v # None /\ d \in Seq(Nat) /\ b \in Seq(Nat) /\ Payload(<<>>) = <<>>
  BY InvFields, ThroughType, PayloadFacts, BytesOfFacts
<1>2. InFilter(v, h) = <<>> \o (<<>> \o (h \o (<<>> \o d)))
  BY <1>1 DEF InFilter
<1>3. InFilter(None, h) = h
  BY DEF InFilter
<1> HIDE DEF b, d
<1>4. <<>> \o d = d /\ h \o d \in Seq(Nat)
  BY <1>1, Cat
<1>5. InFilter(v, h) = h \o d
  BY <1>2, <1>4, Cat
<1>6. b \o (h \o d) = (b \o h) \o d
  BY <1>1, Assoc
<1> QED BY <1>3, <1>5, <1>6 DEF Through, b, d

\* A brigade that comes out between two invocations adds its bytes at the end.
LEMMA ThroughOut ==
    ASSUME FilterConstants, NEW o \in Seq(Marked), NEW bb \in Seq(Bucket)
    PROVE  /\ o \o Flat(bb) \in Seq(Marked)
           /\ Through(o \o Flat(bb), None, <<>>) = Through(o, None, <<>>) \o Payload(bb)
<1>1. Flat(bb) \in Seq(Marked) /\ BytesOf(Flat(bb)) = Payload(bb) /\ Payload(bb) \in Seq(Nat)
      /\ BytesOf(o) \in Seq(Nat)
  BY FlatFacts, PayloadFacts, BytesOfFacts
<1>2. BytesOf(o \o Flat(bb)) = BytesOf(o) \o Payload(bb)
  BY <1>1, BytesOfFacts, ZenonT(60)
<1>3. \A s : InFilter(None, s) = s
  BY DEF InFilter
<1>4. BytesOf(o) \o Payload(bb) \in Seq(Nat)
  BY <1>1, Cat
<1>5. o \o Flat(bb) \in Seq(Marked)
  BY <1>1, ConcatProperties
<1>6. Through(o, None, <<>>) = BytesOf(o)
  <2>1. Through(o, None, <<>>) = BytesOf(o) \o <<>>
    BY <1>3 DEF Through
  <2> QED BY <1>1, <2>1, Cat
<1>7. Through(o \o Flat(bb), None, <<>>) = BytesOf(o) \o Payload(bb)
  <2>1. Through(o \o Flat(bb), None, <<>>) = BytesOf(o \o Flat(bb)) \o <<>>
    BY <1>3 DEF Through
  <2> QED BY <1>2, <1>4, <2>1, Cat
<1> QED BY <1>5, <1>6, <1>7

\* The calls left to make are calls.
LEMMA TodoFacts ==
    ASSUME NEW rs \in RespType, NEW v, rs.pending # <<>> \/ v = None
    PROVE  /\ v = None => Todo(rs, v) = rs.pending
           /\ v # None => Todo(rs, v) = Tail(rs.pending)
           /\ Todo(rs, v) \in Seq(ItemType)
<1>1. rs.pending \in Seq(ItemType)
  BY RespFields
<1>2. /\ v = None => Todo(rs, v) = rs.pending
      /\ v # None => Todo(rs, v) = Tail(rs.pending)
  BY DEF Todo
<1>3. rs.pending # <<>> => Tail(rs.pending) \in Seq(ItemType)
  BY <1>1, HeadTailProperties
<1> QED BY <1>1, <1>2, <1>3

\* What is left of calls when the first one is done.
LEMMA ReadyTail ==
    ASSUME NEW p \in Seq(ItemType), p # <<>>, NEW b \in Seq(Nat), Ready(p, b),
           FilterConstants
    PROVE  /\ Ready(Tail(p), <<>>)
           /\ p[1].op # "flush" => \A c : Ready(Tail(p), c)
           /\ p[1].op = "flushed" => Tail(p) = <<>>
           /\ ItemOK(p[1])
           /\ Buffered(p) => Buffered(Tail(p))
           /\ NoCopy(p) => NoCopy(Tail(p))
<1> DEFINE q == Tail(p)
<1>1. /\ q \in Seq(ItemType) /\ Len(p) \in Nat \ {0} /\ Len(q) = Len(p) - 1
      /\ \A i \in 1 .. Len(q) : q[i] = p[i + 1]
  BY HeadTailProperties, EmptySeq
<1> HIDE DEF q
<1>2. \A i \in 1 .. Len(q) : i + 1 \in 1 .. Len(p) /\ i + 1 # 1 /\ (i + 1 = 2 <=> i = 1)
                             /\ (i + 1 = Len(p) <=> i = Len(q))
  BY <1>1
<1>3. ItemOK(p[1]) /\ (p[1].op = "flushed" => Len(p) = 1)
  <2>1. 1 \in 1 .. Len(p)
    BY <1>1
  <2> QED BY <2>1 DEF Ready
<1>4. p[1].op = "flushed" => q = <<>>
  BY <1>1, <1>3
<1>5. \A i \in 1 .. Len(q) : ItemOK(q[i]) /\ (q[i].op = "flushed" => i = Len(q))
  BY <1>1, <1>2, ZenonT(60) DEF Ready
<1>6. \A i \in 1 .. Len(q) : q[i].op # "flush" =>
        i = 1 /\ p[1].op = "flush" /\ (q[i].op = "copy" => Len(q[i].d) <= BufSize)
  <2>1. \A j \in 1 .. Len(p) : j # 1 /\ p[j].op # "flush" =>
          j = 2 /\ p[1].op = "flush" /\ (p[j].op = "copy" => Len(p[j].d) <= BufSize)
    BY DEF Ready
  <2> TAKE i \in 1 .. Len(q)
  <2>2. q[i] = p[i + 1] /\ i + 1 \in 1 .. Len(p) /\ i + 1 # 1 /\ (i + 1 = 2 <=> i = 1)
    BY <1>1, <1>2
  <2> QED BY <2>1, <2>2
<1>7. q # <<>> => 1 \in 1 .. Len(q)
  BY <1>1
<1>8. ASSUME NEW c, c = <<>> \/ p[1].op # "flush" PROVE Ready(q, c)
  <2>1. q # <<>> /\ q[1].op \in {"pass", "direct", "flushed"} => c = <<>>
    BY <1>6, <1>7, <1>8
  <2>2. q # <<>> /\ q[1].op = "copy" => Len(c) + Len(q[1].d) <= BufSize
    <3> SUFFICES ASSUME q # <<>>, q[1].op = "copy"
                 PROVE  Len(c) + Len(q[1].d) <= BufSize
      OBVIOUS
    <3>1. Len(q[1].d) <= BufSize /\ c = <<>>
      BY <1>6, <1>7, <1>8
    <3>2. q[1] \in ItemType
      BY <1>1, <1>7, ElementOfSeq
    <3>3. Len(q[1].d) \in Nat /\ BufSize \in Nat
      BY <3>2 DEF ItemType, FilterConstants
    <3> QED BY <3>1, <3>3
  <2>3. \A i \in 1 .. Len(q) : i # 1 /\ q[i].op # "flush" =>
          i = 2 /\ q[1].op = "flush" /\ (q[i].op = "copy" => Len(q[i].d) <= BufSize)
    BY <1>6
  <2> QED BY <1>5, <2>1, <2>2, <2>3 DEF Ready
<1>9. (Buffered(p) => Buffered(q)) /\ (NoCopy(p) => NoCopy(q))
  <2>1. Buffered(p) => Buffered(q)
    BY <1>1, <1>2, SMTT(30) DEF Buffered
  <2>2. NoCopy(p) => NoCopy(q)
    BY <1>1, <1>2, SMTT(30) DEF NoCopy
  <2> QED BY <2>1, <2>2
<1> QED BY <1>3, <1>4, <1>8, <1>9 DEF q

\* Without calls there is nothing to be ready for.
LEMMA ReadyEmpty ==
    \A b : Ready(<<>>, b) /\ Buffered(<<>>) /\ NoCopy(<<>>)
BY DEF Ready, Buffered, NoCopy


-----------------------------------------------------------------------------
(* The response handler makes a call.                                      *)

\* A call of the response handler between two invocations keeps the invariant
\* when its new bytes can be sent as they stand.
LEMMA NewCall ==
    ASSUME FilterConstants, FilterInv, inv = None, resp.pending = <<>>,
           resp' \in RespType, resp'.buf = resp.buf, resp'.parse = resp.parse,
           resp'.cgi = resp.cgi, resp'.err = resp.err,
           resp'.n \in resp.n .. Bytes,
           Calls(resp'.pending) = Numbers(resp.n, resp'.n),
           Ready(resp'.pending, resp.buf),
           resp.parse => Buffered(resp'.pending),
           resp'.at # "handler" => NoCopy(resp'.pending),
           resp'.at # "handler" /\ mode = "out" /\ resp.buf # <<>> =>
             resp'.pending # <<>> /\ resp'.pending[1].op = "flush",
           mode = "in" => resp'.n = resp.n /\ resp'.pending \in {<<>>, <<Direct(<<>>)>>},
           UNCHANGED <<mode, chained, sent_eos, held, inv, net, reset, out, flushed, lost>>
    PROVE  FilterInv'
<1> DEFINE n == resp.n
           m == resp'.n
           t == Through(out, inv, held)
           c == Numbers(n, m)
<1>1. resp \in RespType /\ out \in Seq(Marked) /\ held \in Seq(Nat) /\ inv \in InvType \cup {None}
      /\ flushed \in Nat /\ n \in 0 .. Bytes /\ Bytes \in Nat
  BY DEF FilterInv, FilterTypeOK, Marked, FilterConstants
<1>2. n \in Nat /\ m \in Nat /\ n <= m /\ m \in 0 .. Bytes
  BY <1>1
<1>3. t \in Seq(Nat) /\ resp.buf \in Seq(Nat) /\ Len(resp.buf) \in Nat /\ c \in Seq(Nat)
      /\ Len(c) = m - n
  BY <1>1, <1>2, ThroughType, RespFields, NumbersFacts
<1>4. Todo(resp, inv) = <<>> /\ Todo(resp', inv') = resp'.pending /\ inv' = None
  BY <1>1, TodoFacts
<1>5. FilterTypeOK'
  BY <1>2 DEF FilterInv, FilterTypeOK
<1>6. InvocationOK(inv', mode', resp'.want)
  BY <1>4 DEF InvocationOK
<1>7. ResponseOK(resp', mode', inv')
  BY <1>4 DEF FilterInv, ResponseOK
<1>8. Calls(Todo(resp', inv')) = c /\ Calls(Todo(resp, inv)) = <<>>
  BY <1>4, CallsFacts
<1>9. (flushed + Len(resp.buf) + Len(Calls(Todo(resp, inv))) <= resp.n)'
  <2>1. flushed + Len(resp.buf) + 0 <= n
    BY <1>8, Cat DEF FilterInv
  <2>2. flushed + Len(resp.buf) + (m - n) <= m
    <3> HIDE DEF n, m
    <3> QED BY <1>1, <1>2, <1>3, <2>1
  <2> HIDE DEF c
  <2> QED BY <1>3, <1>8, <2>2
<1>10. ASSUME ~lost', ~resp'.err
       PROVE  Whole(mode', resp', inv', held', net', out')
  <2>0. Whole(mode, resp, inv, held, net, out)
    BY <1>10 DEF FilterInv
  <2>1. CASE mode = "in"
    BY <2>0, <2>1 DEF Whole
  <2>2. CASE mode # "in"
    <3> DEFINE k == Skip(resp)
               b == resp.buf
    <3>1. k <= n /\ t \o (b \o <<>>) = Numbers(k, n) /\ (resp.parse => t = <<>>)
      BY <1>8, <2>0, <2>2 DEF Whole
    <3>2. Skip(resp') = k /\ k \in Nat
      BY DEF Skip, FilterConstants
    <3> HIDE DEF n, m, t, c, k
    <3>3. t \o b = Numbers(k, n) /\ b \in Seq(Nat)
      BY <1>3, <3>1, Cat
    <3>4. t \o (b \o c) = (t \o b) \o c
      BY <1>3, <3>3, Assoc
    <3>5. Numbers(k, n) \o c = Numbers(k, m)
      BY <1>2, <3>1, <3>2, NumbersFacts DEF c
    <3>6. t \o (b \o c) = Numbers(k, m) /\ k <= m
      BY <1>2, <3>1, <3>2, <3>3, <3>4, <3>5
    <3>7. Through(out', inv', held') = t /\ resp'.buf = b
      BY DEF t
    <3> QED BY <1>8, <2>2, <3>1, <3>2, <3>6, <3>7 DEF Whole, m
  <2> QED BY <2>1, <2>2
<1>11. ((reset => lost) /\ (inv # None => ~sent_eos)
        /\ (inv = None /\ (~chained \/ sent_eos) => held = <<>>))'
  BY DEF FilterInv
<1> QED BY <1>5, <1>6, <1>7, <1>9, <1>10, <1>11 DEF FilterInv

\* The items of calls.
ItemIs(it, op, d, bb) ==
    /\ it \in ItemType /\ it.op = op /\ it.d = d /\ it.bb = bb
    /\ ItemOK(it) /\ Calls(<<it>>) = d \o Payload(bb)

\* The fields of each call.
LEMMA Items ==
    ASSUME FilterConstants
    PROVE  /\ \A d \in Seq(Nat) : ItemIs(Pass(d), "pass", d, <<>>)
           /\ \A d \in Seq(Nat) : ItemIs(Copy(d), "copy", d, <<>>)
           /\ \A fl, tol \in BOOLEAN : ItemIs(Flush(fl, tol), "flush", <<>>, <<>>)
           /\ \A bb \in Seq(Bucket) : BrigadeOK(bb) => ItemIs(Direct(bb), "direct", <<>>, bb)
           /\ ItemIs(Flushed, "flushed", <<>>, <<>>)
<1>1. ASSUME NEW it \in ItemType, ItemOK(it) PROVE ItemIs(it, it.op, it.d, it.bb)
  <2>1. Calls(<<it>>) = it.d \o Payload(it.bb)
    BY CallsFacts
  <2> QED BY <1>1, <2>1 DEF ItemIs
<1>2. ASSUME NEW d \in Seq(Nat) PROVE ItemIs(Pass(d), "pass", d, <<>>)
  <2> DEFINE it == Item("pass")
             jt == Pass(d)
  <2>1. it \in ItemType /\ it.op = "pass" /\ it.d = <<>> /\ it.bb = <<>>
    BY DEF Item, ItemType
  <2>2. jt = [it EXCEPT !.d = d]
    BY DEF Pass
  <2> HIDE DEF it, jt
  <2>3. jt \in ItemType /\ jt.op = "pass" /\ jt.d = d /\ jt.bb = <<>>
    BY <2>1, <2>2 DEF ItemType
  <2>4. ItemOK(jt)
    BY <1>2, <2>3 DEF ItemOK
  <2>5. ItemIs(jt, jt.op, jt.d, jt.bb)
    BY <1>1, <2>3, <2>4
  <2> QED BY <2>3, <2>5 DEF jt
<1>3. ASSUME NEW d \in Seq(Nat) PROVE ItemIs(Copy(d), "copy", d, <<>>)
  <2> DEFINE it == Item("copy")
             jt == Copy(d)
  <2>1. it \in ItemType /\ it.op = "copy" /\ it.d = <<>> /\ it.bb = <<>>
    BY DEF Item, ItemType
  <2>2. jt = [it EXCEPT !.d = d]
    BY DEF Copy
  <2> HIDE DEF it, jt
  <2>3. jt \in ItemType /\ jt.op = "copy" /\ jt.d = d /\ jt.bb = <<>>
    BY <2>1, <2>2 DEF ItemType
  <2>4. ItemOK(jt)
    BY <1>3, <2>3 DEF ItemOK
  <2>5. ItemIs(jt, jt.op, jt.d, jt.bb)
    BY <1>1, <2>3, <2>4
  <2> QED BY <2>3, <2>5 DEF jt
<1>4. ASSUME NEW fl \in BOOLEAN, NEW tol \in BOOLEAN PROVE ItemIs(Flush(fl, tol), "flush", <<>>, <<>>)
  <2> DEFINE it == Item("flush")
             jt == Flush(fl, tol)
  <2>1. it \in ItemType /\ it.op = "flush" /\ it.d = <<>> /\ it.bb = <<>>
    BY DEF Item, ItemType
  <2>2. jt = [it EXCEPT !.fl = fl, !.tol = tol]
    BY DEF Flush
  <2> HIDE DEF it, jt
  <2>3. jt \in ItemType /\ jt.op = "flush" /\ jt.d = <<>> /\ jt.bb = <<>>
    BY <2>1, <2>2 DEF ItemType
  <2>4. ItemOK(jt)
    BY <1>4, <2>3 DEF ItemOK
  <2>5. ItemIs(jt, jt.op, jt.d, jt.bb)
    BY <1>1, <2>3, <2>4
  <2> QED BY <2>3, <2>5 DEF jt
<1>5. ASSUME NEW bb \in Seq(Bucket), BrigadeOK(bb) PROVE ItemIs(Direct(bb), "direct", <<>>, bb)
  <2> DEFINE it == Item("direct")
             jt == Direct(bb)
  <2>1. it \in ItemType /\ it.op = "direct" /\ it.d = <<>> /\ it.bb = <<>>
    BY DEF Item, ItemType
  <2>2. jt = [it EXCEPT !.bb = bb]
    BY DEF Direct
  <2> HIDE DEF it, jt
  <2>3. jt \in ItemType /\ jt.op = "direct" /\ jt.d = <<>> /\ jt.bb = bb
    BY <2>1, <2>2 DEF ItemType
  <2>4. ItemOK(jt)
    BY <1>5, <2>3 DEF ItemOK
  <2>5. ItemIs(jt, jt.op, jt.d, jt.bb)
    BY <1>1, <2>3, <2>4
  <2> QED BY <2>3, <2>5 DEF jt
<1>6. ItemIs(Flushed, "flushed", <<>>, <<>>)
  <2> DEFINE jt == Flushed
  <2>1. jt \in ItemType /\ jt.op = "flushed" /\ jt.d = <<>> /\ jt.bb = <<>>
    BY DEF Flushed, Item, ItemType
  <2> HIDE DEF jt
  <2>2. ItemOK(jt)
    BY <2>1 DEF ItemOK
  <2>3. ItemIs(jt, jt.op, jt.d, jt.bb)
    BY <1>1, <2>1, <2>2
  <2> QED BY <2>1, <2>3 DEF jt
<1> QED BY <1>2, <1>3, <1>4, <1>5, <1>6


\* Short sequences put together.
LEMMA Tuples ==
    ASSUME NEW S, NEW a \in S, NEW b \in S, NEW c \in S
    PROVE  /\ <<a>> \o <<b>> = <<a, b>> /\ <<a, b>> \o <<c>> = <<a, b, c>>
           /\ <<>> \o <<a>> = <<a>> /\ <<a>> \o <<>> = <<a>> /\ <<a, b>> \o <<>> = <<a, b>>
<1> DEFINE x == <<a>>
           y == <<b>>
           u == <<a, b>>
           w == <<c>>
           z == <<a, b, c>>
<1>1. /\ x \in Seq(S) /\ Len(x) = 1 /\ x[1] = a
      /\ y \in Seq(S) /\ Len(y) = 1 /\ y[1] = b
      /\ w \in Seq(S) /\ Len(w) = 1 /\ w[1] = c
      /\ u \in Seq(S) /\ Len(u) = 2 /\ u[1] = a /\ u[2] = b
      /\ z \in Seq(S) /\ Len(z) = 3 /\ z[1] = a /\ z[2] = b /\ z[3] = c
  OBVIOUS
<1> HIDE DEF x, y, u, w, z
<1>2. x \o y = u
  <2>1. x \o y \in Seq(S) /\ Len(x \o y) = 2 /\ (x \o y)[1] = a /\ (x \o y)[2] = b
    <3>1. /\ x \o y \in Seq(S) /\ Len(x \o y) = Len(x) + Len(y)
          /\ \A i \in 1 .. Len(x) + Len(y) : (x \o y)[i] =
                     IF i <= Len(x) THEN x[i] ELSE y[i - Len(x)]
      BY <1>1, ConcatProperties
    <3> QED BY <1>1, <3>1
  <2> QED BY <1>1, <2>1, SeqEqual
<1>3. u \o w = z
  <2>1. /\ u \o w \in Seq(S) /\ Len(u \o w) = Len(u) + Len(w)
        /\ \A i \in 1 .. Len(u) + Len(w) : (u \o w)[i] =
                     IF i <= Len(u) THEN u[i] ELSE w[i - Len(u)]
    BY <1>1, ConcatProperties
  <2>2. Len(u \o w) = 3
    BY <1>1, <2>1
  <2>3. (u \o w)[1] = a /\ (u \o w)[2] = b
    BY <1>1, <2>1
  <2>4. (u \o w)[3] = c
    BY <1>1, <2>1
  <2> QED BY <1>1, <2>1, <2>2, <2>3, <2>4, SeqEqual
<1>4. <<>> \o x = x /\ x \o <<>> = x /\ u \o <<>> = u
  BY <1>1, ConcatEmptySeq
<1> QED BY <1>2, <1>3, <1>4 DEF x, y, u, w, z

\* The call it between two optional flushes, with b in the buffer.
Surrounded(p, it, f, g, b, pre, post) ==
    /\ it \in ItemType /\ it.op \in {"pass", "copy", "direct"} /\ ItemOK(it)
    /\ f \in ItemType /\ f.op = "flush" /\ ItemOK(f)
    /\ g \in ItemType /\ g.op = "flush" /\ ItemOK(g)
    /\ b \in Seq(Nat) /\ pre \in BOOLEAN /\ post \in BOOLEAN
    /\ ~pre /\ it.op # "copy" => b = <<>>
    /\ ~pre /\ it.op = "copy" => Len(b) + Len(it.d) <= BufSize
    /\ it.op = "copy" => Len(it.d) <= BufSize
    /\ p = ((IF pre THEN <<f>> ELSE <<>>) \o <<it>>) \o (IF post THEN <<g>> ELSE <<>>)

\* A call with its flushes around it can be made and carries the call's bytes.
LEMMA Around ==
    ASSUME FilterConstants, NEW p, NEW it, NEW f, NEW g, NEW b, NEW pre, NEW post,
           Surrounded(p, it, f, g, b, pre, post)
    PROVE  /\ p \in Seq(ItemType) /\ Ready(p, b) /\ Calls(p) = it.d \o Payload(it.bb)
           /\ it.op # "direct" => Buffered(p)
           /\ p # <<>> /\ (pre => p[1].op = "flush")
<1> DEFINE x == IF pre THEN <<f>> ELSE <<>>
           y == IF post THEN <<g>> ELSE <<>>
<1> USE DEF Surrounded
<1>0. p = (x \o <<it>>) \o y /\ (pre => x = <<f>>) /\ (~pre => x = <<>>)
      /\ (post => y = <<g>>) /\ (~post => y = <<>>)
  OBVIOUS
<1>1. x \in Seq(ItemType) /\ y \in Seq(ItemType) /\ <<it>> \in Seq(ItemType)
  OBVIOUS
<1> HIDE DEF x, y
<1>2. Calls(x) = <<>> /\ Calls(y) = <<>> /\ Calls(<<it>>) = it.d \o Payload(it.bb)
      /\ it.d \in Seq(Nat) /\ Payload(it.bb) \in Seq(Nat)
  <2>1. \A e \in ItemType : Calls(<<e>>) = e.d \o Payload(e.bb)
    BY CallsFacts
  <2>2. /\ f.d = <<>> /\ f.bb = <<>> /\ g.d = <<>> /\ g.bb = <<>>
        /\ Payload(<<>>) = <<>> /\ <<>> \o <<>> = <<>>
    BY PayloadFacts, Cat DEF ItemOK
  <2>3. Calls(<<f>>) = <<>> /\ Calls(<<g>>) = <<>> /\ Calls(<<>>) = <<>>
    BY <2>1, <2>2, CallsFacts
  <2>4. it.d \in Seq(Nat) /\ Payload(it.bb) \in Seq(Nat)
    BY CallsFacts
  <2> QED BY <1>0, <2>1, <2>3, <2>4
<1> DEFINE Goal == /\ Ready(p, b) /\ (it.op # "direct" => Buffered(p))
                   /\ p # <<>> /\ (pre => p[1].op = "flush")
<1>3. ASSUME pre, post PROVE Goal
  <2>1. p = (<<f>> \o <<it>>) \o <<g>>
    BY <1>0, <1>3
  <2>2. p = <<f, it, g>>
    BY <2>1, Tuples, ZenonT(60)
  <2> QED BY <1>3, <2>2 DEF Ready, Buffered
<1>4. ASSUME pre, ~post PROVE Goal
  <2>1. p = (<<f>> \o <<it>>) \o <<>>
    BY <1>0, <1>4
  <2>2. p = <<f, it>>
    BY <2>1, Tuples
  <2> QED BY <1>4, <2>2 DEF Ready, Buffered
<1>5. ASSUME ~pre, post PROVE Goal
  <2>1. p = (<<>> \o <<it>>) \o <<g>>
    BY <1>0, <1>5
  <2>2. p = <<it, g>>
    BY <2>1, Tuples
  <2> QED BY <1>5, <2>2 DEF Ready, Buffered
<1>6. ASSUME ~pre, ~post PROVE Goal
  <2>1. p = (<<>> \o <<it>>) \o <<>>
    BY <1>0, <1>6
  <2>2. p = <<it>>
    BY <2>1, Tuples
  <2> QED BY <1>6, <2>2 DEF Ready, Buffered
<1>7. p \in Seq(ItemType) /\ Calls(p) = it.d \o Payload(it.bb)
  <2> HIDE DEF ItemType
  <2> DEFINE z == x \o <<it>>
             c == it.d \o Payload(it.bb)
  <2>1. z \in Seq(ItemType) /\ p \in Seq(ItemType)
    <3>1. z \in Seq(ItemType)
      BY <1>1, ConcatProperties
    <3> HIDE DEF z
    <3> QED BY <1>0, <1>1, <3>1, ConcatProperties DEF z
  <2>2. Calls(p) = Calls(z) \o Calls(y)
    <3> HIDE DEF z
    <3> QED BY <1>0, <1>1, <2>1, CallsFacts DEF z
  <2>3. Calls(z) = Calls(x) \o Calls(<<it>>)
    BY <1>1, CallsFacts
  <2>4. c \in Seq(Nat) /\ Calls(<<it>>) = c
    BY <1>2, Cat
  <2> HIDE DEF c, z
  <2>5. Calls(z) = c
    <3>1. Calls(z) = <<>> \o c
      BY <1>2, <2>3, <2>4
    <3> QED BY <2>4, <3>1, Cat
  <2>6. Calls(p) = c
    <3>1. Calls(p) = c \o <<>>
      BY <1>2, <2>2, <2>5
    <3> QED BY <2>4, <3>1, Cat
  <2> QED BY <2>1, <2>6 DEF c
<1>8. Goal
  <2> HIDE DEF Goal
  <2> QED BY <1>3, <1>4, <1>5, <1>6
<1> QED BY <1>7, <1>8

\* The types that the invariant gives.
LEMMA InvFacts ==
    ASSUME FilterConstants, FilterInv
    PROVE  /\ resp \in RespType /\ out \in Seq(Marked) /\ held \in Seq(Nat)
           /\ inv \in InvType \cup {None} /\ resp.n \in 0 .. Bytes /\ net \in 0 .. Bytes
           /\ Bytes \in Nat /\ BufSize \in Nat /\ BufSize # 0 /\ HeaderLen \in Nat
           /\ Len(resp.buf) <= BufSize /\ flushed \in Nat /\ mode \in {"out", "in"}
BY DEF FilterInv, FilterTypeOK, ResponseOK, FilterConstants, Marked

\* A write or print of the handler, autoflush or not, keeps the invariant.
LEMMA WritePrintInv ==
    ASSUME FilterConstants, FilterInv, NEW len \in 1 .. Bytes, NEW autoflush \in BOOLEAN,
           WritePrint(len, autoflush)
    PROVE  FilterInv'
<1> DEFINE d == Numbers(resp.n, resp.n + len)
           b == resp.buf
           pre == Len(d) + Len(b) > BufSize
           it == IF Len(d) >= BufSize THEN Pass(d) ELSE Copy(d)
           f == Flush(FALSE, FALSE)
           g == Flush(TRUE, FALSE)
           p == ((IF pre THEN <<f>> ELSE <<>>) \o <<it>>)
                  \o (IF autoflush THEN <<g>> ELSE <<>>)
<1>1. resp \in RespType /\ resp.n \in Nat /\ len \in Nat /\ resp.n + len <= Bytes
      /\ BufSize \in Nat /\ BufSize # 0 /\ Len(b) <= BufSize
  BY InvFacts, RespFields DEF WritePrint
<1>2. d \in Seq(Nat) /\ Len(d) = len /\ Len(b) \in Nat /\ b \in Seq(Nat)
  <2>1. resp.n + len \in Nat /\ resp.n <= resp.n + len /\ (resp.n + len) - resp.n = len
    BY <1>1
  <2> QED BY <1>1, <2>1, NumbersFacts, RespFields
<1> HIDE DEF d
<1>3. /\ it \in ItemType /\ it.op \in {"pass", "copy"} /\ it.op = (IF Len(d) >= BufSize THEN "pass" ELSE "copy")
      /\ it.d = d /\ it.bb = <<>> /\ ItemOK(it)
  <2>1. ItemIs(Pass(d), "pass", d, <<>>) /\ ItemIs(Copy(d), "copy", d, <<>>)
    BY <1>2, Items
  <2> QED BY <2>1 DEF ItemIs
<1>4. /\ f \in ItemType /\ f.op = "flush" /\ ItemOK(f)
      /\ g \in ItemType /\ g.op = "flush" /\ ItemOK(g)
  <2>1. ItemIs(f, "flush", <<>>, <<>>) /\ ItemIs(g, "flush", <<>>, <<>>)
    BY Items
  <2> QED BY <2>1 DEF ItemIs
<1>5. resp'.pending = p
  <2>1. resp'.pending = WbucketWrite(b, d) \o (IF autoflush THEN <<g>> ELSE <<>>)
    BY <1>1 DEF WritePrint, RespType, d
  <2>2. WbucketWrite(b, d) = (IF pre THEN <<f>> ELSE <<>>) \o <<it>>
    <3> HIDE DEF b
    <3> QED BY DEF WbucketWrite
  <2> QED BY <2>1, <2>2
<1> HIDE DEF it, f, g
<1>6. /\ p \in Seq(ItemType) /\ Ready(p, b) /\ Calls(p) = it.d \o Payload(it.bb)
      /\ Buffered(p)
  <2>1. pre \in BOOLEAN
    OBVIOUS
  <2>2. ~pre /\ it.op # "copy" => b = <<>>
    <3> SUFFICES ASSUME ~pre, it.op # "copy" PROVE b = <<>>
      OBVIOUS
    <3>1. Len(d) >= BufSize
      BY <1>3
    <3>2. Len(b) = 0
      BY <1>1, <1>2, <3>1
    <3> QED BY <1>2, <3>2, Cat
  <2>3. ~pre /\ it.op = "copy" => Len(b) + Len(it.d) <= BufSize
    BY <1>1, <1>2, <1>3
  <2>4. it.op = "copy" => Len(it.d) <= BufSize
    BY <1>1, <1>2, <1>3
  <2>5. p = ((IF pre THEN <<f>> ELSE <<>>) \o <<it>>)
              \o (IF autoflush THEN <<g>> ELSE <<>>)
    OBVIOUS
  <2> HIDE DEF pre, b, p
  <2>6. Surrounded(p, it, f, g, b, pre, autoflush)
    BY <1>2, <1>3, <1>4, <2>1, <2>2, <2>3, <2>4, <2>5 DEF Surrounded
  <2> QED BY <1>3, <2>6, Around
<1> HIDE DEF p, b, pre
<1>7. Calls(p) = d
  <2>1. it.d \o Payload(it.bb) = d \o <<>>
    BY <1>3, PayloadFacts
  <2> QED BY <1>2, <1>6, <2>1, Cat
<1> USE DEF b
<1>8. /\ resp' \in RespType /\ resp'.buf = resp.buf /\ resp'.parse = resp.parse
      /\ resp'.cgi = resp.cgi /\ resp'.err = resp.err /\ resp'.n = resp.n + len
      /\ resp'.at = resp.at
  <2>1. resp' = [resp EXCEPT !.n = resp.n + len,
                   !.flushes = IF autoflush THEN resp.flushes + 1 ELSE resp.flushes,
                   !.pending = resp'.pending]
    BY <1>1 DEF WritePrint, RespType
  <2>2. /\ resp'.pending \in Seq(ItemType) /\ resp.n + len \in Nat
        /\ (IF autoflush THEN resp.flushes + 1 ELSE resp.flushes) \in Nat
    BY <1>1, <1>5, <1>6, RespFields
  <2> QED BY <1>1, <2>1, <2>2 DEF RespType
<1>9. /\ mode = "out" /\ inv = None /\ resp.pending = <<>> /\ resp.at = "handler"
      /\ UNCHANGED <<mode, chained, sent_eos, held, inv, net, reset, out, flushed, lost>>
  BY DEF WritePrint, InHandler, Busy
<1>10. resp'.n \in resp.n .. Bytes
  BY <1>1, <1>8, InvFacts
<1>11. Calls(resp'.pending) = Numbers(resp.n, resp'.n)
  BY <1>5, <1>7, <1>8 DEF d
<1> QED BY <1>5, <1>6, <1>8, <1>9, <1>10, <1>11, NewCall

\* So does sendfile, which flushes what is in the buffer first.
LEMMA SendfileInv ==
    ASSUME FilterConstants, FilterInv, NEW len \in 1 .. Bytes, Sendfile(len)
    PROVE  FilterInv'
<1> DEFINE d == Numbers(resp.n, resp.n + len)
           b == resp.buf
           pre == b # <<>>
           it == Direct(<<d>>)
           f == Flush(TRUE, FALSE)
           q == (IF pre THEN <<f>> ELSE <<>>) \o <<it>>
           p == q \o (IF FALSE THEN <<f>> ELSE <<>>)
<1>1. resp \in RespType /\ resp.n \in Nat /\ len \in Nat /\ resp.n + len <= Bytes
      /\ b \in Seq(Nat)
  BY InvFacts, RespFields DEF Sendfile
<1>2. d \in Seq(Nat)
  <2>1. resp.n + len \in Nat /\ resp.n <= resp.n + len
    BY <1>1
  <2> QED BY <1>1, <2>1, NumbersFacts
<1> HIDE DEF d
<1>3. <<d>> \in Seq(Bucket) /\ Payload(<<d>>) = d /\ BrigadeOK(<<d>>)
  <2>1. d \in Bucket
    BY <1>2, Marks
  <2> QED BY <1>2, <2>1, PayloadFacts DEF BrigadeOK
<1>4. /\ it \in ItemType /\ it.op = "direct" /\ it.d = <<>> /\ it.bb = <<d>> /\ ItemOK(it)
      /\ f \in ItemType /\ f.op = "flush" /\ ItemOK(f)
  <2>1. ItemIs(it, "direct", <<>>, <<d>>) /\ ItemIs(f, "flush", <<>>, <<>>)
    BY <1>3, Items
  <2> QED BY <2>1 DEF ItemIs
<1>5. resp'.pending = q
  BY <1>1 DEF Sendfile, RespType, d
<1> HIDE DEF it, f
<1>6. /\ p \in Seq(ItemType) /\ Ready(p, b) /\ Calls(p) = it.d \o Payload(it.bb)
  <2>1. pre \in BOOLEAN /\ FALSE \in BOOLEAN
    OBVIOUS
  <2>2. ~pre => b = <<>>
    OBVIOUS
  <2>3. p = ((IF pre THEN <<f>> ELSE <<>>) \o <<it>>) \o (IF FALSE THEN <<f>> ELSE <<>>)
    OBVIOUS
  <2> HIDE DEF pre, b, p
  <2>4. Surrounded(p, it, f, f, b, pre, FALSE)
    BY <1>1, <1>4, <2>1, <2>2, <2>3 DEF Surrounded
  <2> QED BY <2>4, Around
<1>7. q = p
  <2>1. q \in Seq(ItemType)
    <3>1. (IF pre THEN <<f>> ELSE <<>>) \in Seq(ItemType) /\ <<it>> \in Seq(ItemType)
      BY <1>4
    <3> QED BY <3>1, ConcatProperties
  <2> HIDE DEF q
  <2>2. q \o <<>> = q
    BY <2>1, ConcatEmptySeq
  <2> QED BY <2>2
<1>8. Calls(p) = d
  BY <1>2, <1>3, <1>4, <1>6, Cat
<1> HIDE DEF p, q
<1>9. /\ resp' \in RespType /\ resp'.buf = resp.buf /\ resp'.parse = resp.parse
      /\ resp'.cgi = resp.cgi /\ resp'.err = resp.err /\ resp'.n = resp.n + len
      /\ resp'.at = resp.at
  <2>1. resp' = [resp EXCEPT !.n = resp.n + len, !.pending = resp'.pending]
    BY <1>1 DEF Sendfile, RespType
  <2>2. resp'.pending \in Seq(ItemType) /\ resp.n + len \in Nat
    BY <1>1, <1>5, <1>6, <1>7
  <2> QED BY <1>1, <2>1, <2>2 DEF RespType
<1>10. /\ mode = "out" /\ inv = None /\ resp.pending = <<>> /\ resp.at = "handler" /\ ~resp.parse
       /\ UNCHANGED <<mode, chained, sent_eos, held, inv, net, reset, out, flushed, lost>>
  BY DEF Sendfile, InHandler, Busy
<1>11. resp'.n \in resp.n .. Bytes
  BY <1>1, <1>9, InvFacts
<1>12. Calls(resp'.pending) = Numbers(resp.n, resp'.n)
  BY <1>5, <1>7, <1>8, <1>9 DEF d
<1> QED BY <1>5, <1>6, <1>7, <1>9, <1>10, <1>11, <1>12, NewCall


\* No bytes lie between a position and itself.
LEMMA NumbersNone ==
    ASSUME NEW n \in Nat PROVE Numbers(n, n) = <<>>
BY NumbersFacts

\* A call that passes no new byte.
LEMMA NewCallSame ==
    ASSUME FilterConstants, FilterInv, InHandler \/ (resp.at = "finish" /\ ~Busy),
           NEW p \in Seq(ItemType), NEW at \in {"handler", "finish", "done"},
           NEW w \in Nat, NEW fs \in Nat,
           resp' = [resp EXCEPT !.pending = p, !.at = at, !.want = w, !.flushes = fs],
           Calls(p) = <<>>, Ready(p, resp.buf), Buffered(p),
           at # "handler" => NoCopy(p),
           at # "handler" /\ mode = "out" /\ resp.buf # <<>> => p # <<>> /\ p[1].op = "flush",
           mode = "in" => p \in {<<>>, <<Direct(<<>>)>>},
           UNCHANGED <<mode, chained, sent_eos, held, inv, net, reset, out, flushed, lost>>
    PROVE  FilterInv'
<1>1. resp \in RespType /\ resp.n \in Nat /\ resp.n \in 0 .. Bytes /\ Bytes \in Nat
  BY InvFacts, RespFields
<1>2. inv = None /\ resp.pending = <<>>
  BY DEF InHandler, Busy
<1>3. /\ resp' \in RespType /\ resp'.buf = resp.buf /\ resp'.parse = resp.parse
      /\ resp'.cgi = resp.cgi /\ resp'.err = resp.err /\ resp'.n = resp.n
      /\ resp'.at = at /\ resp'.pending = p
  BY <1>1 DEF RespType
<1>4. resp'.n \in resp.n .. Bytes /\ Calls(resp'.pending) = Numbers(resp.n, resp'.n)
  BY <1>1, <1>3, NumbersNone
<1> QED BY <1>2, <1>3, <1>4, NewCall

\* A single call can be made when it fits what is in the buffer.
LEMMA Single ==
    ASSUME FilterConstants, NEW it, NEW op, NEW d, NEW bb, ItemIs(it, op, d, bb), NEW b,
           op \in {"pass", "direct", "flushed"} => b = <<>>,
           op = "copy" => Len(b) + Len(d) <= BufSize
    PROVE  /\ <<it>> \in Seq(ItemType) /\ Ready(<<it>>, b)
           /\ op # "direct" \/ Payload(bb) = <<>> => Buffered(<<it>>)
           /\ op # "copy" => NoCopy(<<it>>)
           /\ <<it>> # <<>> /\ <<it>>[1].op = op
<1> DEFINE p == <<it>>
<1>1. /\ it \in ItemType /\ it.op = op /\ it.d = d /\ it.bb = bb /\ ItemOK(it)
  BY DEF ItemIs
<1>2. p \in Seq(ItemType) /\ Len(p) = 1 /\ p[1] = it /\ p # <<>>
  BY <1>1
<1> HIDE DEF p
<1>3. Ready(p, b)
  BY <1>1, <1>2 DEF Ready
<1>4. op # "direct" \/ Payload(bb) = <<>> => Buffered(p)
  BY <1>1, <1>2 DEF Buffered
<1>5. op # "copy" => NoCopy(p)
  BY <1>1, <1>2 DEF NoCopy
<1> QED BY <1>1, <1>2, <1>3, <1>4, <1>5 DEF p

\* A flush of the handler keeps the invariant.
LEMMA RflushInv ==
    ASSUME FilterConstants, FilterInv, Rflush
    PROVE  FilterInv'
<1> DEFINE f == Flush(TRUE, TRUE)
           p == <<f, Flushed>>
<1>1. ItemIs(f, "flush", <<>>, <<>>) /\ ItemIs(Flushed, "flushed", <<>>, <<>>)
  BY Items
<1>2. resp \in RespType /\ resp.flushes \in Nat /\ resp.want \in Nat /\ mode = "out"
      /\ InHandler /\ resp.at = "handler"
  BY InvFacts, RespFields DEF Rflush, InHandler
<1>3. resp' = [resp EXCEPT !.pending = p, !.at = "handler", !.want = resp.want,
                           !.flushes = resp.flushes + 1]
  BY <1>2 DEF Rflush, RespType
<1> HIDE DEF f
<1>4. /\ p \in Seq(ItemType) /\ Len(p) = 2 /\ p[1] = f /\ p[2] = Flushed /\ p = <<f>> \o <<Flushed>>
  BY <1>1, Tuples DEF ItemIs
<1> HIDE DEF p
<1>5. Ready(p, resp.buf) /\ Buffered(p)
  <2>1. f.op = "flush" /\ ItemOK(f) /\ Flushed.op = "flushed" /\ ItemOK(Flushed)
    BY <1>1 DEF ItemIs
  <2>2. \A i \in 1 .. Len(p) : i = 1 \/ i = 2
    BY <1>4
  <2>3. Buffered(p)
    BY <1>4, <2>1, <2>2 DEF Buffered
  <2>4. Ready(p, resp.buf)
    <3>1. \A i \in 1 .. Len(p) : ItemOK(p[i]) /\ (p[i].op = "flushed" => i = Len(p))
      BY <1>4, <2>1, <2>2
    <3>2. p[1].op = "flush" /\ p[2].op = "flushed"
      BY <1>4, <2>1
    <3>3. \A i \in 1 .. Len(p) : i # 1 /\ p[i].op # "flush" =>
            i = 2 /\ p[1].op = "flush" /\ (p[i].op = "copy" => Len(p[i].d) <= BufSize)
      BY <2>2, <3>2
    <3> QED BY <3>1, <3>2, <3>3 DEF Ready
  <2> QED BY <2>3, <2>4
<1>6. Calls(p) = <<>>
  <2>1. <<f>> \in Seq(ItemType) /\ <<Flushed>> \in Seq(ItemType)
    BY <1>1 DEF ItemIs
  <2>2. Calls(p) = Calls(<<f>>) \o Calls(<<Flushed>>)
    BY <1>4, <2>1, CallsFacts
  <2>3. Calls(<<f>>) = <<>> /\ Calls(<<Flushed>>) = <<>>
    BY <1>1, PayloadFacts, Cat DEF ItemIs
  <2> QED BY <2>2, <2>3, Cat
<1>7. UNCHANGED <<mode, chained, sent_eos, held, inv, net, reset, out, flushed, lost>>
  BY DEF Rflush
<1>8. resp.flushes + 1 \in Nat
  BY <1>2
<1> QED BY <1>2, <1>3, <1>4, <1>5, <1>6, <1>7, <1>8, NewCallSame

\* So does a flush of STDOUT.
LEMMA StdoutFlushInv ==
    ASSUME FilterConstants, FilterInv, StdoutFlush
    PROVE  FilterInv'
<1> DEFINE f == Flush(FALSE, TRUE)
           p == <<f>>
<1>1. ItemIs(f, "flush", <<>>, <<>>)
  BY Items
<1>2. resp \in RespType /\ resp.flushes \in Nat /\ resp.want \in Nat /\ mode = "out"
      /\ InHandler /\ resp.at = "handler"
  BY InvFacts, RespFields DEF StdoutFlush, InHandler
<1>3. resp' = [resp EXCEPT !.pending = p, !.at = "handler", !.want = resp.want,
                           !.flushes = resp.flushes + 1]
  BY <1>2 DEF StdoutFlush, RespType
<1> HIDE DEF f
<1>4. /\ p \in Seq(ItemType) /\ Ready(p, resp.buf) /\ Buffered(p) /\ p # <<>>
      /\ p[1].op = "flush" /\ NoCopy(p)
  BY <1>1, Single
<1>5. Calls(p) = <<>>
  BY <1>1, PayloadFacts, Cat DEF ItemIs
<1>6. UNCHANGED <<mode, chained, sent_eos, held, inv, net, reset, out, flushed, lost>>
  BY DEF StdoutFlush
<1>7. resp.flushes + 1 \in Nat
  BY <1>2
<1> HIDE DEF p
<1> QED BY <1>2, <1>3, <1>4, <1>5, <1>6, <1>7, NewCallSame

\* So does the end of the handler, which flushes what is left.
LEMMA HandlerEndInv ==
    ASSUME FilterConstants, FilterInv, HandlerEnd
    PROVE  FilterInv'
<1> DEFINE f == Flush(FALSE, FALSE)
           p == <<f>>
<1>1. ItemIs(f, "flush", <<>>, <<>>)
  BY Items
<1>2. resp \in RespType /\ resp.flushes \in Nat /\ resp.want \in Nat /\ mode = "out"
      /\ InHandler
  BY InvFacts, RespFields DEF HandlerEnd
<1>3. resp' = [resp EXCEPT !.pending = p, !.at = "finish", !.want = resp.want,
                           !.flushes = resp.flushes]
  BY <1>2 DEF HandlerEnd, RespType
<1> HIDE DEF f
<1>4. /\ p \in Seq(ItemType) /\ Ready(p, resp.buf) /\ Buffered(p) /\ p # <<>>
      /\ p[1].op = "flush" /\ NoCopy(p)
  BY <1>1, Single
<1>5. Calls(p) = <<>>
  BY <1>1, PayloadFacts, Cat DEF ItemIs
<1>6. UNCHANGED <<mode, chained, sent_eos, held, inv, net, reset, out, flushed, lost>>
  BY DEF HandlerEnd
<1> HIDE DEF p
<1> QED BY <1>2, <1>3, <1>4, <1>5, <1>6, NewCallSame

\* The end of the request's output keeps it.
LEMMA FinalizeInv ==
    ASSUME FilterConstants, FilterInv, Finalize
    PROVE  FilterInv'
<1> DEFINE f == Direct(<<EOS>>)
           p == <<f>>
<1>0. <<EOS>> \in Seq(Bucket) /\ BrigadeOK(<<EOS>>) /\ Payload(<<EOS>>) = <<>>
  <2>1. EOS \in Bucket
    BY Marks
  <2> QED BY <2>1, PayloadFacts DEF BrigadeOK
<1>1. ItemIs(f, "direct", <<>>, <<EOS>>)
  BY <1>0, Items
<1>2. resp \in RespType /\ resp.flushes \in Nat /\ resp.want \in Nat /\ mode = "out"
      /\ resp.at = "finish" /\ ~Busy
  BY InvFacts, RespFields DEF Finalize
<1>3. resp' = [resp EXCEPT !.pending = p, !.at = "done", !.want = resp.want,
                           !.flushes = resp.flushes]
  BY <1>2 DEF Finalize, RespType
<1>3a. resp.buf = <<>>
  BY <1>2 DEF FilterInv, ResponseOK, Busy
<1> HIDE DEF f
<1>4. p \in Seq(ItemType) /\ Ready(p, resp.buf) /\ Buffered(p) /\ NoCopy(p)
  BY <1>0, <1>1, <1>3a, Single
<1>5. Calls(p) = <<>>
  BY <1>0, <1>1, Cat DEF ItemIs
<1>6. UNCHANGED <<mode, chained, sent_eos, held, inv, net, reset, out, flushed, lost>>
  BY DEF Finalize
<1> HIDE DEF p
<1> QED BY <1>2, <1>3, <1>3a, <1>4, <1>5, <1>6, NewCallSame

\* An empty brigade passes nothing and needs an empty buffer only.
LEMMA EmptyDirect ==
    ASSUME FilterConstants
    PROVE  /\ ItemIs(Direct(<<>>), "direct", <<>>, <<>>) /\ Calls(<<Direct(<<>>)>>) = <<>>
           /\ <<Direct(<<>>)>> \in Seq(ItemType) /\ Ready(<<Direct(<<>>)>>, <<>>)
           /\ Buffered(<<Direct(<<>>)>>) /\ NoCopy(<<Direct(<<>>)>>)
<1>1. <<>> \in Seq(Bucket) /\ BrigadeOK(<<>>) /\ Payload(<<>>) = <<>>
  BY PayloadFacts DEF BrigadeOK
<1>2. ItemIs(Direct(<<>>), "direct", <<>>, <<>>)
  BY <1>1, Items
<1>3. Calls(<<Direct(<<>>)>>) = <<>>
  BY <1>1, <1>2, Cat DEF ItemIs
<1> QED BY <1>1, <1>2, <1>3, Single

\* A read of the handler from an input filter keeps the invariant.
LEMMA ReadInv ==
    ASSUME FilterConstants, FilterInv, NEW w \in Wanted, Read(w)
    PROVE  FilterInv'
<1> DEFINE p == <<Direct(<<>>)>>
<1>1. resp \in RespType /\ resp.flushes \in Nat /\ resp.at = "handler" /\ mode = "in" /\ InHandler
      /\ w \in Nat
  BY InvFacts, RespFields DEF Read, InHandler, FilterConstants
<1>2. resp' = [resp EXCEPT !.pending = p, !.at = "handler", !.want = w,
                           !.flushes = resp.flushes]
  BY <1>1 DEF Read, RespType
<1>3. resp.buf = <<>>
  BY <1>1 DEF FilterInv, ResponseOK
<1>4. UNCHANGED <<mode, chained, sent_eos, held, inv, net, reset, out, flushed, lost>>
  BY DEF Read
<1>5. p \in Seq(ItemType) /\ Ready(p, resp.buf) /\ Buffered(p) /\ Calls(p) = <<>>
  BY <1>3, EmptyDirect
<1>6. mode = "in" => p \in {<<>>, <<Direct(<<>>)>>}
  OBVIOUS
<1> HIDE DEF p
<1> QED BY <1>1, <1>2, <1>3, <1>4, <1>5, <1>6, NewCallSame

\* So does the end of the reading.
LEMMA ReaderEndInv ==
    ASSUME FilterConstants, FilterInv, ReaderEnd
    PROVE  FilterInv'
<1>1. resp \in RespType /\ resp.flushes \in Nat /\ resp.want \in Nat /\ mode = "in" /\ InHandler
      /\ resp.pending = <<>>
  BY InvFacts, RespFields DEF ReaderEnd, InHandler, Busy
<1>2. resp' = [resp EXCEPT !.pending = <<>>, !.at = "done", !.want = resp.want,
                           !.flushes = resp.flushes]
  BY <1>1 DEF ReaderEnd, RespType
<1>3. Calls(<<>>) = <<>> /\ Ready(<<>>, resp.buf) /\ Buffered(<<>>) /\ NoCopy(<<>>) /\ <<>> \in Seq(ItemType)
  BY CallsFacts, ReadyEmpty
<1>4. UNCHANGED <<mode, chained, sent_eos, held, inv, net, reset, out, flushed, lost>>
  BY DEF ReaderEnd
<1>5. <<>> \in {<<>>, <<Direct(<<>>)>>} /\ mode # "out"
  BY <1>1
<1> QED BY <1>1, <1>2, <1>3, <1>4, <1>5, NewCallSame


-----------------------------------------------------------------------------
(* An item of the response handler's call.                                 *)

\* It leaves the filter alone.
LEMMA KeepStep ==
    ASSUME FilterConstants, FilterInv, mode = "out", inv = None, resp.pending # <<>>,
           resp' \in RespType, resp'.pending = Tail(resp.pending), resp'.n = resp.n,
           resp'.cgi = resp.cgi, resp'.err = resp.err, resp'.at = resp.at,
           resp'.parse => resp.parse,
           Len(resp'.buf) <= BufSize, Ready(Tail(resp.pending), resp'.buf),
           resp.at # "handler" => resp'.buf = <<>>,
           lost' \in BOOLEAN, lost => lost', flushed' \in Nat,
           flushed' + Len(resp'.buf) + Len(Calls(Tail(resp.pending))) <= resp.n,
           ~lost' /\ ~resp.err =>
             /\ Skip(resp') <= resp.n /\ (resp'.parse => Through(out, inv, held) = <<>>)
             /\ Through(out, inv, held) \o (resp'.buf \o Calls(Tail(resp.pending)))
                  = Numbers(Skip(resp'), resp.n),
           UNCHANGED <<mode, chained, sent_eos, held, inv, net, reset, out>>
    PROVE  FilterInv'
<1>1. resp \in RespType /\ resp.pending \in Seq(ItemType) /\ resp.buf \in Seq(Nat)
      /\ resp.n \in 0 .. Bytes /\ Ready(resp.pending, resp.buf)
      /\ (resp.parse => Buffered(resp.pending))
      /\ (resp.at # "handler" => NoCopy(resp.pending))
  <2>1. resp \in RespType /\ resp.n \in 0 .. Bytes
    BY InvFacts
  <2>2. Todo(resp, inv) = resp.pending
    BY <2>1, TodoFacts
  <2> QED BY <2>1, <2>2, RespFields DEF FilterInv, ResponseOK
<1>2. /\ (resp.parse => Buffered(Tail(resp.pending)))
      /\ (resp.at # "handler" => NoCopy(Tail(resp.pending)))
  BY <1>1, ReadyTail
<1>3. inv' = None /\ Todo(resp', inv') = Tail(resp.pending)
  BY TodoFacts
<1>4. FilterTypeOK'
  BY <1>1 DEF FilterInv, FilterTypeOK
<1>5. InvocationOK(inv', mode', resp'.want)
  BY <1>3 DEF InvocationOK
<1>6. ResponseOK(resp', mode', inv')
  <2>1. resp'.parse => resp'.cgi
    BY DEF FilterInv, ResponseOK
  <2> QED BY <1>2, <1>3, <2>1 DEF ResponseOK
<1>7. ASSUME ~lost', ~resp'.err PROVE Whole(mode', resp', inv', held', net', out')
  BY <1>3, <1>7 DEF Whole
<1>8. ((reset => lost) /\ (inv # None => ~sent_eos)
        /\ (inv = None /\ (~chained \/ sent_eos) => held = <<>>))'
  BY DEF FilterInv
<1>9. (flushed + Len(resp.buf) + Len(Calls(Todo(resp, inv))) <= resp.n)'
  BY <1>3
<1> QED BY <1>4, <1>5, <1>6, <1>7, <1>8, <1>9 DEF FilterInv

\* A new invocation of the filter.
LEMMA Invoked ==
    ASSUME FilterConstants, NEW bb \in Seq(Bucket), BrigadeOK(bb), NEW room \in Nat,
           NEW m, mode = m, m \in {"out", "in"}, m = "in" => bb = <<>>
    PROVE  LET v == NewInvocation(bb, room) IN
           /\ v \in InvType /\ v # None /\ InvocationOK(v, m, room)
           /\ v.wb = <<>> /\ v.bb_out = <<>> /\ v.left = <<>> /\ v.bb = bb
<1> DEFINE v == NewInvocation(bb, room)
<1>1. /\ v \in InvType /\ v.bb = bb /\ v.got = (m = "out") /\ v.read = FALSE /\ v.left = <<>>
      /\ v.seen_eos = FALSE /\ v.wb = <<>> /\ v.bb_out = <<>> /\ v.dry = FALSE /\ v.room = room
  BY DEF NewInvocation, InvType
<1> HIDE DEF v
<1>2. v # None /\ Payload(<<>>) = <<>> /\ Len(<<>>) = 0 /\ BufSize \in Nat
  BY <1>1, InvFields, PayloadFacts, Cat DEF FilterConstants
<1>3. InvocationOK(v, m, room)
  <2>1. ~v.read /\ ~v.dry /\ ~v.seen_eos /\ (m = "out" => v.got) /\ (m = "in" => ~v.got)
    BY <1>1
  <2>2. Len(v.wb) <= BufSize /\ Payload(v.bb_out) = <<>>
        /\ Len(Payload(v.bb_out)) + v.room = room
    BY <1>1, <1>2
  <2>3. ~v.got => v.bb = <<>> /\ ~v.seen_eos
    BY <1>1, <2>1
  <2> QED BY <1>1, <2>1, <2>2, <2>3 DEF InvocationOK
<1> QED BY <1>1, <1>2, <1>3 DEF v

\* It passes a brigade to the filter or to the client.
LEMMA PassStep ==
    ASSUME FilterConstants, FilterInv, mode = "out", inv = None, resp.pending # <<>>,
           NEW rs \in RespType, rs.pending = resp.pending, rs.n = resp.n,
           rs.cgi = resp.cgi, rs.err = resp.err, rs.at = resp.at, rs.buf = <<>>,
           rs.parse => resp.parse,
           NEW bb \in Seq(Bucket), BrigadeOK(bb), PassBrigade(rs, bb),
           rs.parse => Payload(bb) = <<>>,
           flushed + Len(Calls(Tail(resp.pending))) <= resp.n,
           ~lost /\ ~resp.err =>
             /\ Skip(rs) <= resp.n /\ (rs.parse => Through(out, inv, held) = <<>>)
             /\ Through(out, inv, held) \o (Payload(bb) \o Calls(Tail(resp.pending)))
                  = Numbers(Skip(rs), resp.n),
           UNCHANGED <<mode, chained, sent_eos, held, net, reset, lost, flushed>>
    PROVE  FilterInv'
<1> DEFINE p == resp.pending
           q == Tail(resp.pending)
           c == Calls(q)
           t == Through(out, inv, held)
           d == Payload(bb)
<1>1. resp \in RespType /\ p \in Seq(ItemType) /\ resp.buf \in Seq(Nat)
      /\ resp.n \in 0 .. Bytes /\ Ready(p, resp.buf)
      /\ (resp.parse => Buffered(p)) /\ (resp.at # "handler" => NoCopy(p))
      /\ out \in Seq(Marked) /\ held \in Seq(Nat) /\ flushed \in Nat
  <2>1. resp \in RespType /\ resp.n \in 0 .. Bytes
    BY InvFacts
  <2>2. Todo(resp, inv) = resp.pending
    BY <2>1, TodoFacts
  <2> QED BY <2>1, <2>2, RespFields, InvFacts DEF FilterInv, ResponseOK
<1>2. /\ (resp.parse => Buffered(q)) /\ (resp.at # "handler" => NoCopy(q)) /\ Ready(q, <<>>)
      /\ q \in Seq(ItemType)
  BY <1>1, ReadyTail, CallsTail
<1>3. c \in Seq(Nat) /\ t \in Seq(Nat) /\ d \in Seq(Nat) /\ Len(c) \in Nat
  BY <1>1, <1>2, CallsFacts, ThroughType, PayloadFacts, Cat
<1>4. ASSUME NEW r \in RespType, NEW v, resp' = r, inv' = v,
             v \in InvType \cup {None}, out' \in Seq(Marked), InvocationOK(v, "out", r.want),
             v # None => ~sent_eos /\ r.pending # <<>>,
             v = None /\ (~chained \/ sent_eos) => held = <<>>,
             r.buf = <<>>, r.n = resp.n, r.cgi = resp.cgi, r.at = resp.at, r.parse = rs.parse,
             \/ Todo(r, v) = q /\ r.err = resp.err
             \/ Todo(r, v) = <<>> /\ lost,
             ~lost => Through(out', v, held) = t \o d
      PROVE  FilterInv'
  <2> HIDE DEF p, q, t, d
  <2>1. FilterTypeOK'
    BY <1>1, <1>4 DEF FilterInv, FilterTypeOK, Marked
  <2>2. /\ (r.parse => Buffered(Todo(r, v))) /\ (r.at # "handler" => NoCopy(Todo(r, v)))
        /\ Ready(Todo(r, v), <<>>)
    BY <1>2, <1>4, ReadyEmpty
  <2>3. ResponseOK(r, "out", v)
    <3>1. r.parse => r.cgi
      BY <1>4 DEF FilterInv, ResponseOK
    <3>2. Len(<<>>) <= BufSize
      BY Cat DEF FilterConstants
    <3> QED BY <1>4, <2>2, <3>1, <3>2 DEF ResponseOK
  <2>4. flushed + Len(<<>>) + Len(Calls(Todo(r, v))) <= resp.n
    <3>1. CASE Todo(r, v) = q
      BY <1>1, <1>3, <3>1, Cat DEF q
    <3>2. CASE Todo(r, v) = <<>>
      <4>1. Calls(Todo(r, v)) = <<>>
        BY <3>2, CallsFacts
      <4>2. flushed + Len(c) <= resp.n
        BY DEF q
      <4>3. resp.n \in Nat
        BY <1>1, RespFields
      <4> HIDE DEF c
      <4> QED BY <1>1, <1>3, <4>1, <4>2, <4>3, Cat
    <3> QED BY <1>4, <3>1, <3>2
  <2>5. ASSUME ~lost, ~r.err PROVE Whole("out", r, v, held, net, out')
    <3>1. Todo(r, v) = q /\ ~resp.err
      BY <1>4, <2>5
    <3>2. Skip(r) = Skip(rs)
      BY <1>4 DEF Skip
    <3>3. Skip(rs) <= resp.n /\ t \o (d \o c) = Numbers(Skip(rs), resp.n)
          /\ (rs.parse => t = <<>>)
      BY <2>5, <3>1 DEF t, d, q
    <3>4. (t \o d) \o (<<>> \o c) = t \o (d \o c)
      <4> HIDE DEF c
      <4>1. <<>> \o c = c
        BY <1>3, Cat
      <4> QED BY <1>3, <4>1, Assoc, SMTT(30)
    <3>5. rs.parse => t \o d = <<>>
      BY <3>3, Cat DEF d
    <3> QED BY <1>4, <2>5, <3>1, <3>2, <3>3, <3>4, <3>5 DEF Whole
  <2> QED BY <1>4, <2>1, <2>3, <2>4, <2>5 DEF FilterInv
<1>5. CASE chained /\ ~sent_eos
  <2> DEFINE v == NewInvocation(bb, 0)
  <2>1. resp' = rs /\ inv' = v /\ out' = out
    BY <1>5 DEF PassBrigade
  <2>2. /\ v \in InvType /\ v # None /\ InvocationOK(v, "out", 0)
        /\ v.wb = <<>> /\ v.bb_out = <<>> /\ v.left = <<>> /\ v.bb = bb
    BY Invoked
  <2> HIDE DEF v
  <2>3. InvocationOK(v, "out", rs.want)
    BY <2>2 DEF InvocationOK
  <2>4. Todo(rs, v) = q
    BY <2>2, TodoFacts
  <2>5. Through(out, v, held) = t \o d
    BY <1>1, <2>2, ThroughNew
  <2> HIDE DEF t, d, q
  <2> QED BY <1>1, <1>4, <1>5, <2>1, <2>2, <2>3, <2>4, <2>5
<1>6. CASE ~(chained /\ ~sent_eos)
  <2>1. /\ out' = (IF reset THEN out ELSE out \o Flat(bb)) /\ inv' = None
        /\ resp' = Returned(rs, ~reset, Head(rs.pending).tol)
    BY <1>6 DEF PassBrigade
  <2>2. held = <<>> /\ (reset => lost)
    BY <1>6 DEF FilterInv
  <2>3. out' \in Seq(Marked) /\ (~lost => Through(out', None, held) = t \o d)
    BY <1>1, <2>1, <2>2, ThroughOut
  <2>4. /\ resp' \in RespType /\ resp'.buf = <<>> /\ resp'.n = resp.n /\ resp'.cgi = resp.cgi
        /\ resp'.at = resp.at /\ resp'.parse = rs.parse
        /\ \/ resp'.pending = q /\ resp'.err = resp.err
           \/ resp'.pending = <<>> /\ lost
    <3>1. \/ resp' = [rs EXCEPT !.pending = q]
          \/ resp' = [rs EXCEPT !.pending = <<>>, !.err = TRUE] /\ lost
      BY <2>1, <2>2 DEF Returned, RespType
    <3> HIDE DEF q
    <3>2. CASE resp' = [rs EXCEPT !.pending = q]
      BY <1>2, <3>2 DEF RespType
    <3>3. CASE resp' = [rs EXCEPT !.pending = <<>>, !.err = TRUE] /\ lost
      <4>1. <<>> \in Seq(ItemType) /\ TRUE \in BOOLEAN
        OBVIOUS
      <4>2. resp' \in RespType
        BY <3>3, <4>1 DEF RespType
      <4>3. /\ resp'.buf = <<>> /\ resp'.n = resp.n /\ resp'.cgi = resp.cgi
            /\ resp'.at = resp.at /\ resp'.parse = rs.parse /\ resp'.pending = <<>>
        BY <3>3 DEF RespType
      <4> QED BY <3>3, <4>2, <4>3
    <3> QED BY <3>1, <3>2, <3>3
  <2>5. Todo(resp', None) = resp'.pending
    BY <2>4, TodoFacts
  <2>6. InvocationOK(None, "out", resp'.want)
    BY DEF InvocationOK
  <2> HIDE DEF t, d, q
  <2> QED BY <1>4, <2>1, <2>2, <2>3, <2>4, <2>5, <2>6
<1> QED BY <1>5, <1>6


\* Sequences of one and of two elements.
LEMMA Pair ==
    ASSUME NEW S, NEW a \in S, NEW b \in S
    PROVE  /\ <<a, b>> \in Seq(S) /\ Len(<<a, b>>) = 2 /\ <<a, b>>[1] = a /\ <<a, b>>[2] = b
           /\ <<a>> \in Seq(S) /\ Len(<<a>>) = 1 /\ <<a>>[1] = a
OBVIOUS

\* x is r with a new buffer, new calls, a new status, parsing or not, and in
\* error or not.
Updated(x, r, b, q, st, ps, e) ==
    /\ r \in RespType /\ b \in Seq(Nat) /\ q \in Seq(ItemType)
    /\ st \in {"OK", "MOVED", "ERROR"} /\ ps \in BOOLEAN /\ e \in BOOLEAN
    /\ x = [r EXCEPT !.buf = b, !.pending = q, !.status = st, !.parse = ps, !.err = e]

\* The fields of such an update.
LEMMA RespUpdate ==
    ASSUME NEW x, NEW r, NEW b, NEW q, NEW st, NEW ps, NEW e, Updated(x, r, b, q, st, ps, e)
    PROVE  /\ x \in RespType /\ x.buf = b /\ x.pending = q /\ x.parse = ps /\ x.err = e
           /\ x.n = r.n /\ x.cgi = r.cgi /\ x.at = r.at /\ x.want = r.want
BY DEF RespType, Updated

\* The brigade of a piece of data, with a flush behind it or not.
LEMMA DataBrigade ==
    ASSUME FilterConstants, NEW d \in Seq(Nat), NEW fl \in BOOLEAN, NEW bb,
           bb = <<d>> \o IF fl THEN <<FLUSH>> ELSE <<>>
    PROVE  bb \in Seq(Bucket) /\ BrigadeOK(bb) /\ Payload(bb) = d
<1>1. d \in Bucket /\ FLUSH \in Bucket /\ IsData(d)
  BY Marks
<1>2. CASE fl
  <2>1. bb = <<d>> \o <<FLUSH>>
    BY <1>2
  <2>2. bb = <<d, FLUSH>>
    BY <1>1, <2>1, Tuples
  <2>3. <<d>> \in Seq(Bucket) /\ <<FLUSH>> \in Seq(Bucket) /\ bb \in Seq(Bucket)
    <3>1. <<d>> \in Seq(Bucket) /\ <<d, FLUSH>> \in Seq(Bucket)
      BY <1>1, Pair
    <3>2. <<FLUSH>> \in Seq(Bucket)
      BY <1>1, Pair
    <3> QED BY <2>2, <3>1, <3>2
  <2>4. Payload(bb) = d \o <<>>
    BY <2>1, <2>3, PayloadFacts, ZenonT(60)
  <2>5. Len(bb) = 2 /\ bb[1] = d
    <3>1. Len(<<d, FLUSH>>) = 2 /\ <<d, FLUSH>>[1] = d
      BY <1>1, Pair
    <3> QED BY <2>2, <3>1
  <2>6. BrigadeOK(bb)
    BY <1>1, <2>5 DEF BrigadeOK
  <2> QED BY <2>3, <2>4, <2>6, Cat
<1>3. CASE ~fl
  <2>1. bb = <<d>> \o <<>>
    BY <1>3
  <2>2. bb = <<d>>
    BY <1>1, <2>1, Tuples
  <2>3. bb \in Seq(Bucket) /\ Len(bb) = 1
    BY <1>1, <2>2, Pair
  <2>4. BrigadeOK(bb)
    BY <2>3 DEF BrigadeOK
  <2> QED BY <2>2, <2>3, <2>4, PayloadFacts
<1> QED BY <1>2, <1>3

\* What the invariant says while the response handler is in a call and the
\* filter is not running.
LEMMA InCall ==
    ASSUME FilterConstants, FilterInv, mode = "out", inv = None, resp.pending # <<>>
    PROVE  /\ resp \in RespType /\ resp.pending \in Seq(ItemType) /\ resp.buf \in Seq(Nat)
           /\ Ready(resp.pending, resp.buf) /\ resp.n \in Nat /\ flushed \in Nat
           /\ Calls(Tail(resp.pending)) \in Seq(Nat) /\ Through(out, inv, held) \in Seq(Nat)
           /\ Calls(resp.pending) \in Seq(Nat)
           /\ flushed + Len(resp.buf \o Calls(resp.pending)) <= resp.n
           /\ resp.parse => resp.cgi /\ Buffered(resp.pending)
           /\ resp.at # "handler" => NoCopy(resp.pending)
           /\ ~lost /\ ~resp.err =>
                /\ Skip(resp) <= resp.n /\ (resp.parse => Through(out, inv, held) = <<>>)
                /\ Through(out, inv, held) \o (resp.buf \o Calls(resp.pending))
                     = Numbers(Skip(resp), resp.n)
           /\ Head(resp.pending) = resp.pending[1] /\ Head(resp.pending) \in ItemType
           /\ ItemOK(Head(resp.pending))
           /\ Calls(resp.pending)
                = (Head(resp.pending).d \o Payload(Head(resp.pending).bb))
                    \o Calls(Tail(resp.pending))
<1>1. resp \in RespType /\ out \in Seq(Marked) /\ held \in Seq(Nat) /\ flushed \in Nat
      /\ inv \in InvType \cup {None}
  BY InvFacts
<1>2. /\ resp.pending \in Seq(ItemType) /\ resp.buf \in Seq(Nat) /\ resp.n \in Nat
      /\ Len(resp.buf) \in Nat
  BY <1>1, RespFields
<1>3. Todo(resp, inv) = resp.pending
  BY <1>1, TodoFacts
<1>4. /\ Ready(resp.pending, resp.buf) /\ (resp.parse => resp.cgi /\ Buffered(resp.pending))
      /\ (resp.at # "handler" => NoCopy(resp.pending))
  BY <1>3 DEF FilterInv, ResponseOK
<1>5. Tail(resp.pending) \in Seq(ItemType) /\ Head(resp.pending) = resp.pending[1]
      /\ Head(resp.pending) \in ItemType
      /\ Calls(resp.pending)
           = (resp.pending[1].d \o Payload(resp.pending[1].bb)) \o Calls(Tail(resp.pending))
  BY <1>2, CallsTail
<1>6. ItemOK(resp.pending[1])
  BY <1>2, <1>4, ReadyTail
<1>7. Calls(Tail(resp.pending)) \in Seq(Nat) /\ Calls(resp.pending) \in Seq(Nat)
  BY <1>2, <1>5, CallsFacts
<1>8. Through(out, inv, held) \in Seq(Nat)
  BY <1>1, ThroughType
<1>9. flushed + Len(resp.buf \o Calls(resp.pending)) <= resp.n
  <2>1. flushed + Len(resp.buf) + Len(Calls(resp.pending)) <= resp.n
    BY <1>3 DEF FilterInv
  <2>2. Len(resp.buf \o Calls(resp.pending)) = Len(resp.buf) + Len(Calls(resp.pending))
        /\ Len(Calls(resp.pending)) \in Nat
    BY <1>2, <1>7, Cat
  <2> DEFINE x == Len(resp.buf)
             y == Len(Calls(resp.pending))
             z == Len(resp.buf \o Calls(resp.pending))
  <2>3. x \in Nat /\ y \in Nat /\ z = x + y /\ flushed + x + y <= resp.n /\ resp.n \in Nat
    BY <1>2, <2>1, <2>2
  <2> HIDE DEF x, y, z
  <2>4. flushed + z <= resp.n
    BY <1>1, <2>3
  <2> QED BY <2>4 DEF z
<1>10. ~lost /\ ~resp.err =>
         /\ Skip(resp) <= resp.n /\ (resp.parse => Through(out, inv, held) = <<>>)
         /\ Through(out, inv, held) \o (resp.buf \o Calls(resp.pending))
              = Numbers(Skip(resp), resp.n)
  BY <1>3 DEF FilterInv, Whole
<1> QED BY <1>1, <1>2, <1>4, <1>5, <1>6, <1>7, <1>8, <1>9, <1>10

\* modperl_wbucket_pass, d being what is passed of the buffer and the calls.
LEMMA WbucketPassInv ==
    ASSUME FilterConstants, FilterInv, mode = "out", inv = None, resp.pending # <<>>,
           NEW d \in Seq(Nat), WbucketPass(d, Head(resp.pending).fl),
           d \o Calls(Tail(resp.pending)) = resp.buf \o Calls(resp.pending),
           UNCHANGED <<mode, chained, sent_eos, held, net, reset, flushed>>
    PROVE  FilterInv'
<1> DEFINE fl == Head(resp.pending).fl
           c == Calls(Tail(resp.pending))
           t == Through(out, inv, held)
           n == resp.n
<1>1. /\ resp \in RespType /\ fl \in BOOLEAN /\ c \in Seq(Nat) /\ t \in Seq(Nat) /\ n \in Nat
      /\ flushed \in Nat /\ HeaderLen \in Nat /\ BufSize \in Nat
  BY InCall, InvFacts DEF ItemType
<1>2. flushed + Len(c) <= n
  <2>1. flushed + Len(d \o c) <= n
    BY InCall
  <2>2. Len(d \o c) = Len(d) + Len(c) /\ Len(d) \in Nat /\ Len(c) \in Nat
    BY <1>1, Cat
  <2> HIDE DEF c, n
  <2> QED BY <1>1, <2>1, <2>2
<1>3. ~lost /\ ~resp.err =>
        /\ Skip(resp) <= n /\ (resp.parse => t = <<>>)
        /\ t \o (d \o c) = Numbers(Skip(resp), n)
  BY InCall
<1>4. CASE ~resp.parse
  <2> DEFINE rs == [resp EXCEPT !.buf = <<>>]
             bb == <<d>> \o IF fl THEN <<FLUSH>> ELSE <<>>
  <2>1. PassBrigade(rs, bb) /\ UNCHANGED lost
    BY <1>4 DEF WbucketPass
  <2>2. /\ rs \in RespType /\ rs.pending = resp.pending /\ rs.n = resp.n
        /\ rs.cgi = resp.cgi /\ rs.err = resp.err /\ rs.at = resp.at /\ rs.buf = <<>>
        /\ rs.parse = resp.parse
    <3>1. rs = [resp EXCEPT !.buf = <<>>, !.pending = resp.pending, !.status = resp.status,
                            !.parse = resp.parse, !.err = resp.err]
      BY <1>1 DEF RespType
    <3>2. <<>> \in Seq(Nat) /\ resp.pending \in Seq(ItemType) /\ resp.parse \in BOOLEAN
          /\ resp.err \in BOOLEAN /\ resp.status \in {"OK", "MOVED", "ERROR"}
      BY <1>1 DEF RespType
    <3> HIDE DEF rs
    <3>3. Updated(rs, resp, <<>>, resp.pending, resp.status, resp.parse, resp.err)
      BY <1>1, <3>1, <3>2 DEF Updated
    <3> QED BY <3>3, RespUpdate
  <2>3. bb \in Seq(Bucket) /\ BrigadeOK(bb) /\ Payload(bb) = d
    BY <1>1, DataBrigade
  <2>4. Skip(rs) = Skip(resp)
    BY <2>2 DEF Skip
  <2> HIDE DEF rs, bb
  <2> QED BY <1>2, <1>3, <1>4, <2>1, <2>2, <2>3, <2>4, PassStep
<1>5. CASE resp.parse
  <2> DEFINE body == SubSeq(d, HeaderLen + 1, Len(d))
  <2>1. PICK status \in IF HeaderLen \in ToSet(d) THEN {"OK", "MOVED"} ELSE {"ERROR"} :
          LET rs == [resp EXCEPT !.buf = <<>>, !.parse = FALSE, !.status = status] IN
          IF status = "OK" /\ body # <<>>
          THEN /\ PassBrigade(rs, <<body>> \o IF fl THEN <<FLUSH>> ELSE <<>>)
               /\ UNCHANGED lost
          ELSE /\ resp' = Returned(rs, TRUE, FALSE)
               /\ lost' = (lost \/ status # "OK")
               /\ UNCHANGED <<inv, out>>
    BY <1>5 DEF WbucketPass, HeaderParse
  <2> DEFINE rs == [resp EXCEPT !.buf = <<>>, !.parse = FALSE, !.status = status]
             bb == <<body>> \o IF fl THEN <<FLUSH>> ELSE <<>>
  <2>2. status \in {"OK", "MOVED", "ERROR"} /\ (status = "OK" => HeaderLen \in ToSet(d))
    <3>1. CASE HeaderLen \in ToSet(d)
      BY <2>1, <3>1
    <3>2. CASE ~(HeaderLen \in ToSet(d))
      BY <2>1, <3>2
    <3> QED BY <3>1, <3>2
  <2>3. /\ rs \in RespType /\ rs.pending = resp.pending /\ rs.n = resp.n
        /\ rs.cgi = resp.cgi /\ rs.err = resp.err /\ rs.at = resp.at /\ rs.buf = <<>>
        /\ rs.parse = FALSE
    <3>1. rs = [resp EXCEPT !.buf = <<>>, !.pending = resp.pending, !.status = status,
                            !.parse = FALSE, !.err = resp.err]
      BY <1>1 DEF RespType
    <3>2. <<>> \in Seq(Nat) /\ resp.pending \in Seq(ItemType) /\ FALSE \in BOOLEAN
          /\ resp.err \in BOOLEAN
      BY <1>1 DEF RespType
    <3> DEFINE ps == FALSE
    <3> HIDE DEF rs
    <3>3. Updated(rs, resp, <<>>, resp.pending, status, ps, resp.err)
      BY <1>1, <2>2, <3>1, <3>2 DEF Updated
    <3> HIDE DEF ps
    <3>4. /\ rs \in RespType /\ rs.pending = resp.pending /\ rs.n = resp.n
          /\ rs.cgi = resp.cgi /\ rs.err = resp.err /\ rs.at = resp.at /\ rs.buf = <<>>
          /\ rs.parse = ps
      BY <3>3, RespUpdate
    <3> QED BY <3>4 DEF ps
  <2>4. body \in Seq(Nat)
    <3>1. \A i \in HeaderLen + 1 .. Len(d) : d[i] \in Nat
      <4>1. \A i \in 1 .. Len(d) : d[i] \in Nat
        BY ElementOfSeq
      <4> QED BY <1>1, <4>1
    <3>2. HeaderLen + 1 \in Int /\ Len(d) \in Int
      BY <1>1, LenProperties
    <3> QED BY <3>1, <3>2, SubSeqProperties
  <2>5. Skip(rs) = HeaderLen /\ Skip(resp) = 0
    BY <1>5, <2>3, InCall DEF Skip
  <2>6. ASSUME status = "OK", ~lost, ~resp.err
        PROVE  HeaderLen <= n /\ body \o c = Numbers(HeaderLen, n) /\ t = <<>>
    <3>1. t = <<>> /\ t \o (d \o c) = Numbers(0, n)
      BY <1>3, <1>5, <2>5, <2>6
    <3>2. d \o c \in Seq(Nat)
      BY <1>1, Cat
    <3>3. d \o c = Numbers(0, n)
      <4>1. <<>> \o (d \o c) = d \o c
        BY <3>2, Cat
      <4> QED BY <3>1, <4>1
    <3>4. HeaderLen \in ToSet(d)
      BY <2>2, <2>6
    <3> HIDE DEF c, n, t
    <3>5. HeaderLen <= n /\ SubSeq(d, HeaderLen + 1, Len(d)) \o c = Numbers(HeaderLen, n)
      BY <1>1, <3>3, <3>4, NumbersSplit, ZenonT(60)
    <3> QED BY <3>1, <3>5
  <2>7. CASE status = "OK" /\ body # <<>>
    <3>1. PassBrigade(rs, bb) /\ UNCHANGED lost
      BY <2>1, <2>7
    <3> HIDE DEF body
    <3>2. bb \in Seq(Bucket) /\ BrigadeOK(bb) /\ Payload(bb) = body
      BY <1>1, <2>4, DataBrigade
    <3>3. ~lost /\ ~resp.err => Skip(rs) <= n /\ t \o (body \o c) = Numbers(Skip(rs), n)
      <4> SUFFICES ASSUME ~lost, ~resp.err
                   PROVE  Skip(rs) <= n /\ t \o (body \o c) = Numbers(Skip(rs), n)
        OBVIOUS
      <4>1. HeaderLen <= n /\ body \o c = Numbers(HeaderLen, n) /\ t = <<>>
        BY <2>6, <2>7
      <4>2. body \o c \in Seq(Nat)
        BY <1>1, <2>4, Cat
      <4>3. <<>> \o (body \o c) = body \o c
        BY <4>2, Cat
      <4> QED BY <2>5, <4>1, <4>3
    <3> HIDE DEF rs, bb
    <3> QED BY <1>2, <2>3, <3>1, <3>2, <3>3, PassStep
  <2>8. CASE ~(status = "OK" /\ body # <<>>)
    <3>1. resp' = Returned(rs, TRUE, FALSE) /\ lost' = (lost \/ status # "OK")
          /\ UNCHANGED <<inv, out>>
      BY <2>1, <2>8
    <3>2. resp' = [rs EXCEPT !.pending = Tail(resp.pending)]
      <4> HIDE DEF rs
      <4> QED BY <2>3, <3>1 DEF Returned
    <3>3. Tail(resp.pending) \in Seq(ItemType)
      BY InCall, CallsTail
    <3>4. /\ resp' \in RespType /\ resp'.pending = Tail(resp.pending) /\ resp'.n = resp.n
          /\ resp'.cgi = resp.cgi /\ resp'.err = resp.err /\ resp'.at = resp.at
          /\ resp'.parse = FALSE /\ resp'.buf = <<>>
      <4> HIDE DEF rs
      <4> QED BY <2>3, <3>2, <3>3 DEF RespType
    <3>5. Skip(resp') = HeaderLen
      BY <2>3, <2>5, <3>4 DEF Skip
    <3>6. Ready(Tail(resp.pending), <<>>) /\ Len(<<>>) <= BufSize
      BY <1>1, InCall, ReadyTail, Cat
    <3>7. ~lost' /\ ~resp.err => Skip(resp') <= n /\ t \o (<<>> \o c) = Numbers(Skip(resp'), n)
      <4> SUFFICES ASSUME ~lost', ~resp.err
                   PROVE  HeaderLen <= n /\ t \o (<<>> \o c) = Numbers(HeaderLen, n)
        BY <3>5
      <4>1. ~lost /\ status = "OK" /\ body = <<>>
        BY <2>8, <3>1
      <4>2. HeaderLen <= n /\ <<>> \o c = Numbers(HeaderLen, n) /\ t = <<>>
        BY <2>6, <4>1
      <4>3. <<>> \o (<<>> \o c) = <<>> \o c
        BY <1>1, Cat
      <4> QED BY <4>2, <4>3
    <3>8. flushed' + Len(<<>>) + Len(c) <= n /\ flushed' \in Nat
      <4>1. Len(c) \in Nat
        BY <1>1, Cat
      <4> HIDE DEF c, n
      <4> QED BY <1>1, <1>2, <4>1, Cat
    <3>9. lost' \in BOOLEAN /\ (lost => lost')
      <4>1. lost \in BOOLEAN
        BY DEF FilterInv, FilterTypeOK
      <4> QED BY <3>1, <4>1
    <3> HIDE DEF rs
    <3> QED BY <3>1, <3>4, <3>6, <3>7, <3>8, <3>9, KeepStep
  <2> QED BY <2>7, <2>8
<1>6. resp.parse \in BOOLEAN
  BY <1>1, RespFields
<1> QED BY <1>4, <1>5, <1>6


\* Each call that the response handler makes, into its buffer, through the
\* header parsing or straight to the filters, keeps the invariant.
LEMMA ResponseStepInv ==
    ASSUME FilterConstants, FilterInv, ResponseStep
    PROVE  FilterInv'
<1> DEFINE it == Head(resp.pending)
           c == Calls(Tail(resp.pending))
           t == Through(out, inv, held)
           b == resp.buf
           n == resp.n
           cp == Calls(resp.pending)
<1>0. /\ mode = "out" /\ inv = None /\ resp.pending # <<>>
      /\ UNCHANGED <<mode, chained, sent_eos, held, net, reset>>
  BY DEF ResponseStep
<1>1. /\ resp \in RespType /\ resp.pending \in Seq(ItemType) /\ b \in Seq(Nat)
      /\ c \in Seq(Nat) /\ t \in Seq(Nat) /\ cp \in Seq(Nat) /\ n \in Nat /\ flushed \in Nat
      /\ it \in ItemType /\ ItemOK(it) /\ Ready(resp.pending, b) /\ it = resp.pending[1]
      /\ (resp.parse => Buffered(resp.pending))
      /\ (resp.at # "handler" => NoCopy(resp.pending))
  BY <1>0, InCall
<1>2. /\ flushed + Len(b \o cp) <= n /\ cp = (it.d \o Payload(it.bb)) \o c
      /\ ~lost /\ ~resp.err =>
            /\ Skip(resp) <= n /\ (resp.parse => t = <<>>)
            /\ t \o (b \o cp) = Numbers(Skip(resp), n)
  BY <1>0, InCall
<1>3. it.d \in Seq(Nat) /\ it.bb \in Seq(Bucket) /\ Payload(it.bb) \in Seq(Nat)
      /\ it.fl \in BOOLEAN /\ Payload(<<>>) = <<>> /\ BufSize \in Nat /\ Len(b) <= BufSize
  BY <1>1, CallsFacts, PayloadFacts, InvFacts DEF ItemType
<1>4. 1 \in 1 .. Len(resp.pending)
  BY <1>0, <1>1
<1>5. /\ it.op \in {"pass", "direct", "flushed"} => b = <<>>
      /\ it.op = "copy" => Len(b) + Len(it.d) <= BufSize
  BY <1>0, <1>1 DEF Ready
<1>6. it.bb = <<>> => cp = it.d \o c
  <2> SUFFICES ASSUME it.bb = <<>> PROVE cp = it.d \o c
    OBVIOUS
  <2>1. Payload(it.bb) = <<>>
    BY <1>3
  <2>2. it.d \o <<>> = it.d
    BY <1>3, Cat
  <2> QED BY <1>2, <2>1, <2>2
<1>7. it.d = <<>> => cp = Payload(it.bb) \o c
  <2> SUFFICES ASSUME it.d = <<>> PROVE cp = Payload(it.bb) \o c
    OBVIOUS
  <2>1. <<>> \o Payload(it.bb) = Payload(it.bb)
    BY <1>3, Cat
  <2> QED BY <1>2, <2>1
<1>8. <<>> \o cp = cp /\ <<>> \o c = c
  <2> HIDE DEF c, cp
  <2> QED BY <1>1, Cat, SMTT(30)
<1>9. ASSUME NEW bb \in Seq(Bucket), BrigadeOK(bb), PassBrigade(resp, bb), b = <<>>,
             cp = Payload(bb) \o c, resp.parse => Payload(bb) = <<>>, UNCHANGED <<lost, flushed>>
      PROVE  FilterInv'
  <2>1. flushed + Len(c) <= n
    <3>1. Payload(bb) \in Seq(Nat)
      BY PayloadFacts
    <3>2. flushed + Len(cp) <= n
      BY <1>2, <1>8, <1>9
    <3>3. Len(cp) = Len(Payload(bb)) + Len(c) /\ Len(c) \in Nat /\ Len(Payload(bb)) \in Nat
      BY <1>1, <1>9, <3>1, Cat
    <3> DEFINE x == Len(Payload(bb))
               y == Len(c)
               z == Len(cp)
    <3>4. z = x + y /\ x \in Nat /\ y \in Nat /\ flushed + z <= n
      BY <3>2, <3>3
    <3> HIDE DEF x, y, z
    <3>5. flushed + y <= n
      BY <1>1, <3>4
    <3> QED BY <3>5 DEF y
  <2>2. ~lost /\ ~resp.err => t \o (Payload(bb) \o c) = Numbers(Skip(resp), n)
    BY <1>2, <1>8, <1>9
  <2> HIDE DEF cp
  <2> QED BY <1>0, <1>1, <1>2, <1>9, <2>1, <2>2, PassStep
<1>10. ASSUME it.op = "pass", WbucketPass(it.d, it.fl), UNCHANGED flushed
       PROVE  FilterInv'
  <2>1. b = <<>> /\ it.bb = <<>>
    BY <1>1, <1>5, <1>10 DEF ItemOK
  <2>2. it.d \o c = b \o cp
    BY <1>6, <1>8, <2>1
  <2> QED BY <1>0, <1>3, <1>10, <2>2, WbucketPassInv
<1>11. ASSUME it.op = "flush", resp.buf # <<>>, WbucketPass(resp.buf, it.fl), UNCHANGED flushed
       PROVE  FilterInv'
  <2>1. it.d = <<>> /\ it.bb = <<>>
    BY <1>1, <1>11 DEF ItemOK
  <2>2. cp = c
    BY <1>6, <1>8, <2>1
  <2> QED BY <1>0, <1>1, <1>11, <2>2, WbucketPassInv
<1>12. ASSUME it.op = "flush", resp.buf = <<>>, PassBrigade(resp, <<FLUSH>>),
              UNCHANGED <<lost, flushed>>
       PROVE  FilterInv'
  <2>1. it.d = <<>> /\ it.bb = <<>>
    BY <1>1, <1>12 DEF ItemOK
  <2>2. cp = c
    BY <1>6, <1>8, <2>1
  <2>3. Payload(<<FLUSH>>) = <<>>
    BY PayloadFacts
  <2>4. FLUSH \in Bucket
    BY Marks
  <2>5. <<FLUSH>> \in Seq(Bucket) /\ Len(<<FLUSH>>) = 1
    BY <2>4, Pair
  <2>6. BrigadeOK(<<FLUSH>>)
    BY <2>5 DEF BrigadeOK
  <2> QED BY <1>8, <1>9, <1>12, <2>2, <2>3, <2>5, <2>6
<1>13. ASSUME it.op = "direct", PassBrigade(resp, it.bb), UNCHANGED <<lost, flushed>>
       PROVE  FilterInv'
  <2>1. b = <<>> /\ it.d = <<>> /\ BrigadeOK(it.bb)
    BY <1>1, <1>5, <1>13 DEF ItemOK
  <2>2. resp.parse => Payload(it.bb) = <<>>
    BY <1>1, <1>4, <1>13 DEF Buffered
  <2> QED BY <1>3, <1>7, <1>9, <1>13, <2>1, <2>2
<1>14. ASSUME \/ it.op = "flush" /\ resp.buf = <<>> /\ ~it.fl
              \/ it.op \in {"copy", "flushed"},
              resp' = [resp EXCEPT !.pending = Tail(@), !.buf = @ \o it.d],
              flushed' = (IF it.op = "flushed" THEN resp.n ELSE flushed),
              UNCHANGED <<inv, out, lost>>
       PROVE  FilterInv'
  <2> DEFINE bd == b \o it.d
  <2>1. it.bb = <<>> /\ (it.op # "copy" => it.d = <<>> /\ b = <<>>)
    BY <1>1, <1>5, <1>14 DEF ItemOK
  <2>2. bd \in Seq(Nat) /\ Len(bd) = Len(b) + Len(it.d) /\ (it.op # "copy" => bd = <<>>)
    BY <1>1, <1>3, <2>1, Cat, SMTT(30)
  <2>3. bd \o c = b \o cp
    <3>1. cp = it.d \o c
      BY <1>6, <2>1
    <3> DEFINE d == it.d
    <3>2. d \in Seq(Nat)
      BY <1>3
    <3> HIDE DEF d, c, b, cp
    <3>3. (b \o d) \o c = b \o (d \o c)
      BY <1>1, <3>2, Assoc, ZenonT(60)
    <3> QED BY <3>1, <3>3 DEF d
  <2>4. Len(bd) <= BufSize
    <3>1. CASE it.op = "copy"
      BY <1>5, <2>2, <3>1
    <3>2. CASE it.op # "copy"
      <4>1. bd = <<>>
        BY <2>2, <3>2
      <4>2. Len(<<>>) <= BufSize
        BY <1>3, Cat
      <4> HIDE DEF bd
      <4> QED BY <4>1, <4>2
    <3> QED BY <3>1, <3>2
  <2>5. Tail(resp.pending) \in Seq(ItemType)
    BY <1>0, <1>1, CallsTail
  <2>6. Ready(Tail(resp.pending), bd)
    <3>1. /\ Ready(Tail(resp.pending), <<>>)
          /\ it.op # "flush" => \A y : Ready(Tail(resp.pending), y)
      BY <1>0, <1>1, ReadyTail
    <3> QED BY <2>2, <3>1
  <2>7. resp' = [resp EXCEPT !.pending = Tail(resp.pending), !.buf = bd]
    BY <1>14
  <2> HIDE DEF bd
  <2>8. /\ resp' \in RespType /\ resp'.pending = Tail(resp.pending) /\ resp'.n = resp.n
        /\ resp'.cgi = resp.cgi /\ resp'.err = resp.err /\ resp'.at = resp.at
        /\ resp'.parse = resp.parse /\ resp'.buf = bd
    BY <1>1, <2>2, <2>5, <2>7 DEF RespType
  <2>9. Skip(resp') = Skip(resp)
    BY <2>8 DEF Skip
  <2>10. resp.at # "handler" => bd = <<>>
    <3> SUFFICES ASSUME resp.at # "handler" PROVE it.op # "copy"
      BY <2>2
    <3> QED BY <1>1, <1>4 DEF NoCopy
  <2>11. flushed' \in Nat /\ flushed' + Len(bd) + Len(c) <= n
    <3>1. Len(bd \o c) = Len(bd) + Len(c) /\ Len(bd) \in Nat /\ Len(c) \in Nat
      BY <1>1, <2>2, Cat
    <3>2. CASE it.op = "flushed"
      <4>1. Tail(resp.pending) = <<>>
        BY <1>0, <1>1, <3>2, ReadyTail
      <4>2. c = <<>> /\ bd = <<>>
        BY <2>2, <3>2, <4>1, CallsFacts
      <4>3. flushed' = n
        BY <1>14, <3>2
      <4> HIDE DEF c, n
      <4> QED BY <1>1, <4>2, <4>3, Cat
    <3>3. CASE it.op # "flushed"
      <4> DEFINE x == Len(bd)
                 y == Len(c)
                 z == Len(b \o cp)
      <4>1. flushed' = flushed /\ z = x + y /\ x \in Nat /\ y \in Nat /\ flushed + z <= n
        BY <1>2, <1>14, <2>3, <3>1, <3>3, Zenon
      <4> HIDE DEF x, y, z, n
      <4>2. flushed + x + y <= n
        BY <1>1, <4>1, SMTT(30)
      <4> QED BY <1>1, <4>1, <4>2, SMTT(30) DEF x, y, n
    <3> QED BY <3>2, <3>3
  <2>12. ~lost' /\ ~resp.err =>
            /\ Skip(resp') <= n /\ (resp'.parse => t = <<>>)
            /\ t \o (bd \o c) = Numbers(Skip(resp'), n)
    BY <1>2, <1>14, <2>3, <2>8, <2>9, Zenon
  <2>13. lost' \in BOOLEAN /\ (lost => lost')
    BY <1>14 DEF FilterInv, FilterTypeOK
  <2> QED BY <1>0, <1>14, <2>4, <2>6, <2>8, <2>10, <2>11, <2>12, <2>13, KeepStep
<1> HIDE DEF c, t, b, n, cp
<1> QED BY <1>10, <1>11, <1>12, <1>13, <1>14 DEF ResponseStep


-----------------------------------------------------------------------------
(* The filter runs.                                                        *)

\* Bytes move on: o is what came out, a and b are printed, h is held, the
\* others are unread.
Flow(o, a, b, h, l, d) == o \o (a \o (b \o (h \o (l \o d))))

\* What has passed the buffer, spelled out for a running invocation.
LEMMA ThroughIs ==
    ASSUME FilterConstants, NEW v \in InvType, NEW o, NEW h
    PROVE  Through(o, v, h)
             = Flow(BytesOf(o), v.wb, Payload(v.bb_out), h, v.left, Payload(v.bb))
<1>1. v # None
  BY InvFields
<1> QED BY <1>1 DEF Through, InFilter, Flow

\* Sequences of bytes, to say which ones are taken together.
Bytes2(a, b) == a \in Seq(Nat) /\ b \in Seq(Nat)
Bytes3(a, b, c) == Bytes2(a, b) /\ c \in Seq(Nat)
Bytes6(s, a, b, h, l, d) == Bytes3(s, a, b) /\ Bytes3(h, l, d)

\* Bytes behind bytes are bytes.
LEMMA Two ==
    ASSUME NEW a, NEW b, Bytes2(a, b)
    PROVE  a \o b \in Seq(Nat)
BY Cat DEF Bytes2

\* The same of three parts, however they are taken together.
LEMMA Three ==
    ASSUME NEW a, NEW b, NEW c, Bytes3(a, b, c)
    PROVE  /\ (a \o b) \o c = a \o (b \o c)
           /\ a \o b \in Seq(Nat) /\ b \o c \in Seq(Nat) /\ a \o (b \o c) \in Seq(Nat)
<1>1. a \o b \in Seq(Nat) /\ b \o c \in Seq(Nat)
  BY Cat DEF Bytes2, Bytes3
<1>2. (a \o b) \o c = a \o (b \o c)
  BY Assoc DEF Bytes2, Bytes3
<1> QED BY <1>1, <1>2, Cat DEF Bytes2, Bytes3

\* A read returns g: what was unread, with x behind it, falls into g and the
\* new unread bytes.
Reads(g, l2, d2, l, d, x) ==
    Bytes3(g, l2, d2) /\ x \in Seq(Nat) /\ g \o (l2 \o d2) = l \o (d \o x)

\* A read moves bytes from the unread ones to those the Perl code holds, and
\* what is in the filter gains what was read beyond them.
LEMMA FlowRead ==
    ASSUME NEW s, NEW a, NEW b, NEW h, NEW l, NEW d, Bytes6(s, a, b, h, l, d),
           NEW g, NEW l2, NEW d2, NEW x, Reads(g, l2, d2, l, d, x)
    PROVE  Flow(s, a, b, h \o g, l2, d2) = Flow(s, a, b, h, l, d) \o x
<1> DEFINE u == l \o d
<1> DEFINE z == h \o u
<1> DEFINE y == b \o z
<1> DEFINE w == a \o y
<1> DEFINE i == l2 \o d2
<1>1. i \in Seq(Nat) /\ u \in Seq(Nat)
  <2>1. Bytes2(l2, d2) /\ Bytes2(l, d)
    BY DEF Bytes2, Bytes3, Bytes6, Reads
  <2> QED BY <2>1, Two
<1>2. (h \o g) \o i = h \o (g \o i)
  <2>1. Bytes3(h, g, i)
    BY <1>1 DEF Bytes2, Bytes3, Bytes6, Reads
  <2> HIDE DEF i
  <2> QED BY ONLY <2>1, Three, SMTT(40)
<1>3. u \o x = l \o (d \o x)
  <2>1. Bytes3(l, d, x)
    BY DEF Bytes2, Bytes3, Bytes6, Reads
  <2> QED BY ONLY <2>1, Three, SMTT(40)
<1>4. (h \o g) \o i = h \o (u \o x)
  BY <1>2, <1>3 DEF Reads
<1> HIDE DEF u
<1>5. z \in Seq(Nat) /\ h \o (u \o x) = z \o x
  <2>1. Bytes3(h, u, x)
    BY <1>1 DEF Bytes2, Bytes3, Bytes6, Reads
  <2> QED BY ONLY <2>1, Three, SMTT(40)
<1> HIDE DEF z
<1>6. y \in Seq(Nat) /\ b \o (z \o x) = y \o x
  <2>1. Bytes3(b, z, x)
    BY <1>5 DEF Bytes2, Bytes3, Bytes6, Reads
  <2> QED BY ONLY <2>1, Three, SMTT(40)
<1> HIDE DEF y
<1>7. w \in Seq(Nat) /\ a \o (y \o x) = w \o x
  <2>1. Bytes3(a, y, x)
    BY <1>6 DEF Bytes2, Bytes3, Bytes6, Reads
  <2> QED BY ONLY <2>1, Three, SMTT(40)
<1> HIDE DEF w
<1>8. s \o (w \o x) = (s \o w) \o x
  <2>1. Bytes3(s, w, x)
    BY <1>7 DEF Bytes2, Bytes3, Bytes6, Reads
  <2> QED BY ONLY <2>1, Three, SMTT(40)
<1>9. Flow(s, a, b, h \o g, l2, d2) = s \o (a \o (b \o ((h \o g) \o i)))
  BY DEF Flow, i
<1>10. Flow(s, a, b, h, l, d) = s \o w
  BY DEF Flow, w, y, z, u
<1> HIDE DEF i
<1> QED BY <1>4, <1>5, <1>6, <1>7, <1>8, <1>9, <1>10

\* Printed bytes come out.
LEMMA FlowOut ==
    ASSUME NEW s, NEW a, NEW b, NEW h, NEW l, NEW d, Bytes6(s, a, b, h, l, d)
    PROVE  Flow(s \o a, <<>>, b, h, l, d) = Flow(s, a, b, h, l, d)
<1> DEFINE x == b \o (h \o (l \o d))
<1>1. x \in Seq(Nat)
  <2>1. Bytes3(h, l, d) /\ b \in Seq(Nat)
    BY DEF Bytes3, Bytes6
  <2>2. h \o (l \o d) \in Seq(Nat)
    BY ONLY <2>1, Three, SMTT(40)
  <2>3. Bytes2(b, h \o (l \o d))
    BY <2>1, <2>2 DEF Bytes2
  <2> QED BY <2>3, Two
<1>2. /\ Flow(s \o a, <<>>, b, h, l, d) = (s \o a) \o (<<>> \o x)
      /\ Flow(s, a, b, h, l, d) = s \o (a \o x)
  BY DEF Flow
<1> HIDE DEF x
<1>3. (s \o a) \o x = s \o (a \o x)
  <2>1. Bytes3(s, a, x)
    BY <1>1 DEF Bytes2, Bytes3, Bytes6
  <2> QED BY ONLY <2>1, Three, SMTT(40)
<1>4. <<>> \o x = x
  BY <1>1, Cat
<1> QED BY <1>2, <1>3, <1>4

\* The Perl code prints the first bytes k that it holds: an output filter into
\* its buffer, of which e comes out, and an input filter into its brigade.
Prints(a, k, e, a2) == k \in Seq(Nat) /\ Bytes2(e, a2) /\ e \o a2 = a \o k

\* An output filter's print leaves the flow as it is.
LEMMA FlowPrintOut ==
    ASSUME NEW s, NEW a, NEW b, NEW h, NEW l, NEW d, Bytes6(s, a, b, h, l, d),
           NEW k, NEW e, NEW a2, Prints(a, k, e, a2)
    PROVE  Flow(s \o e, a2, <<>>, h, l, d) = Flow(s, a, <<>>, k \o h, l, d)
<1> DEFINE i == l \o d
<1> DEFINE x == h \o i
<1>0. k \in Seq(Nat) /\ Bytes2(e, a2) /\ e \o a2 = a \o k
  BY DEF Prints
<1>1. x \in Seq(Nat) /\ i \in Seq(Nat)
  <2>1. Bytes3(h, l, d)
    BY DEF Bytes6
  <2> QED BY ONLY <2>1, Three, SMTT(40)
<1>2. (k \o h) \o i = k \o x /\ k \o x \in Seq(Nat)
  <2>1. Bytes3(k, h, i)
    BY <1>0, <1>1 DEF Bytes2, Bytes3, Bytes6
  <2> HIDE DEF i
  <2> QED BY ONLY <2>1, Three, SMTT(40)
<1>3. Flow(s \o e, a2, <<>>, h, l, d) = (s \o e) \o (a2 \o (<<>> \o x))
  BY DEF Flow
<1>4. Flow(s, a, <<>>, k \o h, l, d) = s \o (a \o (<<>> \o (k \o x)))
  BY <1>2 DEF Flow
<1> HIDE DEF x
<1>5. <<>> \o x = x /\ <<>> \o (k \o x) = k \o x
  BY <1>1, <1>2, Cat
<1>6. e \o (a2 \o x) = (e \o a2) \o x /\ a2 \o x \in Seq(Nat)
  <2>1. Bytes3(e, a2, x)
    BY <1>0, <1>1 DEF Bytes2, Bytes3
  <2> QED BY ONLY <2>1, Three, SMTT(40)
<1>7. a \o (k \o x) = (a \o k) \o x
  <2>1. Bytes3(a, k, x)
    BY <1>0, <1>1 DEF Bytes2, Bytes3, Bytes6
  <2> QED BY ONLY <2>1, Three, SMTT(40)
<1> DEFINE y == a2 \o x
<1>8. (s \o e) \o y = s \o (e \o y)
  <2>1. Bytes3(s, e, y)
    BY <1>0, <1>6 DEF Bytes2, Bytes3, Bytes6
  <2> HIDE DEF y
  <2> QED BY ONLY <2>1, Three, SMTT(40)
<1>9. e \o y = a \o (k \o x)
  BY <1>0, <1>6, <1>7
<1> QED BY <1>3, <1>4, <1>5, <1>8, <1>9

\* So does an input filter's print.
LEMMA FlowPrint ==
    ASSUME NEW s, NEW a, NEW b, NEW h, NEW l, NEW d, Bytes6(s, a, b, h, l, d),
           NEW k, k \in Seq(Nat)
    PROVE  Flow(s, a, b \o k, h, l, d) = Flow(s, a, b, k \o h, l, d)
<1> DEFINE i == l \o d
<1> DEFINE x == h \o i
<1>1. x \in Seq(Nat) /\ i \in Seq(Nat)
  <2>1. Bytes3(h, l, d)
    BY DEF Bytes6
  <2> QED BY ONLY <2>1, Three, SMTT(40)
<1>2. (k \o h) \o i = k \o x
  <2>1. Bytes3(k, h, i)
    BY <1>1 DEF Bytes2, Bytes3, Bytes6
  <2> HIDE DEF i
  <2> QED BY ONLY <2>1, Three, SMTT(40)
<1>3. Flow(s, a, b \o k, h, l, d) = s \o (a \o ((b \o k) \o x))
  BY DEF Flow
<1>4. Flow(s, a, b, k \o h, l, d) = s \o (a \o (b \o (k \o x)))
  BY <1>2 DEF Flow
<1> HIDE DEF x
<1>5. (b \o k) \o x = b \o (k \o x)
  <2>1. Bytes3(b, k, x)
    BY <1>1 DEF Bytes2, Bytes3, Bytes6
  <2> QED BY ONLY <2>1, Three, SMTT(40)
<1> QED BY <1>3, <1>4, <1>5

\* What the invariant says while an invocation runs.
LEMMA InvocationRuns ==
    ASSUME FilterConstants, FilterInv, inv # None
    PROVE  /\ inv \in InvType /\ BrigadeOK(inv.bb) /\ Len(inv.wb) <= BufSize
           /\ ~inv.got => inv.bb = <<>> /\ ~inv.seen_eos
           /\ ~inv.read => inv.left = <<>>
           /\ inv.seen_eos \/ inv.dry => inv.left = <<>> /\ inv.bb = <<>>
           /\ mode = "out" => Payload(inv.bb_out) = <<>> /\ inv.got
           /\ mode = "in" => /\ inv.wb = <<>> /\ (~inv.read => ~inv.got)
                             /\ Len(Payload(inv.bb_out)) + inv.room = resp.want
           /\ resp.pending # <<>> /\ resp.buf = <<>> /\ ~sent_eos
           /\ Todo(resp, inv) = Tail(resp.pending)
           /\ Tail(resp.pending) \in Seq(ItemType)
           /\ Calls(Tail(resp.pending)) \in Seq(Nat)
           /\ Through(out, inv, held) \in Seq(Nat)
<1>1. resp \in RespType /\ out \in Seq(Marked) /\ held \in Seq(Nat)
      /\ inv \in InvType \cup {None} /\ resp.pending # <<>> /\ resp.buf = <<>> /\ ~sent_eos
  BY InvFacts DEF FilterInv, ResponseOK
<1>2. /\ inv \in InvType /\ BrigadeOK(inv.bb) /\ Len(inv.wb) <= BufSize
      /\ ~inv.got => inv.bb = <<>> /\ ~inv.seen_eos
      /\ ~inv.read => inv.left = <<>>
      /\ inv.seen_eos \/ inv.dry => inv.left = <<>> /\ inv.bb = <<>>
      /\ mode = "out" => Payload(inv.bb_out) = <<>> /\ inv.got
      /\ mode = "in" => /\ inv.wb = <<>> /\ (~inv.read => ~inv.got)
                        /\ Len(Payload(inv.bb_out)) + inv.room = resp.want
  BY DEF FilterInv, InvocationOK
<1>3. Todo(resp, inv) = Tail(resp.pending) /\ Todo(resp, inv) \in Seq(ItemType)
  BY <1>1, TodoFacts
<1>4. Calls(Tail(resp.pending)) \in Seq(Nat) /\ Through(out, inv, held) \in Seq(Nat)
  BY <1>1, <1>3, CallsFacts, ThroughType
<1> QED BY <1>1, <1>2, <1>3, <1>4

\* A step of the filter's Perl code that does not end the invocation.
LEMMA FilterKeep ==
    ASSUME FilterConstants, FilterInv, inv # None,
           inv' \in InvType, InvocationOK(inv', mode, resp.want),
           out' \in Seq(Marked), held' \in Seq(Nat), net' \in net .. Bytes,
           chained' \in BOOLEAN, mode = "out" => net' = net,
           Through(out', inv', held') = Through(out, inv, held) \o Numbers(net, net'),
           UNCHANGED <<mode, resp, sent_eos, reset, flushed, lost>>
    PROVE  FilterInv'
<1> DEFINE t == Through(out, inv, held)
<1>1. inv' # None /\ net \in Nat /\ net' \in Nat /\ net <= net' /\ net' \in 0 .. Bytes
  BY InvFields, InvFacts
<1>2. resp.pending # <<>> /\ t \in Seq(Nat) /\ resp \in RespType
  BY InvocationRuns, InvFacts
<1>3. Todo(resp', inv') = Todo(resp, inv)
  BY <1>1, <1>2, TodoFacts
<1>4. FilterTypeOK'
  BY <1>1 DEF FilterInv, FilterTypeOK, Marked
<1>5. ResponseOK(resp', mode', inv')
  BY <1>1, <1>3 DEF FilterInv, ResponseOK
<1>6. ASSUME ~lost', ~resp'.err PROVE Whole(mode', resp', inv', held', net', out')
  <2>0. Whole(mode, resp, inv, held, net, out)
    BY <1>6 DEF FilterInv
  <2>1. CASE mode = "in"
    <3>1. t = Numbers(0, net)
      BY <2>0, <2>1 DEF Whole
    <3>2. Numbers(0, net) \o Numbers(net, net') = Numbers(0, net')
      <4>1. 0 \in Nat /\ 0 <= net
        BY <1>1
      <4> QED BY <1>1, <4>1, NumbersFacts
    <3> QED BY <2>1, <3>1, <3>2 DEF Whole
  <2>2. CASE mode # "in"
    <3>1. mode = "out"
      BY <2>2, InvFacts
    <3>2. Through(out', inv', held') = t
      <4>1. Numbers(net, net') = <<>>
        BY <1>1, <3>1, NumbersNone
      <4> HIDE DEF t
      <4> QED BY <1>2, <4>1, Cat DEF t
    <3> QED BY <1>3, <2>0, <2>2, <3>2 DEF Whole
  <2> QED BY <2>1, <2>2
<1>7. ((reset => lost) /\ (inv # None => ~sent_eos)
        /\ (inv = None /\ (~chained \/ sent_eos) => held = <<>>))'
  BY <1>1 DEF FilterInv
<1>8. (flushed + Len(resp.buf) + Len(Calls(Todo(resp, inv))) <= resp.n)'
  BY <1>3 DEF FilterInv
<1> QED BY <1>4, <1>5, <1>6, <1>7, <1>8 DEF FilterInv

\* Two brigades, one behind the other.
LEMMA PayloadCat ==
    ASSUME FilterConstants, NEW s, NEW t, s \in Seq(Bucket), t \in Seq(Bucket)
    PROVE  /\ Payload(s \o t) = Payload(s) \o Payload(t)
           /\ Payload(t) = <<>> => Payload(s \o t) = Payload(s)
           /\ s \o t \in Seq(Bucket)
<1>1. Payload(s \o t) = Payload(s) \o Payload(t) /\ Payload(s) \in Seq(Nat)
  BY PayloadFacts
<1>2. Payload(s) \o <<>> = Payload(s)
  BY <1>1, Cat
<1> QED BY <1>1, <1>2, ConcatProperties

\* What the network has for ap_get_brigade continues the client's bytes.
LEMMA FromNetFacts ==
    ASSUME FilterConstants, net \in 0 .. Bytes, NEW n \in Nat, NEW g \in FromNet(n)
    PROVE  /\ g[1] \in Seq(Bucket) /\ BrigadeOK(g[1])
           /\ g[2] \in Nat /\ g[2] <= n /\ net + g[2] \in net .. Bytes
           /\ Payload(g[1]) = Numbers(net, net + g[2])
<1> DEFINE rest == Bytes - net
           data(k) == {<<Numbers(net, net + k)>>}
                      \cup {<<Numbers(net, net + j), Numbers(net + j, net + k)>> :
                              j \in 1 .. (k - 1)}
<1>1. net \in Nat /\ Bytes \in Nat /\ net <= Bytes /\ rest \in Nat /\ net + rest = Bytes
  BY DEF FilterConstants
<1>2. ASSUME NEW k \in 1 .. rest, NEW bb \in data(k)
      PROVE  /\ bb \in Seq(Bucket) /\ \A i \in 1 .. Len(bb) : IsData(bb[i])
             /\ Payload(bb) = Numbers(net, net + k)
  <2>1. CASE bb = <<Numbers(net, net + k)>>
    <3> DEFINE x == Numbers(net, net + k)
    <3>1. x \in Seq(Nat)
      <4>1. net + k \in Nat /\ net <= net + k
        BY <1>1
      <4> QED BY <1>1, <4>1, NumbersFacts
    <3>2. x \in Bucket /\ IsData(x) /\ Payload(<<x>>) = x
      BY <3>1, Marks, PayloadFacts
    <3> HIDE DEF x
    <3>3. <<x>> \in Seq(Bucket) /\ Len(<<x>>) = 1 /\ <<x>>[1] = x
      BY <3>2, Pair
    <3>4. bb = <<x>>
      BY <2>1 DEF x
    <3>5. Payload(bb) = Numbers(net, net + k)
      BY <3>2, <3>4 DEF x
    <3> QED BY <3>2, <3>3, <3>4, <3>5
  <2>2. CASE bb # <<Numbers(net, net + k)>>
    <3>1. PICK j \in 1 .. (k - 1) :
            bb = <<Numbers(net, net + j), Numbers(net + j, net + k)>>
      BY <1>2, <2>2
    <3> DEFINE x == Numbers(net, net + j)
               y == Numbers(net + j, net + k)
    <3>2. net + j \in Nat /\ net + k \in Nat /\ net <= net + j /\ net + j <= net + k
      BY <1>1
    <3>3. x \in Seq(Nat) /\ x \o y = Numbers(net, net + k)
      BY <1>1, <3>2, NumbersFacts
    <3>4. y \in Seq(Nat)
      BY <3>2, NumbersFacts
    <3> HIDE DEF x, y
    <3>5. /\ x \in Bucket /\ y \in Bucket /\ IsData(x) /\ IsData(y)
          /\ Payload(<<x>>) = x /\ Payload(<<y>>) = y
      BY <3>3, <3>4, Marks, PayloadFacts
    <3>6. /\ <<x, y>> \in Seq(Bucket) /\ Len(<<x, y>>) = 2 /\ <<x, y>>[1] = x /\ <<x, y>>[2] = y
          /\ <<x>> \in Seq(Bucket)
      BY <3>5, Pair
    <3>7. <<y>> \in Seq(Bucket) /\ <<x>> \o <<y>> = <<x, y>>
      BY <3>5, Pair, Tuples
    <3>8. Payload(<<x, y>>) = x \o y
      <4> DEFINE p == <<x>>
                 q == <<y>>
      <4>1. p \in Seq(Bucket) /\ q \in Seq(Bucket) /\ Payload(p) = x /\ Payload(q) = y
            /\ p \o q = <<x, y>>
        BY <3>5, <3>6, <3>7
      <4> HIDE DEF p, q
      <4>2. Payload(p \o q) = x \o y
        BY <4>1, PayloadCat
      <4> QED BY <4>1, <4>2
    <3>9. bb = <<x, y>>
      BY <3>1 DEF x, y
    <3> QED BY <3>3, <3>5, <3>6, <3>8, <3>9
  <2> QED BY <2>1, <2>2
<1> HIDE DEF data
<1>3. ASSUME NEW k \in 1 .. rest, NEW bb \in data(k)
      PROVE  /\ Append(bb, EOS) \in Seq(Bucket) /\ BrigadeOK(Append(bb, EOS))
             /\ BrigadeOK(bb) /\ Payload(Append(bb, EOS)) = Numbers(net, net + k)
  <2>1. /\ bb \in Seq(Bucket) /\ \A i \in 1 .. Len(bb) : IsData(bb[i])
        /\ Payload(bb) = Numbers(net, net + k)
    BY <1>2, <1>3
  <2>2. EOS \in Bucket /\ <<EOS>> \in Seq(Bucket) /\ Payload(<<EOS>>) = <<>>
    BY Marks, PayloadFacts
  <2>3. Append(bb, EOS) = bb \o <<EOS>> /\ Append(bb, EOS) \in Seq(Bucket)
    BY <2>1, <2>2, AppendIsConcat
  <2>4. BrigadeOK(Append(bb, EOS)) /\ BrigadeOK(bb)
    BY <2>1, <2>2 DEF BrigadeOK
  <2>5. Payload(bb \o <<EOS>>) = Payload(bb)
    BY <2>1, <2>2, PayloadCat
  <2> QED BY <2>1, <2>3, <2>4, <2>5
<1>4. CASE rest = 0
  <2>1. g = <<<<EOS>>, 0>>
    BY <1>4 DEF FromNet
  <2>2. EOS \in Bucket /\ <<EOS>> \in Seq(Bucket) /\ Payload(<<EOS>>) = <<>> /\ Len(<<EOS>>) = 1
    BY Marks, PayloadFacts
  <2>3. BrigadeOK(<<EOS>>)
    BY <2>2 DEF BrigadeOK
  <2>4. Numbers(net, net + 0) = <<>>
    BY <1>1, NumbersNone
  <2>5. g[1] = <<EOS>> /\ g[2] = 0
    BY <2>1
  <2> QED BY <1>1, <2>2, <2>3, <2>4, <2>5
<1>5. CASE rest # 0
  <2>1. \/ \E k \in 1 .. (IF n < rest THEN n ELSE rest) : \E bb \in data(k) : g = <<bb, k>>
        \/ rest <= n /\ \E bb \in data(rest) : g = <<Append(bb, EOS), rest>>
    <3> DEFINE A == UNION {{<<bb, k>> : bb \in data(k)} : k \in 1 .. (IF n < rest THEN n ELSE rest)}
               B == {<<Append(bb, EOS), rest>> : bb \in data(rest)}
    <3>0. FromNet(n) = IF rest = 0 THEN {<<<<EOS>>, 0>>}
                       ELSE A \cup IF rest <= n THEN B ELSE {}
      BY Zenon DEF FromNet, data
    <3>1. FromNet(n) = A \cup IF rest <= n THEN B ELSE {}
      <4> HIDE DEF A, B, rest
      <4> QED BY <1>5, <3>0
    <3>2. g \in A \/ (rest <= n /\ g \in B)
      <4> HIDE DEF A, B, rest
      <4> QED BY <3>1
    <3> QED BY <3>2
  <2>2. CASE \E k \in 1 .. (IF n < rest THEN n ELSE rest) : \E bb \in data(k) : g = <<bb, k>>
    <3>1. PICK k \in 1 .. (IF n < rest THEN n ELSE rest) : \E bb \in data(k) : g = <<bb, k>>
      BY <2>2
    <3>2. PICK bb \in data(k) : g = <<bb, k>>
      BY <3>1
    <3>3. k \in 1 .. rest /\ k \in Nat /\ k <= n /\ k <= rest
      BY <1>1
    <3>4. bb \in Seq(Bucket) /\ BrigadeOK(bb) /\ Payload(bb) = Numbers(net, net + k)
      BY <1>2, <1>3, <3>3
    <3>5. g[1] = bb /\ g[2] = k /\ net + k \in net .. Bytes
      BY <1>1, <3>2, <3>3
    <3> QED BY <3>3, <3>4, <3>5
  <2>3. CASE rest <= n /\ \E bb \in data(rest) : g = <<Append(bb, EOS), rest>>
    <3>1. PICK bb \in data(rest) : g = <<Append(bb, EOS), rest>>
      BY <2>3
    <3>2. rest \in 1 .. rest
      BY <1>1, <1>5
    <3>3. /\ Append(bb, EOS) \in Seq(Bucket) /\ BrigadeOK(Append(bb, EOS))
          /\ Payload(Append(bb, EOS)) = Numbers(net, net + rest)
      BY <1>3, <3>2
    <3>4. g[1] = Append(bb, EOS) /\ g[2] = rest /\ net + rest \in net .. Bytes
      BY <1>1, <3>1
    <3> QED BY <1>1, <2>3, <3>3, <3>4
  <2> QED BY <2>1, <2>2, <2>3
<1> QED BY <1>4, <1>5

\* The two updates of the invocation by $f->read.
AfterRead(r, z, u, t) ==
    /\ r \in InvType /\ z \in BOOLEAN
    /\ u = [r EXCEPT !.read = TRUE, !.dry = z]
    /\ t = [u EXCEPT !.flush = FALSE, !.wb = <<>>, !.bb_out = Append(@, FLUSH)]

\* The fields of an invocation that has read.
LEMMA ReadUpdate ==
    ASSUME FilterConstants, NEW r, NEW z, NEW u, NEW t, AfterRead(r, z, u, t)
    PROVE  /\ u \in InvType /\ u.read /\ u.dry = z /\ u.wb = r.wb /\ u.bb_out = r.bb_out
           /\ u.left = r.left /\ u.bb = r.bb /\ u.got = r.got /\ u.room = r.room
           /\ u.seen_eos = r.seen_eos
           /\ t \in InvType /\ t.read /\ t.dry = z /\ t.wb = <<>>
           /\ Payload(t.bb_out) = Payload(r.bb_out)
           /\ t.left = r.left /\ t.bb = r.bb /\ t.got = r.got /\ t.room = r.room
           /\ t.seen_eos = r.seen_eos
<1> DEFINE yes == TRUE
<1>0. yes \in BOOLEAN /\ yes /\ r \in InvType /\ z \in BOOLEAN
  BY DEF AfterRead
<1>1. u = [r EXCEPT !.read = yes, !.dry = z]
  BY DEF AfterRead
<1> HIDE DEF yes
<1>2. /\ u \in InvType /\ u.read = yes /\ u.dry = z /\ u.wb = r.wb /\ u.bb_out = r.bb_out
      /\ u.left = r.left /\ u.bb = r.bb /\ u.got = r.got /\ u.room = r.room
      /\ u.seen_eos = r.seen_eos
  BY <1>0, <1>1 DEF InvType
<1> DEFINE b == Append(u.bb_out, FLUSH)
           no == FALSE
<1>3. b \in Seq(Bucket) /\ Payload(b) = Payload(u.bb_out)
  <2>1. u.bb_out \in Seq(Bucket)
    BY <1>2, InvFields
  <2>2. FLUSH \in Bucket /\ <<FLUSH>> \in Seq(Bucket) /\ Payload(<<FLUSH>>) = <<>>
    BY Marks, PayloadFacts
  <2>3. b = u.bb_out \o <<FLUSH>> /\ b \in Seq(Bucket)
    BY <2>1, <2>2, AppendIsConcat
  <2>4. Payload(u.bb_out \o <<FLUSH>>) = Payload(u.bb_out)
    BY <2>1, <2>2, PayloadCat
  <2> QED BY <2>3, <2>4
<1>4. t = [u EXCEPT !.flush = no, !.wb = <<>>, !.bb_out = b] /\ no \in BOOLEAN
      /\ <<>> \in Seq(Nat)
  BY <1>2 DEF InvType, AfterRead
<1> HIDE DEF b, no
<1>5. /\ t \in InvType /\ t.read = u.read /\ t.dry = u.dry /\ t.wb = <<>> /\ t.bb_out = b
      /\ t.left = u.left /\ t.bb = u.bb /\ t.got = u.got /\ t.room = u.room
      /\ t.seen_eos = u.seen_eos
  BY <1>2, <1>3, <1>4 DEF InvType
<1> QED BY <1>0, <1>2, <1>3, <1>5

\* What comes out: data and marks behind what came out before.
LEMMA BytesCat3 ==
    ASSUME FilterConstants, NEW o, NEW s, NEW m,
           o \in Seq(Marked), s \in Seq(Marked), m \in Seq(Marked), BytesOf(m) = <<>>
    PROVE  /\ o \o s \o m \in Seq(Marked)
           /\ BytesOf(o \o s \o m) = BytesOf(o) \o BytesOf(s)
<1> DEFINE x == o \o s
<1>1. x \in Seq(Marked) /\ x \o m \in Seq(Marked)
  BY ConcatProperties
<1>2. BytesOf(x) = BytesOf(o) \o BytesOf(s)
  BY BytesOfFacts
<1> HIDE DEF x
<1>3. BytesOf(x \o m) = BytesOf(x) \o BytesOf(m) /\ BytesOf(x) \in Seq(Nat)
  BY <1>1, BytesOfFacts
<1>4. BytesOf(x) \o <<>> = BytesOf(x)
  BY <1>3, Cat
<1>5. BytesOf(x \o m) = BytesOf(o) \o BytesOf(s)
  BY <1>2, <1>3, <1>4
<1> QED BY <1>1, <1>5 DEF x

\* $f->read, once it has a brigade.
LEMMA ReadStepInv ==
    ASSUME FilterConstants, FilterInv, inv # None,
           NEW fetched \in Seq(Bucket), BrigadeOK(fetched),
           NEW n \in Nat, net + n \in net .. Bytes, NEW w \in Nat \ {0},
           Payload(fetched) = Payload(inv.bb) \o Numbers(net, net + n),
           mode = "out" => n = 0, inv.seen_eos => fetched = <<>>,
           ReadStep(fetched, n, w),
           UNCHANGED <<mode, resp, chained, sent_eos, reset, flushed, lost>>
    PROVE  FilterInv'
<1> DEFINE v0 == [inv EXCEPT !.bb = fetched, !.got = TRUE]
           r == FilterRead(v0, w)
           z == r.got = <<>>
           u == [r.v EXCEPT !.read = TRUE, !.dry = z]
           t == [u EXCEPT !.flush = FALSE, !.wb = <<>>, !.bb_out = Append(@, FLUSH)]
           x == Numbers(net, net + n)
           now == r.v.flush /\ z
<1>1. /\ inv \in InvType /\ resp \in RespType /\ out \in Seq(Marked) /\ held \in Seq(Nat)
      /\ net \in Nat /\ mode \in {"out", "in"} /\ BytesOf(out) \in Seq(Nat)
  BY InvocationRuns, InvFacts, BytesOfFacts
<1>2. /\ inv.wb \in Seq(Nat) /\ inv.left \in Seq(Nat) /\ Payload(inv.bb) \in Seq(Nat)
      /\ inv.bb_out \in Seq(Bucket) /\ Payload(inv.bb_out) \in Seq(Nat)
  BY <1>1, InvFields
<1>3. /\ v0 \in InvType /\ v0.bb = fetched /\ v0.got = TRUE /\ v0.left = inv.left
      /\ v0.wb = inv.wb /\ v0.bb_out = inv.bb_out /\ v0.room = inv.room
      /\ v0.seen_eos = inv.seen_eos
  <2> DEFINE yes == TRUE
  <2>1. v0 = [inv EXCEPT !.bb = fetched, !.got = yes] /\ yes \in BOOLEAN
    OBVIOUS
  <2> HIDE DEF yes, v0
  <2>2. /\ v0 \in InvType /\ v0.bb = fetched /\ v0.got = yes /\ v0.left = inv.left
        /\ v0.wb = inv.wb /\ v0.bb_out = inv.bb_out /\ v0.room = inv.room
        /\ v0.seen_eos = inv.seen_eos
    BY <1>1, <2>1 DEF InvType
  <2> QED BY <2>2 DEF yes
<1>4. /\ (now /\ mode = "out" => ~reset) /\ net' = net + n /\ held' = held \o r.got
      /\ inv' = (IF ~now THEN u ELSE t)
      /\ out' = (IF now /\ mode = "out" THEN out \o inv.wb \o <<FLUSH>> ELSE out)
  BY DEF ReadStep
<1> HIDE DEF v0
<1>5. ReadOK(v0, r)
  <2>1. v0.seen_eos => v0.left = <<>> /\ v0.bb = <<>>
    BY <1>3, InvocationRuns
  <2> QED BY <1>3, <2>1, FilterReads
<1> HIDE DEF r
<1>6. /\ r.got \in Seq(Nat) /\ r.v \in InvType
      /\ r.v.wb = inv.wb /\ r.v.bb_out = inv.bb_out /\ r.v.room = inv.room /\ r.v.got = TRUE
      /\ r.got \o (r.v.left \o Payload(r.v.bb)) = inv.left \o Payload(fetched)
      /\ r.got = <<>> \/ r.v.seen_eos => r.v.left = <<>> /\ r.v.bb = <<>>
      /\ BrigadeOK(r.v.bb)
  BY <1>3, <1>5 DEF ReadOK
<1>7. /\ r.v.left \in Seq(Nat) /\ Payload(r.v.bb) \in Seq(Nat)
      /\ r.v.seen_eos \in BOOLEAN
  BY <1>6, InvFields
<1>8. z \in BOOLEAN
  OBVIOUS
<1> HIDE DEF z
<1>9. /\ u \in InvType /\ u.read /\ u.dry = z /\ u.wb = r.v.wb /\ u.bb_out = r.v.bb_out
      /\ u.left = r.v.left /\ u.bb = r.v.bb /\ u.got = r.v.got /\ u.room = r.v.room
      /\ u.seen_eos = r.v.seen_eos
      /\ t \in InvType /\ t.read /\ t.dry = z /\ t.wb = <<>>
      /\ Payload(t.bb_out) = Payload(r.v.bb_out)
      /\ t.left = r.v.left /\ t.bb = r.v.bb /\ t.got = r.v.got /\ t.room = r.v.room
      /\ t.seen_eos = r.v.seen_eos
  <2>1. AfterRead(r.v, z, u, t)
    BY <1>6, <1>8 DEF AfterRead
  <2> HIDE DEF u, t
  <2> QED BY <2>1, ReadUpdate
<1> HIDE DEF u, t, now
<1> DEFINE v == IF ~now THEN u ELSE t
<1>10. /\ inv' = v /\ v \in InvType /\ v.read /\ v.dry = z /\ v.left = r.v.left
       /\ v.bb = r.v.bb /\ v.got /\ v.room = inv.room /\ v.seen_eos = r.v.seen_eos
       /\ v.wb = (IF now THEN <<>> ELSE inv.wb) /\ Payload(v.bb_out) = Payload(inv.bb_out)
  <2>1. CASE now
    BY <1>4, <1>6, <1>9, <2>1
  <2>2. CASE ~now
    BY <1>4, <1>6, <1>9, <2>2
  <2> QED BY <2>1, <2>2
<1> HIDE DEF v
<1>11. InvocationOK(v, mode, resp.want)
  <2>1. v.seen_eos \/ v.dry => v.left = <<>> /\ v.bb = <<>>
    BY <1>6, <1>10 DEF z
  <2>2. Len(v.wb) <= BufSize
    <3>1. Len(<<>>) = 0 /\ BufSize \in Nat /\ Len(inv.wb) <= BufSize
      BY Cat, InvFacts, InvocationRuns
    <3>2. v.wb = <<>> \/ v.wb = inv.wb
      BY <1>10
    <3> QED BY <3>1, <3>2
  <2>3. mode = "out" => Payload(v.bb_out) = <<>> /\ v.got
    BY <1>10, InvocationRuns
  <2>4. mode = "in" => v.wb = <<>> /\ Len(Payload(v.bb_out)) + v.room = resp.want
    BY <1>10, InvocationRuns
  <2> QED BY <1>6, <1>10, <2>1, <2>2, <2>3, <2>4 DEF InvocationOK
<1>12. x \in Seq(Nat)
  <2>1. net + n \in Nat /\ net <= net + n
    BY <1>1
  <2> QED BY <1>1, <2>1, NumbersFacts
<1> DEFINE s == BytesOf(out)
           a == inv.wb
           b == Payload(inv.bb_out)
           l == inv.left
           d == Payload(inv.bb)
           l2 == r.v.left
           d2 == Payload(r.v.bb)
           g == r.got
<1>13. Bytes6(s, a, b, held, l, d) /\ Bytes6(s, a, b, held \o g, l2, d2)
  BY <1>1, <1>2, <1>6, <1>7, Cat DEF Bytes6, Bytes3, Bytes2
<1>14. Reads(g, l2, d2, l, d, x)
  <2>1. g \o (l2 \o d2) = l \o (d \o x)
    BY <1>6
  <2> HIDE DEF g, l2, d2, l, d, x
  <2> QED BY <1>6, <1>7, <1>12, <2>1 DEF Reads, Bytes3, Bytes2, g, l2, d2
<1>15. Flow(s, a, b, held \o g, l2, d2) = Through(out, inv, held) \o x
  <2>1. Through(out, inv, held) = Flow(s, a, b, held, l, d)
    BY <1>1, ThroughIs
  <2> HIDE DEF s, a, b, l, d, l2, d2, g, x
  <2> QED BY <1>13, <1>14, <2>1, FlowRead
<1>16. Through(out', inv', held')
         = Flow(BytesOf(out'), IF now THEN <<>> ELSE a, b, held \o g, l2, d2)
  BY <1>4, <1>10, ThroughIs
<1>17. /\ out' \in Seq(Marked)
       /\ Flow(BytesOf(out'), IF now THEN <<>> ELSE a, b, held \o g, l2, d2)
            = Flow(s, a, b, held \o g, l2, d2)
  <2>1. CASE ~now
    BY <1>1, <1>4, <2>1
  <2>2. CASE now /\ mode = "out"
    <3> DEFINE m == <<FLUSH>>
    <3>1. m \in Seq(Marked) /\ BytesOf(m) = <<>> /\ a \in Seq(Marked) /\ BytesOf(a) = a
      <4>1. FLUSH \in Marked /\ BytesOf(<<FLUSH>>) = <<>>
        BY Marks, BytesOfFacts
      <4>2. a \in Seq(Marked) /\ BytesOf(a) = a
        BY <1>2, BytesOfFacts
      <4> QED BY <4>1, <4>2, Pair
    <3>2. out' = out \o a \o m
      BY <1>4, <2>2
    <3>3. out' \in Seq(Marked) /\ BytesOf(out') = s \o a
      <4> HIDE DEF a, m
      <4>1. out \in Seq(Marked) /\ a \in Seq(Marked) /\ m \in Seq(Marked) /\ BytesOf(m) = <<>>
        BY <1>1, <3>1
      <4>2. out \o a \o m \in Seq(Marked) /\ BytesOf(out \o a \o m) = BytesOf(out) \o BytesOf(a)
        BY ONLY FilterConstants, <4>1, BytesCat3
      <4> QED BY <3>1, <3>2, <4>2
    <3> HIDE DEF s, a, b, l, d, l2, d2, g, x
    <3>4. Flow(s \o a, <<>>, b, held \o g, l2, d2) = Flow(s, a, b, held \o g, l2, d2)
      BY <1>13, FlowOut
    <3> QED BY <2>2, <3>3, <3>4
  <2>3. CASE now /\ mode # "out"
    <3>1. out' = out /\ inv.wb = <<>>
      BY <1>1, <1>4, <2>3, InvocationRuns
    <3> QED BY <1>1, <2>3, <3>1
  <2> QED BY <2>1, <2>2, <2>3
<1>18. /\ Through(out', inv', held') = Through(out, inv, held) \o Numbers(net, net')
       /\ net' \in net .. Bytes /\ (mode = "out" => net' = net) /\ held' \in Seq(Nat)
       /\ chained' \in BOOLEAN
  <2>1. held' \in Seq(Nat)
    BY <1>1, <1>4, <1>6, Cat
  <2>2. chained' \in BOOLEAN
    BY DEF FilterInv, FilterTypeOK
  <2>3. Numbers(net, net') = x
    BY <1>4
  <2>4. net' \in net .. Bytes /\ (mode = "out" => net' = net)
    BY <1>1, <1>4
  <2> HIDE DEF s, a, b, l, d, l2, d2, g, x
  <2> QED BY <1>15, <1>16, <1>17, <2>1, <2>2, <2>3, <2>4
<1> HIDE DEF s, a, b, l, d, l2, d2, g, x
<1>19. inv' \in InvType /\ InvocationOK(inv', mode, resp.want)
  BY <1>10, <1>11
<1> QED BY <1>17, <1>18, <1>19, FilterKeep

\* A filter that reads keeps the invariant.
LEMMA FReadInv ==
    ASSUME FilterConstants, FilterInv, NEW w \in Wanted, FRead(w)
    PROVE  FilterInv'
<1>1. /\ inv # None /\ w \in Nat \ {0} /\ net \in 0 .. Bytes /\ net \in Nat /\ Bytes \in Nat
      /\ UNCHANGED <<mode, resp, chained, sent_eos, reset, flushed, lost>>
  BY InvFacts DEF FRead, FilterConstants
<1>2. inv \in InvType /\ inv.bb \in Seq(Bucket) /\ Payload(inv.bb) \in Seq(Nat) /\ inv.room \in Nat
      /\ mode \in {"out", "in"}
  BY <1>1, InvocationRuns, InvFields, InvFacts
<1>3. CASE inv.got
  <2>1. ReadStep(inv.bb, 0, w)
    BY <1>3 DEF FRead
  <2>2. Payload(inv.bb) = Payload(inv.bb) \o Numbers(net, net + 0)
    <3>1. Numbers(net, net) = <<>> /\ net + 0 = net
      BY <1>1, NumbersNone
    <3>2. Payload(inv.bb) \o <<>> = Payload(inv.bb)
      BY <1>2, Cat
    <3> QED BY <3>1, <3>2
  <2>3. BrigadeOK(inv.bb) /\ (inv.seen_eos => inv.bb = <<>>) /\ net + 0 \in net .. Bytes
        /\ 0 \in Nat
    BY <1>1, InvocationRuns
  <2> QED BY <1>1, <1>2, <2>1, <2>2, <2>3, ReadStepInv
<1>4. CASE ~inv.got
  <2>1. PICK g \in FromNet(inv.room) : ReadStep(g[1], g[2], w)
    BY <1>4 DEF FRead
  <2>2. /\ g[1] \in Seq(Bucket) /\ BrigadeOK(g[1])
        /\ g[2] \in Nat /\ net + g[2] \in net .. Bytes
        /\ Payload(g[1]) = Numbers(net, net + g[2])
    BY <1>1, <1>2, FromNetFacts
  <2>3. inv.bb = <<>> /\ ~inv.seen_eos /\ mode # "out" /\ Payload(inv.bb) = <<>>
    BY <1>1, <1>4, InvocationRuns, PayloadFacts
  <2> DEFINE b == g[1]
             n == g[2]
  <2>4. Payload(b) = Payload(inv.bb) \o Numbers(net, net + n)
    <3>1. <<>> \o Payload(b) = Payload(b)
      BY <2>2, PayloadFacts, Cat
    <3> QED BY <2>2, <2>3, <3>1
  <2>5. b \in Seq(Bucket) /\ BrigadeOK(b) /\ n \in Nat /\ net + n \in net .. Bytes
        /\ ReadStep(b, n, w)
    BY <2>1, <2>2
  <2> HIDE DEF b, n
  <2> QED BY <1>1, <2>3, <2>4, <2>5, ReadStepInv
<1> QED BY <1>3, <1>4

\* What an output filter prints goes into its buffer d behind a, or out.
PrintedAs(a, d, e, b) ==
    /\ a \in Seq(Nat) /\ d \in Seq(Nat) /\ Len(a) <= BufSize
    /\ e = (IF Len(d) + Len(a) > BufSize THEN a ELSE <<>>)
              \o (IF Len(d) >= BufSize THEN d ELSE <<>>)
    /\ b = IF Len(d) >= BufSize THEN <<>>
           ELSE IF Len(d) + Len(a) > BufSize THEN d ELSE a \o d

\* What a print writes out and what it leaves in the buffer are what was there
\* with the print behind it, and the buffer stays within its size.
LEMMA Printed ==
    ASSUME FilterConstants, NEW a, NEW d, NEW e, NEW b, PrintedAs(a, d, e, b)
    PROVE  Bytes2(e, b) /\ e \o b = a \o d /\ Len(b) <= BufSize
<1>0. /\ a \in Seq(Nat) /\ d \in Seq(Nat) /\ Len(a) <= BufSize
      /\ e = (IF Len(d) + Len(a) > BufSize THEN a ELSE <<>>)
                \o (IF Len(d) >= BufSize THEN d ELSE <<>>)
      /\ b = IF Len(d) >= BufSize THEN <<>>
             ELSE IF Len(d) + Len(a) > BufSize THEN d ELSE a \o d
  BY DEF PrintedAs
<1>1. /\ <<>> \o <<>> = <<>> /\ a \o <<>> = a /\ <<>> \o a = a /\ d \o <<>> = d /\ <<>> \o d = d
      /\ Len(a) \in Nat /\ Len(d) \in Nat /\ Len(<<>>) = 0 /\ <<>> \in Seq(Nat)
      /\ a \o d \in Seq(Nat) /\ Len(a \o d) = Len(a) + Len(d)
      /\ (a \o d) \o <<>> = a \o d /\ <<>> \o (a \o d) = a \o d
      /\ BufSize \in Nat /\ (Len(a) = 0 => a = <<>>)
  BY <1>0, Cat DEF FilterConstants
<1> DEFINE x == Len(a)
           y == Len(d)
           ad == a \o d
           over == y + x > BufSize
           direct == y >= BufSize
<1>2. /\ x \in Nat /\ y \in Nat /\ x <= BufSize /\ BufSize \in Nat
  BY <1>0, <1>1
<1>3. CASE over /\ direct
  <2>1. e = ad /\ b = <<>> /\ ad \in Seq(Nat) /\ ad \o <<>> = ad
    BY <1>0, <1>1, <1>3
  <2>2. Len(<<>>) <= BufSize /\ <<>> \in Seq(Nat)
    BY <1>1
  <2> HIDE DEF ad
  <2>3. Bytes2(e, b) /\ e \o b = ad /\ Len(b) <= BufSize
    BY <1>0, <2>1, <2>2 DEF Bytes2
  <2> QED BY <2>3 DEF ad
<1>4. CASE over /\ ~direct
  <2>1. e = a /\ b = d
    BY <1>0, <1>1, <1>4
  <2>2. Len(d) <= BufSize
    <3> HIDE DEF x
    <3>1. y <= BufSize
      <4> HIDE DEF y
      <4> QED BY <1>2, <1>4
    <3> QED BY <3>1
  <2> QED BY <1>0, <2>1, <2>2 DEF Bytes2
<1>5. CASE ~over /\ direct
  <2>1. x = 0
    <3> HIDE DEF x, y
    <3> QED BY <1>2, <1>5
  <2>2. a = <<>>
    BY <1>1, <2>1
  <2>3. e = d /\ b = <<>>
    BY <1>0, <1>1, <1>5
  <2> QED BY <1>0, <1>1, <2>2, <2>3 DEF Bytes2
<1>6. CASE ~over /\ ~direct
  <2>1. e = <<>> /\ b = ad /\ ad \in Seq(Nat) /\ <<>> \o ad = ad /\ Len(ad) = x + y
    BY <1>0, <1>1, <1>6
  <2>2. x + y <= BufSize
    <3> HIDE DEF x, y
    <3> QED BY <1>2, <1>6
  <2>3. Len(ad) <= BufSize
    <3> HIDE DEF x, y, ad
    <3> QED BY <2>1, <2>2
  <2> HIDE DEF x, y
  <2> QED BY <1>1, <2>1, <2>3 DEF Bytes2
<1> HIDE DEF over, direct
<1> QED BY <1>3, <1>4, <1>5, <1>6

\* A filter that prints keeps the invariant.
LEMMA FPrintInv ==
    ASSUME FilterConstants, FilterInv, NEW k \in 1 .. Bytes, FPrint(k)
    PROVE  FilterInv'
<1> DEFINE d == SubSeq(held, 1, k)
           h2 == SubSeq(held, k + 1, Len(held))
           s == BytesOf(out)
           a == inv.wb
           c == Payload(inv.bb_out)
           l == inv.left
           u == Payload(inv.bb)
           t == Through(out, inv, held)
<1>1. /\ inv # None /\ held \in Seq(Nat) /\ k <= Len(held) /\ held' = h2
      /\ UNCHANGED <<mode, resp, chained, sent_eos, net, reset, flushed, lost>>
      /\ mode \in {"out", "in"} /\ out \in Seq(Marked) /\ net \in 0 .. Bytes /\ net \in Nat
  BY InvFacts DEF FPrint
<1>2. inv \in InvType /\ Len(inv.wb) <= BufSize /\ t \in Seq(Nat)
  BY <1>1, InvocationRuns
<1>3. /\ d \in Seq(Nat) /\ h2 \in Seq(Nat) /\ held = d \o h2 /\ Len(d) = k
  <2>1. k \in 0 .. Len(held)
    BY <1>1, Cat
  <2> QED BY <1>1, <2>1, Cut
<1>4. /\ a \in Seq(Nat) /\ l \in Seq(Nat) /\ u \in Seq(Nat) /\ c \in Seq(Nat)
      /\ inv.bb_out \in Seq(Bucket) /\ inv.room \in Nat /\ s \in Seq(Nat)
  BY <1>1, <1>2, InvFields, BytesOfFacts
<1>5. Bytes6(s, a, c, h2, l, u)
  BY <1>3, <1>4 DEF Bytes6, Bytes3, Bytes2
<1>6. t = Flow(s, a, c, d \o h2, l, u)
  BY <1>2, <1>3, ThroughIs
<1>7. t \o Numbers(net, net) = t
  <2>1. Numbers(net, net) = <<>>
    BY <1>1, NumbersNone
  <2> HIDE DEF t
  <2> QED BY <1>2, <2>1, Cat
<1>8. net \in net .. Bytes /\ chained \in BOOLEAN
  BY <1>1 DEF FilterInv, FilterTypeOK
<1>9. CASE mode = "out"
  <2> DEFINE e == (IF Len(d) + Len(a) > BufSize THEN a ELSE <<>>)
                  \o (IF Len(d) >= BufSize THEN d ELSE <<>>)
             b == IF Len(d) >= BufSize THEN <<>>
                  ELSE IF Len(d) + Len(a) > BufSize THEN d ELSE a \o d
  <2>1. out' = out \o e /\ inv' = [inv EXCEPT !.wb = b]
    BY <1>9 DEF FPrint
  <2> HIDE DEF d, h2, s, c, l, u, t
  <2>2. Bytes2(e, b) /\ e \o b = a \o d /\ Len(b) <= BufSize
    <3>1. Len(a) <= BufSize
      BY <1>2
    <3>2. PrintedAs(a, d, e, b)
      <4> HIDE DEF a
      <4> QED BY <1>3, <1>4, <3>1 DEF PrintedAs
    <3> HIDE DEF a, e, b
    <3> QED BY <3>2, Printed
  <2> HIDE DEF e, b
  <2>3. /\ inv' \in InvType /\ inv'.wb = b /\ inv'.left = inv.left /\ inv'.bb = inv.bb
        /\ inv'.bb_out = inv.bb_out /\ inv'.got = inv.got /\ inv'.read = inv.read
        /\ inv'.seen_eos = inv.seen_eos /\ inv'.dry = inv.dry /\ inv'.room = inv.room
    BY <1>2, <2>1, <2>2 DEF InvType, Bytes2
  <2>4. InvocationOK(inv', mode, resp.want)
    BY <1>1, <1>9, <2>2, <2>3, InvocationRuns DEF InvocationOK
  <2>5. out' \in Seq(Marked) /\ BytesOf(out') = s \o e
    <3>1. e \in Seq(Marked) /\ BytesOf(e) = e
      BY <2>2, BytesOfFacts DEF Bytes2
    <3>2. out \o e \in Seq(Marked) /\ BytesOf(out \o e) = BytesOf(out) \o BytesOf(e)
      BY <1>1, <3>1, BytesOfFacts, ConcatProperties
    <3> QED BY <2>1, <3>1, <3>2 DEF s
  <2>6. Through(out', inv', held') = Flow(s \o e, b, <<>>, h2, l, u) /\ c = <<>>
    <3>1. c = <<>>
      BY <1>1, <1>9, InvocationRuns DEF c
    <3>2. Through(out', inv', held')
            = Flow(BytesOf(out'), inv'.wb, Payload(inv'.bb_out), held', inv'.left,
                   Payload(inv'.bb))
      BY <2>3, ThroughIs
    <3> QED BY <1>1, <2>3, <2>5, <3>1, <3>2 DEF c, l, u
  <2>7. Flow(s \o e, b, <<>>, h2, l, u) = Flow(s, a, <<>>, d \o h2, l, u)
    <3>1. Bytes6(s, a, c, h2, l, u) /\ d \in Seq(Nat) /\ Bytes2(e, b) /\ e \o b = a \o d
      BY <1>3, <1>5, <2>2
    <3>2. Prints(a, d, e, b)
      BY <3>1 DEF Prints
    <3> HIDE DEF a
    <3> QED BY <3>1, <3>2, FlowPrintOut
  <2>8. Through(out', inv', held') = t \o Numbers(net, net')
    BY <1>1, <1>6, <1>7, <2>6, <2>7
  <2>9. net' \in net .. Bytes /\ net' = net /\ held' \in Seq(Nat) /\ chained' \in BOOLEAN
    BY <1>1, <1>3, <1>8
  <2> QED BY <1>1, <2>3, <2>4, <2>5, <2>8, <2>9, FilterKeep DEF t
<1>10. CASE mode = "in"
  <2> DEFINE b == Append(inv.bb_out, d)
             r == inv.room - k
  <2>1. out' = out /\ inv' = [inv EXCEPT !.bb_out = b, !.room = r] /\ k <= inv.room
    BY <1>10 DEF FPrint
  <2>2. b \in Seq(Bucket) /\ Payload(b) = c \o d /\ r \in Nat
    <3> HIDE DEF d
    <3>1. d \in Bucket /\ Payload(<<d>>) = d
      BY <1>3, Marks, PayloadFacts
    <3>2. <<d>> \in Seq(Bucket) /\ b = inv.bb_out \o <<d>>
      BY <1>4, <3>1, AppendIsConcat
    <3>3. b \in Seq(Bucket)
      BY <1>4, <3>1
    <3>4. Payload(inv.bb_out \o <<d>>) = Payload(inv.bb_out) \o Payload(<<d>>)
      BY <1>4, <3>2, PayloadCat
    <3>5. r \in Nat
      BY <1>4, <2>1
    <3>6. Payload(b) = c \o d
      BY <3>1, <3>2, <3>4
    <3> QED BY <3>3, <3>5, <3>6
  <2> HIDE DEF d, h2, s, t
  <2>3. Len(Payload(inv.bb_out)) + inv.room = resp.want
    BY <1>1, <1>10, InvocationRuns
  <2>4. Len(c \o d) + r = resp.want
    <3>1. Len(c \o d) = Len(c) + k /\ Len(c) \in Nat
      BY <1>3, <1>4, Cat
    <3> HIDE DEF c
    <3>2. Len(c) + inv.room = resp.want
      BY <2>3 DEF c
    <3> QED BY <1>4, <3>1, <3>2
  <2> HIDE DEF b, r
  <2>5. /\ inv' \in InvType /\ inv'.wb = inv.wb /\ inv'.left = inv.left /\ inv'.bb = inv.bb
        /\ inv'.bb_out = b /\ inv'.got = inv.got /\ inv'.read = inv.read
        /\ inv'.seen_eos = inv.seen_eos /\ inv'.dry = inv.dry /\ inv'.room = r
    BY <1>2, <2>1, <2>2 DEF InvType
  <2>6. InvocationOK(inv', mode, resp.want)
    BY <1>1, <1>10, <2>2, <2>4, <2>5, InvocationRuns DEF InvocationOK
  <2>7. Through(out', inv', held') = Flow(s, a, c \o d, h2, l, u)
    <3>1. Through(out', inv', held')
            = Flow(BytesOf(out'), inv'.wb, Payload(inv'.bb_out), held', inv'.left,
                   Payload(inv'.bb))
      BY <2>5, ThroughIs
    <3> QED BY <1>1, <2>1, <2>2, <2>5, <3>1 DEF s
  <2>8. Flow(s, a, c \o d, h2, l, u) = Flow(s, a, c, d \o h2, l, u)
    <3> HIDE DEF a, c, l, u
    <3> QED BY <1>3, <1>5, FlowPrint
  <2>9. Through(out', inv', held') = t \o Numbers(net, net')
    BY <1>1, <1>6, <1>7, <2>7, <2>8
  <2>10. net' \in net .. Bytes /\ net' = net /\ held' \in Seq(Nat) /\ chained' \in BOOLEAN
    BY <1>1, <1>3, <1>8
  <2>11. out' \in Seq(Marked)
    BY <1>1, <2>1
  <2> QED BY <1>1, <2>5, <2>6, <2>9, <2>10, <2>11, FilterKeep DEF t
<1> QED BY <1>1, <1>9, <1>10

\* A filter that removes itself keeps the invariant.
LEMMA FRemoveInv ==
    ASSUME FilterConstants, FilterInv, FRemove
    PROVE  FilterInv'
<1> DEFINE t == Through(out, inv, held)
<1>1. /\ inv # None /\ chained' = FALSE /\ net \in 0 .. Bytes /\ net \in Nat
      /\ UNCHANGED <<mode, resp, sent_eos, held, inv, net, reset, out, flushed, lost>>
      /\ out \in Seq(Marked) /\ held \in Seq(Nat)
  BY InvFacts DEF FRemove
<1>2. inv \in InvType /\ t \in Seq(Nat) /\ InvocationOK(inv, mode, resp.want)
  BY <1>1, InvocationRuns DEF FilterInv
<1>3. t \o Numbers(net, net) = t
  <2>1. Numbers(net, net) = <<>>
    BY <1>1, NumbersNone
  <2> HIDE DEF t
  <2> QED BY <1>2, <2>1, Cat
<1>4. net \in net .. Bytes /\ chained' \in BOOLEAN
  <2>1. net \in net .. Bytes
    BY <1>1
  <2>2. FALSE \in BOOLEAN
    OBVIOUS
  <2> QED BY <1>1, <2>1, <2>2
<1> QED BY <1>1, <1>2, <1>3, <1>4, FilterKeep

-----------------------------------------------------------------------------
(* The end of an invocation, and the reader.                               *)

\* What ReaderGets and a failed call make of the reader's call.
Answered(x, r) ==
    /\ x \in RespType /\ x.pending \in {<<>>, <<Direct(<<>>)>>}
    /\ x.buf = r.buf /\ x.n = r.n /\ x.parse = r.parse /\ x.cgi = r.cgi /\ x.at = r.at
    /\ r.err => x.err

\* The reader gets all that it is given.
LEMMA ReaderGetsAll ==
    ASSUME FilterConstants, FilterInv, mode = "in", NEW bb \in Seq(Bucket),
           Len(Payload(bb)) <= resp.want, ReaderGets(bb)
    PROVE  /\ Answered(resp', resp)
           /\ out' \in Seq(Marked) /\ BytesOf(out') = BytesOf(out) \o Payload(bb)
<1> DEFINE all == Payload(bb)
           n == IF Len(all) < resp.want THEN Len(all) ELSE resp.want
           eos == bb # <<>> /\ Last(bb) = EOS
           more == n < resp.want /\ ~eos /\ bb # <<>>
           got == SubSeq(all, 1, n)
           m == IF eos THEN <<EOS>> ELSE <<>>
           w == resp.want - n
           p == IF more THEN resp.pending ELSE <<>>
           e == resp.err \/ bb = <<>>
<1>1. /\ out' = out \o got \o m
      /\ resp' = [resp EXCEPT !.want = w, !.pending = p, !.err = e]
  BY DEF ReaderGets
<1>2. /\ resp \in RespType /\ out \in Seq(Marked) /\ resp.want \in Nat /\ resp.err \in BOOLEAN
      /\ resp.pending \in {<<>>, <<Direct(<<>>)>>} /\ resp.pending \in Seq(ItemType)
  BY InvFacts, RespFields DEF FilterInv, ResponseOK
<1>3. all \in Seq(Nat) /\ Len(all) \in Nat /\ Len(all) <= resp.want
  BY PayloadFacts, Cat
<1>4. got = all
  <2> HIDE DEF all
  <2>1. n = Len(all) /\ Len(all) \in 0 .. Len(all)
    BY <1>2, <1>3
  <2> DEFINE a == SubSeq(all, 1, Len(all))
             b == SubSeq(all, Len(all) + 1, Len(all))
  <2>2. a \in Seq(Nat) /\ b \in Seq(Nat) /\ a \o b = all /\ Len(b) = Len(all) - Len(all)
    BY <1>3, <2>1, Cut
  <2>3. got = a
    BY <2>1
  <2> HIDE DEF a, b, got, n
  <2>4. b = <<>>
    <3>1. Len(b) = 0
      BY <1>3, <2>2
    <3> QED BY <2>2, <3>1, Cat
  <2>5. a \o b = a
    BY <2>2, <2>4, Cat
  <2> QED BY <2>2, <2>3, <2>5
<1>5. w \in Nat /\ e \in BOOLEAN
  <2>1. n \in Nat /\ n <= resp.want
    <3> HIDE DEF all
    <3> QED BY <1>2, <1>3
  <2> HIDE DEF n
  <2> QED BY <1>2, <2>1
<1>6. p \in {<<>>, <<Direct(<<>>)>>} /\ p \in Seq(ItemType)
  <2> HIDE DEF more
  <2> QED BY <1>2
<1> HIDE DEF n, eos, more, w, p, e
<1>7. /\ resp' \in RespType /\ resp'.pending = p /\ resp'.err = e
      /\ resp'.buf = resp.buf /\ resp'.n = resp.n /\ resp'.parse = resp.parse
      /\ resp'.cgi = resp.cgi /\ resp'.at = resp.at
  BY <1>1, <1>2, <1>5, <1>6 DEF RespType
<1>8. Answered(resp', resp)
  BY <1>6, <1>7 DEF Answered, e
<1>9. m \in Seq(Marked) /\ BytesOf(m) = <<>>
  <2>1. EOS \in Marked /\ BytesOf(<<EOS>>) = <<>> /\ BytesOf(<<>>) = <<>>
    BY Marks, BytesOfFacts
  <2>2. <<EOS>> \in Seq(Marked) /\ <<>> \in Seq(Marked)
    BY <2>1, Pair
  <2> QED BY <2>1, <2>2
<1>10. all \in Seq(Marked) /\ BytesOf(all) = all
  BY <1>3, BytesOfFacts
<1> HIDE DEF all, got, m
<1>11. out \o all \o m \in Seq(Marked) /\ BytesOf(out \o all \o m) = BytesOf(out) \o BytesOf(all)
  BY <1>2, <1>9, <1>10, BytesCat3
<1> QED BY <1>1, <1>4, <1>8, <1>10, <1>11 DEF all

\* The call fails: the method croaks.
LEMMA ReaderFails ==
    ASSUME FilterConstants, FilterInv, resp' = Returned(resp, FALSE, FALSE)
    PROVE  Answered(resp', resp) /\ resp'.err /\ resp'.pending = <<>> /\ resp'.want = resp.want
<1> DEFINE yes == TRUE
<1>1. resp' = [resp EXCEPT !.pending = <<>>, !.err = yes] /\ yes \in BOOLEAN /\ yes
      /\ <<>> \in Seq(ItemType) /\ resp \in RespType
  BY InvFacts DEF Returned
<1> HIDE DEF yes
<1>2. /\ resp' \in RespType /\ resp'.pending = <<>> /\ resp'.err = yes
      /\ resp'.buf = resp.buf /\ resp'.n = resp.n /\ resp'.parse = resp.parse
      /\ resp'.cgi = resp.cgi /\ resp'.at = resp.at /\ resp'.want = resp.want
  BY <1>1 DEF RespType
<1> QED BY <1>1, <1>2 DEF Answered

\* The filter does not run any more and the reader has an answer.
LEMMA BackIn ==
    ASSUME FilterConstants, FilterInv, mode = "in", inv' = None, Answered(resp', resp),
           out' \in Seq(Marked), held' \in Seq(Nat), net' \in net .. Bytes,
           sent_eos' \in BOOLEAN, lost' \in BOOLEAN, lost => lost',
           ~chained \/ sent_eos' => held' = <<>>,
           ~lost' /\ ~resp'.err =>
             Through(out', None, held') = Through(out, inv, held) \o Numbers(net, net'),
           UNCHANGED <<mode, chained, reset, flushed>>
    PROVE  FilterInv'
<1>1. /\ resp' \in RespType /\ resp'.pending \in {<<>>, <<Direct(<<>>)>>}
      /\ resp'.buf = resp.buf /\ resp'.n = resp.n /\ resp'.parse = resp.parse
      /\ resp'.cgi = resp.cgi /\ resp'.at = resp.at /\ (resp.err => resp'.err)
      /\ resp.err \in BOOLEAN /\ resp'.err \in BOOLEAN
  BY InvFacts, RespFields DEF Answered
<1>2. /\ ~resp.cgi /\ resp.buf = <<>> /\ resp.n = 0 /\ (resp.parse => resp.cgi)
      /\ Len(resp.buf) <= BufSize
  BY DEF FilterInv, ResponseOK
<1>3. net \in Nat /\ net' \in Nat /\ net <= net' /\ net' \in 0 .. Bytes
  BY InvFacts
<1>4. Todo(resp', inv') = resp'.pending
  BY <1>1, TodoFacts
<1>5. Ready(resp'.pending, <<>>) /\ NoCopy(resp'.pending) /\ Calls(resp'.pending) = <<>>
  BY <1>1, EmptyDirect, ReadyEmpty, CallsFacts
<1>6. FilterTypeOK'
  BY <1>1, <1>3 DEF FilterInv, FilterTypeOK, Marked
<1>7. InvocationOK(inv', mode', resp'.want)
  BY DEF InvocationOK
<1>8. ResponseOK(resp', mode', inv')
  BY <1>1, <1>2, <1>4, <1>5 DEF ResponseOK
<1>9. ASSUME ~lost', ~resp'.err PROVE Whole(mode', resp', inv', held', net', out')
  <2>1. Through(out, inv, held) = Numbers(0, net)
    BY <1>1, <1>9 DEF FilterInv, Whole
  <2>2. Numbers(0, net) \o Numbers(net, net') = Numbers(0, net')
    <3>1. 0 \in Nat /\ 0 <= net
      BY <1>3
    <3> QED BY <1>3, <3>1, NumbersFacts
  <2> QED BY <1>9, <2>1, <2>2 DEF Whole
<1>10. ((reset => lost) /\ (inv # None => ~sent_eos)
         /\ (inv = None /\ (~chained \/ sent_eos) => held = <<>>))'
  BY DEF FilterInv
<1>11. (flushed + Len(resp.buf) + Len(Calls(Todo(resp, inv))) <= resp.n)'
  <2>1. flushed + Len(resp.buf) + Len(Calls(Todo(resp, inv))) <= resp.n /\ flushed \in Nat
        /\ resp \in RespType /\ inv \in InvType \cup {None}
    BY InvFacts DEF FilterInv
  <2>2. Len(Calls(Todo(resp, inv))) \in Nat
    <3>1. resp.pending # <<>> \/ inv = None
      BY DEF FilterInv, ResponseOK
    <3> QED BY <2>1, <3>1, TodoFacts, CallsFacts, Cat
  <2>3. Len(<<>>) = 0
    BY Cat
  <2> QED BY <1>1, <1>2, <1>4, <1>5, <2>1, <2>2, <2>3
<1> QED BY <1>6, <1>7, <1>8, <1>9, <1>10, <1>11 DEF FilterInv

\* The filter does not run any more and the response handler's call goes on, or
\* has failed.
LEMMA BackOut ==
    ASSUME FilterConstants, FilterInv, mode = "out", inv # None, inv' = None,
           NEW ok \in BOOLEAN, NEW tol \in BOOLEAN, resp' = Returned(resp, ok, tol),
           ok \/ ~tol \/ lost',
           out' \in Seq(Marked), held' \in Seq(Nat),
           sent_eos' \in BOOLEAN, lost' \in BOOLEAN, lost => lost',
           ~chained \/ sent_eos' => held' = <<>>,
           ~lost' => Through(out', None, held') = Through(out, inv, held),
           UNCHANGED <<mode, chained, net, reset, flushed>>
    PROVE  FilterInv'
<1> DEFINE q == Tail(resp.pending)
<1>1. /\ resp \in RespType /\ resp.buf = <<>> /\ q \in Seq(ItemType) /\ Calls(q) \in Seq(Nat)
      /\ Todo(resp, inv) = q /\ resp.err \in BOOLEAN /\ resp.pending # <<>>
  BY InvocationRuns, InvFacts, RespFields
<1>2. /\ Ready(q, <<>>) /\ (resp.parse => resp.cgi) /\ (resp.parse => Buffered(q))
      /\ (resp.at # "handler" => NoCopy(q)) /\ Len(resp.buf) <= BufSize
  BY <1>1 DEF FilterInv, ResponseOK
<1>3. /\ resp' \in RespType /\ resp'.buf = <<>> /\ resp'.n = resp.n /\ resp'.parse = resp.parse
      /\ resp'.cgi = resp.cgi /\ resp'.at = resp.at
      /\ \/ resp'.pending = q /\ resp'.err = resp.err
         \/ resp'.pending = <<>> /\ (resp'.err \/ lost')
  <2>1. \/ resp' = [resp EXCEPT !.pending = q]
        \/ resp' = [resp EXCEPT !.pending = <<>>, !.err = TRUE]
    BY DEF Returned
  <2> HIDE DEF q
  <2>2. CASE resp' = [resp EXCEPT !.pending = q]
    BY <1>1, <2>2 DEF RespType
  <2>3. CASE resp' = [resp EXCEPT !.pending = <<>>, !.err = TRUE]
    <3> DEFINE yes == TRUE
    <3>1. resp' = [resp EXCEPT !.pending = <<>>, !.err = yes] /\ yes \in BOOLEAN /\ yes
          /\ <<>> \in Seq(ItemType)
      BY <2>3
    <3> HIDE DEF yes
    <3>2. /\ resp' \in RespType /\ resp'.buf = resp.buf /\ resp'.n = resp.n
          /\ resp'.parse = resp.parse /\ resp'.cgi = resp.cgi /\ resp'.at = resp.at
          /\ resp'.pending = <<>> /\ resp'.err = yes
      BY <1>1, <3>1 DEF RespType
    <3> QED BY <1>1, <3>1, <3>2
  <2> QED BY <2>1, <2>2, <2>3
<1> HIDE DEF q
<1>4. Todo(resp', inv') = resp'.pending
  BY <1>3, TodoFacts
<1>5. /\ Ready(resp'.pending, <<>>) /\ (resp'.parse => Buffered(resp'.pending))
      /\ (resp'.at # "handler" => NoCopy(resp'.pending))
  BY <1>2, <1>3, ReadyEmpty
<1>6. FilterTypeOK'
  BY <1>3 DEF FilterInv, FilterTypeOK, Marked
<1>7. InvocationOK(inv', mode', resp'.want)
  BY DEF InvocationOK
<1>8. ResponseOK(resp', mode', inv')
  BY <1>1, <1>2, <1>3, <1>4, <1>5 DEF ResponseOK
<1>9. ASSUME ~lost', ~resp'.err PROVE Whole(mode', resp', inv', held', net', out')
  <2>1. resp'.pending = q /\ resp'.err = resp.err /\ ~lost
    BY <1>3, <1>9
  <2>2. Whole("out", resp, inv, held, net, out)
    BY <1>9, <2>1 DEF FilterInv
  <2>3. Skip(resp') = Skip(resp)
    BY <1>3 DEF Skip
  <2>4. Through(out', None, held') = Through(out, inv, held)
    BY <1>9
  <2> QED BY <1>1, <1>3, <1>4, <2>1, <2>2, <2>3, <2>4 DEF Whole
<1>10. ((reset => lost) /\ (inv # None => ~sent_eos)
         /\ (inv = None /\ (~chained \/ sent_eos) => held = <<>>))'
  BY DEF FilterInv
<1>11. (flushed + Len(resp.buf) + Len(Calls(Todo(resp, inv))) <= resp.n)'
  <2>1. flushed + Len(<<>>) + Len(Calls(q)) <= resp.n
    BY <1>1 DEF FilterInv
  <2>2. CASE resp'.pending = q
    BY <1>3, <1>4, <2>1, <2>2
  <2>3. CASE resp'.pending = <<>>
    <3>1. Calls(resp'.pending) = <<>> /\ Len(<<>>) = 0 /\ Len(Calls(q)) \in Nat
      BY <1>1, <2>3, CallsFacts, Cat
    <3>2. flushed \in Nat /\ resp.n \in Nat
      BY <1>1, InvFacts, RespFields
    <3>3. flushed <= resp.n
      BY <2>1, <3>1, <3>2
    <3> QED BY <1>3, <1>4, <3>1, <3>2, <3>3
  <2> QED BY <1>3, <2>2, <2>3
<1> QED BY <1>6, <1>7, <1>8, <1>9, <1>10, <1>11 DEF FilterInv

\* What follows the data at the end of an invocation is no data.
LEMMA SendMarks ==
    ASSUME FilterConstants, NEW v
    PROVE  /\ SendFlush(v) \in Seq(Marked) /\ BytesOf(SendFlush(v)) = <<>>
           /\ SendEos(v) \in Seq(Marked) /\ BytesOf(SendEos(v)) = <<>>
           /\ SendFlush(v) \in Seq(Bucket) /\ Payload(SendFlush(v)) = <<>>
           /\ SendEos(v) \in Seq(Bucket) /\ Payload(SendEos(v)) = <<>>
<1>1. /\ BytesOf(<<EOS>>) = <<>> /\ BytesOf(<<FLUSH>>) = <<>> /\ BytesOf(<<>>) = <<>>
      /\ Payload(<<EOS>>) = <<>> /\ Payload(<<FLUSH>>) = <<>> /\ Payload(<<>>) = <<>>
  BY BytesOfFacts, PayloadFacts
<1>2. /\ EOS \in Marked /\ FLUSH \in Marked /\ EOS \in Bucket /\ FLUSH \in Bucket
  BY Marks
<1>3. /\ <<EOS>> \in Seq(Marked) /\ <<FLUSH>> \in Seq(Marked) /\ <<>> \in Seq(Marked)
      /\ <<EOS>> \in Seq(Bucket) /\ <<FLUSH>> \in Seq(Bucket) /\ <<>> \in Seq(Bucket)
  BY <1>2, Pair
<1>4. SendFlush(v) = <<>> \/ SendFlush(v) = <<FLUSH>>
  BY DEF SendFlush
<1>5. SendEos(v) = <<>> \/ SendEos(v) = <<EOS>>
  BY DEF SendEos
<1> QED BY <1>1, <1>3, <1>4, <1>5

\* What an output filter has in its buffer comes out, and what an input filter
\* has in its brigade.
LEMMA Drained ==
    ASSUME FilterConstants, NEW s, NEW a, NEW h, Bytes3(s, a, h)
    PROVE  /\ Flow(s, a, <<>>, h, <<>>, <<>>) = (s \o a) \o h
           /\ Flow(s, <<>>, a, h, <<>>, <<>>) = (s \o a) \o h
<1>1. a \in Seq(Nat) /\ h \in Seq(Nat)
  BY DEF Bytes3, Bytes2
<1>2. <<>> \o h = h /\ h \o <<>> = h /\ <<>> \o <<>> = <<>>
  BY <1>1, Cat
<1>3. (s \o a) \o h = s \o (a \o h) /\ a \o h \in Seq(Nat)
  BY Three
<1>4. <<>> \o (a \o h) = a \o h
  BY <1>3, Cat
<1>5. Flow(s, a, <<>>, h, <<>>, <<>>) = s \o (a \o h)
  BY <1>2 DEF Flow
<1>6. Flow(s, <<>>, a, h, <<>>, <<>>) = s \o (a \o h)
  BY <1>2, <1>4 DEF Flow
<1> QED BY <1>3, <1>5, <1>6

\* What an output filter has in its buffer comes out, and the unread d behind it.
LEMMA DrainedAll ==
    ASSUME FilterConstants, NEW s, NEW a, NEW d, Bytes3(s, a, d)
    PROVE  Flow(s, a, <<>>, <<>>, <<>>, d) = ((s \o a) \o d) \o <<>>
<1>1. s \in Seq(Nat) /\ a \in Seq(Nat) /\ d \in Seq(Nat)
  BY DEF Bytes3, Bytes2
<1>2. <<>> \o d = d
  BY <1>1, Cat
<1>3. (s \o a) \o d = s \o (a \o d) /\ s \o a \in Seq(Nat)
  BY Three
<1>4. ((s \o a) \o d) \o <<>> = (s \o a) \o d
  <2>1. Bytes2(s \o a, d)
    BY <1>1, <1>3 DEF Bytes2
  <2> QED BY <2>1, Two, Cat
<1>5. Flow(s, a, <<>>, <<>>, <<>>, d) = s \o (a \o d)
  BY <1>2 DEF Flow
<1> QED BY <1>3, <1>4, <1>5

\* The state of a running invocation, in the terms of the flow of bytes.
LEMMA FlowNow ==
    ASSUME FilterConstants, FilterInv, inv # None
    PROVE  /\ out \in Seq(Marked) /\ held \in Seq(Nat) /\ BytesOf(out) \in Seq(Nat)
           /\ inv \in InvType /\ inv.wb \in Seq(Nat) /\ inv.wb \in Seq(Marked)
           /\ BytesOf(inv.wb) = inv.wb /\ inv.bb \in Seq(Bucket) /\ inv.bb_out \in Seq(Bucket)
           /\ Payload(inv.bb) \in Seq(Nat) /\ Payload(inv.bb_out) \in Seq(Nat)
           /\ inv.seen_eos \in BOOLEAN /\ lost \in BOOLEAN /\ reset \in BOOLEAN
           /\ sent_eos \in BOOLEAN /\ (reset => lost)
           /\ net \in Nat /\ net \in net .. Bytes /\ Numbers(net, net) = <<>>
           /\ mode \in {"out", "in"}
           /\ Through(out, inv, held)
                = Flow(BytesOf(out), inv.wb, Payload(inv.bb_out), held, inv.left,
                       Payload(inv.bb))
<1>1. /\ out \in Seq(Marked) /\ held \in Seq(Nat) /\ inv \in InvType /\ net \in 0 .. Bytes
      /\ mode \in {"out", "in"} /\ Bytes \in Nat
  BY InvocationRuns, InvFacts
<1>2. net \in Nat /\ net \in net .. Bytes
  BY <1>1
<1>3. lost \in BOOLEAN /\ reset \in BOOLEAN /\ sent_eos \in BOOLEAN /\ (reset => lost)
  BY DEF FilterInv, FilterTypeOK
<1>4. /\ inv.wb \in Seq(Nat) /\ inv.bb \in Seq(Bucket) /\ inv.bb_out \in Seq(Bucket)
      /\ Payload(inv.bb) \in Seq(Nat) /\ Payload(inv.bb_out) \in Seq(Nat)
      /\ inv.seen_eos \in BOOLEAN
  BY <1>1, InvFields
<1>5. BytesOf(out) \in Seq(Nat) /\ inv.wb \in Seq(Marked) /\ BytesOf(inv.wb) = inv.wb
  BY <1>1, <1>4, BytesOfFacts
<1>6. Through(out, inv, held)
        = Flow(BytesOf(out), inv.wb, Payload(inv.bb_out), held, inv.left, Payload(inv.bb))
  BY <1>1, ThroughIs
<1>7. Numbers(net, net) = <<>>
  BY <1>2, NumbersNone
<1> QED BY <1>1, <1>2, <1>3, <1>4, <1>5, <1>6, <1>7

\* Three parts come out, of which the last one is marks.
LEMMA BytesCat4 ==
    ASSUME FilterConstants, NEW o, NEW s, NEW m, NEW e,
           o \in Seq(Marked), s \in Seq(Marked), m \in Seq(Marked), e \in Seq(Marked),
           BytesOf(m) = <<>>, BytesOf(e) = <<>>
    PROVE  /\ o \o (s \o m) \o e \in Seq(Marked)
           /\ BytesOf(o \o (s \o m) \o e) = BytesOf(o) \o BytesOf(s)
<1>1. s \o m \in Seq(Marked) /\ BytesOf(s \o m) = BytesOf(s) \o <<>> /\ BytesOf(s) \in Seq(Nat)
  <2>1. s \o m \in Seq(Marked)
    BY ConcatProperties
  <2>2. BytesOf(s \o m) = BytesOf(s) \o BytesOf(m) /\ BytesOf(s) \in Seq(Nat)
    BY BytesOfFacts
  <2> QED BY <2>1, <2>2
<1>2. BytesOf(s) \o <<>> = BytesOf(s)
  BY <1>1, Cat
<1> DEFINE x == s \o m
<1>3. x \in Seq(Marked) /\ BytesOf(x) = BytesOf(s)
  BY <1>1, <1>2
<1> HIDE DEF x
<1>4. o \o x \o e \in Seq(Marked) /\ BytesOf(o \o x \o e) = BytesOf(o) \o BytesOf(x)
  BY <1>3, BytesCat3
<1> QED BY <1>3, <1>4 DEF x

\* What an output filter sends at its end.
LEMMA FinishOut ==
    ASSUME FilterConstants, FilterInv, inv # None, mode = "out", NEW ok \in BOOLEAN, Finish(ok)
    PROVE  /\ out' \in Seq(Marked) /\ sent_eos' \in BOOLEAN
           /\ ~reset => BytesOf(out') = BytesOf(out) \o inv.wb
           /\ sent_eos' => inv.seen_eos
           /\ resp' = Returned(resp, ok, FALSE)
<1> DEFINE f == SendFlush(inv)
           e == SendEos(inv)
           w == inv.wb
<1>1. /\ out' = IF reset THEN out ELSE out \o (w \o f) \o e
      /\ sent_eos' = (sent_eos \/ (inv.seen_eos /\ (~reset \/ w \o f = <<>>)))
      /\ resp' = Returned(resp, ok, FALSE)
  BY DEF Finish
<1>2. f \in Seq(Marked) /\ BytesOf(f) = <<>> /\ e \in Seq(Marked) /\ BytesOf(e) = <<>>
  BY SendMarks
<1>3. w \in Seq(Marked) /\ BytesOf(w) = w /\ out \in Seq(Marked)
  BY FlowNow
<1>4. ~sent_eos
  BY InvocationRuns
<1> HIDE DEF f, e, w
<1>5. /\ out \o (w \o f) \o e \in Seq(Marked)
      /\ BytesOf(out \o (w \o f) \o e) = BytesOf(out) \o BytesOf(w)
  BY <1>2, <1>3, BytesCat4, SMTT(30)
<1>6. out' \in Seq(Marked) /\ (~reset => BytesOf(out') = BytesOf(out) \o inv.wb)
  BY <1>1, <1>3, <1>5 DEF w
<1>7. sent_eos' \in BOOLEAN /\ (sent_eos' => inv.seen_eos)
  BY <1>1, <1>4
<1> QED BY <1>1, <1>6, <1>7

\* What an input filter answers at its end.
LEMMA FinishIn ==
    ASSUME FilterConstants, FilterInv, inv # None, mode = "in", NEW ok \in BOOLEAN, Finish(ok)
    PROVE  /\ out' \in Seq(Marked) /\ sent_eos' \in BOOLEAN
           /\ ok => BytesOf(out') = BytesOf(out) \o Payload(inv.bb_out)
           /\ sent_eos' => inv.seen_eos
           /\ Answered(resp', resp)
<1> DEFINE f == SendFlush(inv)
           e == SendEos(inv)
           b == inv.bb_out
           all == b \o f \o e
<1>1. /\ sent_eos' = (sent_eos \/ inv.seen_eos)
      /\ ok => ReaderGets(all)
      /\ ~ok => resp' = Returned(resp, FALSE, FALSE) /\ out' = out
  BY DEF Finish
<1>2. f \in Seq(Bucket) /\ Payload(f) = <<>> /\ e \in Seq(Bucket) /\ Payload(e) = <<>>
  BY SendMarks
<1>3. b \in Seq(Bucket) /\ Payload(b) \in Seq(Nat) /\ out \in Seq(Marked) /\ inv.seen_eos \in BOOLEAN
  BY FlowNow
<1>4. ~sent_eos /\ Len(Payload(b)) + inv.room = resp.want /\ inv.room \in Nat
  BY <1>3, InvocationRuns, InvFields
<1> HIDE DEF f, e, b
<1>5. all \in Seq(Bucket) /\ Payload(all) = Payload(b)
  <2> DEFINE x == b \o f
  <2>1. x \in Seq(Bucket) /\ Payload(x) = Payload(b)
    BY <1>2, <1>3, PayloadCat
  <2> HIDE DEF x
  <2>2. x \o e \in Seq(Bucket) /\ Payload(x \o e) = Payload(x)
    BY <1>2, <2>1, PayloadCat
  <2> QED BY <2>1, <2>2 DEF x
<1>6. Len(Payload(b)) <= resp.want
  <2>1. Len(Payload(b)) \in Nat
    BY <1>3, Cat
  <2> QED BY <1>4, <2>1
<1> HIDE DEF all
<1>7. CASE ok
  <2>1. Answered(resp', resp) /\ out' \in Seq(Marked) /\ BytesOf(out') = BytesOf(out) \o Payload(all)
    BY <1>1, <1>5, <1>6, <1>7, ReaderGetsAll
  <2> QED BY <1>1, <1>3, <1>4, <1>5, <2>1 DEF b
<1>8. CASE ~ok
  <2>1. Answered(resp', resp)
    BY <1>1, <1>8, ReaderFails
  <2> QED BY <1>1, <1>3, <1>4, <1>8, <2>1
<1> QED BY <1>7, <1>8

\* A filter that returns OK keeps the invariant: modperl_output_filter or
\* modperl_input_filter flushes its buffer and sends the mark that it has read.
LEMMA FReturnInv ==
    ASSUME FilterConstants, FilterInv, FReturn
    PROVE  FilterInv'
<1> DEFINE s == BytesOf(out)
           a == inv.wb
           c == Payload(inv.bb_out)
           yes == TRUE
           no == FALSE
<1>1. /\ inv # None /\ inv.dry /\ (inv.seen_eos \/ ~chained => held = <<>>)
      /\ Finish(yes) /\ inv' = None /\ yes \in BOOLEAN /\ yes /\ no \in BOOLEAN /\ ~no
      /\ UNCHANGED <<mode, chained, held, net, reset, flushed, lost>>
  BY DEF FReturn
<1>2. inv.left = <<>> /\ Payload(inv.bb) = <<>>
  BY <1>1, InvocationRuns, PayloadFacts
<1>3. Through(out, inv, held) = Flow(s, a, c, held, <<>>, <<>>)
  BY <1>1, <1>2, FlowNow
<1>4. /\ s \in Seq(Nat) /\ a \in Seq(Nat) /\ c \in Seq(Nat) /\ held \in Seq(Nat)
      /\ lost \in BOOLEAN /\ (reset => lost) /\ mode \in {"out", "in"}
      /\ net \in net .. Bytes /\ Numbers(net, net) = <<>>
  BY <1>1, FlowNow
<1>5. Through(out', None, held) = BytesOf(out') \o held
  BY DEF Through, InFilter
<1>6. CASE mode = "out"
  <2> HIDE DEF yes
  <2>1. /\ out' \in Seq(Marked) /\ sent_eos' \in BOOLEAN
        /\ ~reset => BytesOf(out') = s \o a
        /\ sent_eos' => inv.seen_eos
        /\ resp' = Returned(resp, yes, FALSE)
    BY <1>1, <1>6, FinishOut
  <2>2. c = <<>>
    BY <1>1, <1>6, InvocationRuns
  <2>3. Through(out, inv, held) = (s \o a) \o held
    <3>1. Bytes3(s, a, held)
      BY <1>4 DEF Bytes3, Bytes2
    <3> HIDE DEF s, a, c
    <3>2. Flow(s, a, <<>>, held, <<>>, <<>>) = (s \o a) \o held
      BY <1>4, <3>1, Drained
    <3> QED BY <1>3, <2>2, <3>2
  <2>4. ~lost' => Through(out', None, held') = Through(out, inv, held)
    <3> HIDE DEF s, a, c
    <3> QED BY <1>1, <1>4, <1>5, <2>1, <2>3
  <2>5. ~chained \/ sent_eos' => held' = <<>>
    BY <1>1, <2>1
  <2>6. held' \in Seq(Nat) /\ lost' \in BOOLEAN /\ (lost => lost')
    BY <1>1, <1>4
  <2>7. resp' = Returned(resp, yes, no)
    BY <2>1
  <2> HIDE DEF s, a, c, no
  <2> QED BY <1>1, <1>6, <2>1, <2>4, <2>5, <2>6, <2>7, BackOut
<1>7. CASE mode = "in"
  <2> HIDE DEF yes
  <2>1. /\ out' \in Seq(Marked) /\ sent_eos' \in BOOLEAN
        /\ BytesOf(out') = s \o c
        /\ sent_eos' => inv.seen_eos
        /\ Answered(resp', resp)
    BY <1>1, <1>7, FinishIn
  <2>2. a = <<>>
    BY <1>1, <1>7, InvocationRuns
  <2>3. Through(out, inv, held) = (s \o c) \o held
    <3>1. Bytes3(s, c, held)
      BY <1>4 DEF Bytes3, Bytes2
    <3> HIDE DEF s, a, c
    <3>2. Flow(s, <<>>, c, held, <<>>, <<>>) = (s \o c) \o held
      BY ONLY FilterConstants, <3>1, Drained
    <3> QED BY <1>3, <2>2, <3>2
  <2> DEFINE t == (s \o c) \o held
  <2>4. t \in Seq(Nat)
    BY <1>4, Cat
  <2>5. Through(out', None, held') = Through(out, inv, held) \o Numbers(net, net')
    <3>1. Through(out', None, held') = t
      BY <1>1, <1>5, <2>1
    <3> HIDE DEF s, a, c, t
    <3>2. t \o <<>> = t
      BY <2>4, Cat
    <3> QED BY <1>1, <1>4, <2>3, <3>1, <3>2 DEF t
  <2>6. ~chained \/ sent_eos' => held' = <<>>
    BY <1>1, <2>1
  <2>7. held' \in Seq(Nat) /\ lost' \in BOOLEAN /\ (lost => lost') /\ net' \in net .. Bytes
    BY <1>1, <1>4
  <2> HIDE DEF s, a, c, t
  <2> QED BY <1>1, <1>7, <2>1, <2>5, <2>6, <2>7, BackIn
<1> QED BY <1>4, <1>6, <1>7

\* The reader asks the network itself.
LEMMA FromNetGets ==
    ASSUME FilterConstants, FilterInv, mode = "in", NEW g \in FromNet(resp.want),
           ReaderGets(g[1]), net' = net + g[2]
    PROVE  /\ Answered(resp', resp) /\ out' \in Seq(Marked)
           /\ BytesOf(out') = BytesOf(out) \o Numbers(net, net') /\ net' \in net .. Bytes
<1>1. net \in 0 .. Bytes /\ net \in Nat /\ resp.want \in Nat
  BY InvFacts, RespFields
<1>2. /\ g[1] \in Seq(Bucket) /\ g[2] \in Nat /\ g[2] <= resp.want
      /\ net + g[2] \in net .. Bytes /\ Payload(g[1]) = Numbers(net, net + g[2])
  BY <1>1, FromNetFacts
<1>3. Len(Payload(g[1])) = g[2]
  <2>1. net + g[2] \in Nat /\ net <= net + g[2] /\ (net + g[2]) - net = g[2]
    BY <1>1, <1>2
  <2> QED BY <1>1, <1>2, <2>1, NumbersFacts
<1> DEFINE b == g[1]
<1>4. b \in Seq(Bucket) /\ Len(Payload(b)) <= resp.want /\ ReaderGets(b)
      /\ Payload(b) = Numbers(net, net')
  BY <1>2, <1>3
<1> HIDE DEF b
<1>5. /\ Answered(resp', resp) /\ out' \in Seq(Marked)
      /\ BytesOf(out') = BytesOf(out) \o Payload(b)
  BY <1>4, ReaderGetsAll
<1> QED BY <1>2, <1>4, <1>5

\* So does a filter that dies.
LEMMA FDieInv ==
    ASSUME FilterConstants, FilterInv, FDie
    PROVE  FilterInv'
<1> DEFINE no == FALSE
<1>1. /\ inv # None /\ Finish(no) /\ held' = <<>> /\ lost' /\ lost' \in BOOLEAN /\ inv' = None
      /\ no \in BOOLEAN /\ ~no /\ <<>> \in Seq(Nat)
      /\ UNCHANGED <<mode, chained, net, reset, flushed>>
  <2>1. /\ inv # None /\ Finish(FALSE) /\ held' = <<>> /\ lost' = TRUE /\ inv' = None
        /\ UNCHANGED <<mode, chained, net, reset, flushed>>
    BY DEF FDie
  <2>2. no \in BOOLEAN /\ ~no /\ <<>> \in Seq(Nat) /\ TRUE \in BOOLEAN
    OBVIOUS
  <2> QED BY <2>1, <2>2
<1>2. mode \in {"out", "in"} /\ net \in net .. Bytes
  BY <1>1, FlowNow
<1> HIDE DEF no
<1>3. CASE mode = "out"
  <2>1. /\ out' \in Seq(Marked) /\ sent_eos' \in BOOLEAN /\ resp' = Returned(resp, no, FALSE)
    BY <1>1, <1>3, FinishOut
  <2>2. resp' = Returned(resp, no, no)
    BY <2>1 DEF no
  <2> QED BY <1>1, <1>3, <2>1, <2>2, BackOut
<1>4. CASE mode = "in"
  <2>1. out' \in Seq(Marked) /\ sent_eos' \in BOOLEAN /\ Answered(resp', resp)
    BY <1>1, <1>4, FinishIn
  <2> QED BY <1>1, <1>2, <1>4, <2>1, BackIn
<1> QED BY <1>2, <1>3, <1>4

\* So does one that declines after it has read,
LEMMA FDeclineReadInv ==
    ASSUME FilterConstants, FilterInv, FDeclineRead
    PROVE  FilterInv'
<1>1. /\ inv # None /\ mode = "in" /\ resp' = Returned(resp, FALSE, FALSE)
      /\ held' = <<>> /\ lost' /\ lost' \in BOOLEAN /\ inv' = None /\ <<>> \in Seq(Nat)
      /\ UNCHANGED <<mode, chained, sent_eos, net, reset, out, flushed>>
  BY DEF FDeclineRead
<1>2. out \in Seq(Marked) /\ sent_eos \in BOOLEAN /\ net \in net .. Bytes
  BY <1>1, FlowNow
<1>3. Answered(resp', resp)
  BY <1>1, ReaderFails
<1> QED BY <1>1, <1>2, <1>3, BackIn

\* and one that declines before that: the brigade goes on as it came.
LEMMA FDeclineInv ==
    ASSUME FilterConstants, FilterInv, FDecline
    PROVE  FilterInv'
<1> DEFINE s == BytesOf(out)
           a == inv.wb
           d == Payload(inv.bb)
           t == Through(out, inv, held)
<1>1. /\ inv # None /\ ~inv.read /\ held = <<>> /\ inv.bb_out = <<>> /\ inv' = None
      /\ UNCHANGED <<mode, chained, sent_eos, held, reset, flushed, lost>>
  BY DEF FDecline
<1>2. /\ s \in Seq(Nat) /\ a \in Seq(Nat) /\ d \in Seq(Nat) /\ held \in Seq(Nat)
      /\ lost \in BOOLEAN /\ (reset => lost) /\ mode \in {"out", "in"} /\ sent_eos \in BOOLEAN
      /\ net \in Nat /\ net \in net .. Bytes /\ Numbers(net, net) = <<>> /\ out \in Seq(Marked)
      /\ inv.bb \in Seq(Bucket) /\ a \in Seq(Marked) /\ BytesOf(a) = a /\ reset \in BOOLEAN
  BY <1>1, FlowNow
<1>3. inv.left = <<>> /\ Payload(inv.bb_out) = <<>> /\ t \in Seq(Nat)
  BY <1>1, InvocationRuns, PayloadFacts
<1>4. t = ((s \o a) \o d) \o <<>>
  <2>1. t = Flow(s, a, <<>>, <<>>, <<>>, d)
    BY <1>1, <1>3, FlowNow
  <2>2. Bytes3(s, a, d) /\ <<>> \in Seq(Nat)
    BY <1>2 DEF Bytes3, Bytes2
  <2> HIDE DEF s, a, d, t
  <2>3. Flow(s, a, <<>>, <<>>, <<>>, d) = ((s \o a) \o d) \o <<>>
    BY ONLY FilterConstants, <2>2, DrainedAll
  <2> QED BY <2>1, <2>3
<1>5. Through(out', None, held) = BytesOf(out') \o <<>>
  BY <1>1 DEF Through, InFilter
<1>6. CASE mode = "out"
  <2> DEFINE tol == Head(resp.pending).tol
             ok == ~reset
  <2>1. /\ out' = (IF reset THEN out ELSE out \o a \o Flat(inv.bb))
        /\ resp' = Returned(resp, ok, tol) /\ net' = net
    BY <1>6 DEF FDecline
  <2>2. Flat(inv.bb) \in Seq(Marked) /\ BytesOf(Flat(inv.bb)) = d
    BY <1>2, FlatFacts
  <2> DEFINE m == Flat(inv.bb)
             x == out \o a
  <2>3. x \in Seq(Marked) /\ BytesOf(x) = s \o a
    <3> HIDE DEF a
    <3>1. x \in Seq(Marked)
      BY <1>2, ConcatProperties
    <3> QED BY <1>2, <3>1, BytesOfFacts, ZenonT(60)
  <2> HIDE DEF m, x
  <2>4. x \o m \in Seq(Marked) /\ BytesOf(x \o m) = BytesOf(x) \o BytesOf(m)
    <3>1. m \in Seq(Marked)
      BY <2>2 DEF m
    <3> QED BY <2>3, <3>1, BytesOfFacts, ConcatProperties
  <2>5. out' \in Seq(Marked) /\ (~reset => BytesOf(out') = (s \o a) \o d)
    <3>1. out' = (IF reset THEN out ELSE x \o m)
      BY <2>1 DEF x, m
    <3>2. BytesOf(m) = d
      BY <2>2 DEF m
    <3> HIDE DEF s, a, d
    <3> QED BY <1>2, <2>3, <2>4, <3>1, <3>2
  <2>6. ~lost' => Through(out', None, held') = t
    <3> HIDE DEF s, a, d, t
    <3> QED BY <1>1, <1>2, <1>4, <1>5, <2>5
  <2>7. ~chained \/ sent_eos' => held' = <<>>
    BY <1>1
  <2>8. /\ held' \in Seq(Nat) /\ lost' \in BOOLEAN /\ (lost => lost') /\ sent_eos' \in BOOLEAN
        /\ ok \in BOOLEAN /\ (ok \/ ~tol \/ lost')
    BY <1>1, <1>2
  <2>9. tol \in BOOLEAN
    <3>1. resp.pending \in Seq(ItemType) /\ resp.pending # <<>>
      BY <1>1, InvocationRuns, InvFacts, RespFields
    <3>2. Head(resp.pending) \in ItemType
      BY <3>1, CallsTail
    <3> QED BY <3>2 DEF ItemType
  <2> HIDE DEF s, a, d, ok, tol
  <2> QED BY <1>1, <1>6, <2>1, <2>5, <2>6, <2>7, <2>8, <2>9, BackOut DEF t
<1>7. CASE mode = "in"
  <2>1. a = <<>> /\ d = <<>>
    <3>1. inv.wb = <<>> /\ inv.bb = <<>>
      BY <1>1, <1>7, InvocationRuns
    <3> QED BY <3>1, PayloadFacts
  <2>2. t = s
    <3> HIDE DEF s, a, d, t
    <3>1. s \o <<>> = s
      BY <1>2, Cat
    <3> QED BY <1>4, <2>1, <3>1
  <2>3. held' \in Seq(Nat) /\ lost' \in BOOLEAN /\ (lost => lost') /\ sent_eos' \in BOOLEAN
        /\ (~chained \/ sent_eos' => held' = <<>>)
    BY <1>1, <1>2
  <2>4. CASE reset
    <3>1. resp' = Returned(resp, FALSE, FALSE) /\ out' = out /\ net' = net
      BY <1>7, <2>4 DEF FDecline
    <3>2. Answered(resp', resp)
      BY <3>1, ReaderFails
    <3>3. out' \in Seq(Marked) /\ net' \in net .. Bytes /\ lost'
      BY <1>1, <1>2, <2>4, <3>1
    <3> QED BY <1>1, <1>7, <2>3, <3>2, <3>3, BackIn
  <2>5. CASE ~reset
    <3>1. PICK g \in FromNet(resp.want) : ReaderGets(g[1]) /\ net' = net + g[2]
      BY <1>7, <2>5 DEF FDecline
    <3>2. /\ Answered(resp', resp) /\ out' \in Seq(Marked)
          /\ BytesOf(out') = s \o Numbers(net, net') /\ net' \in net .. Bytes
      BY <1>7, <3>1, FromNetGets
    <3>3. Numbers(net, net') \in Seq(Nat)
      <4>1. net' \in Nat /\ net <= net'
        BY <1>2, <3>2
      <4> QED BY <1>2, <4>1, NumbersFacts
    <3> DEFINE y == s \o Numbers(net, net')
    <3>4. y \o <<>> = y
      <4> HIDE DEF s
      <4>1. y \in Seq(Nat)
        BY <1>2, <3>3, Cat
      <4> HIDE DEF y
      <4> QED BY <4>1, Cat
    <3>5. Through(out', None, held') = t \o Numbers(net, net')
      <4>1. Through(out', None, held') = y \o <<>>
        BY <1>1, <1>5, <3>2
      <4> HIDE DEF s, t
      <4> QED BY <2>2, <3>4, <4>1
    <3> HIDE DEF s, a, d
    <3> QED BY <1>1, <1>7, <2>3, <3>2, <3>5, BackIn DEF t
  <2> QED BY <2>4, <2>5
<1> QED BY <1>2, <1>6, <1>7

\* A brigade that is fetched from upstream keeps the invariant.
LEMMA GetBrigadeInv ==
    ASSUME FilterConstants, FilterInv, GetBrigade
    PROVE  FilterInv'
<1> DEFINE t == Through(out, inv, held)
<1>1. /\ mode = "in" /\ inv = None /\ resp.pending # <<>>
      /\ UNCHANGED <<mode, chained, sent_eos, held, reset, flushed>>
  BY DEF GetBrigade
<1>2. /\ resp \in RespType /\ out \in Seq(Marked) /\ held \in Seq(Nat) /\ net \in 0 .. Bytes
      /\ net \in Nat /\ net \in net .. Bytes /\ resp.want \in Nat /\ flushed \in Nat
      /\ resp.n \in Nat /\ Bytes \in Nat
  BY InvFacts, RespFields
<1>3. /\ lost \in BOOLEAN /\ sent_eos \in BOOLEAN /\ (reset => lost)
      /\ (~chained \/ sent_eos => held = <<>>)
  BY <1>1 DEF FilterInv, FilterTypeOK
<1>4. /\ resp.pending = <<Direct(<<>>)>> /\ resp.buf = <<>> /\ ~resp.cgi /\ resp.n = 0
      /\ (resp.parse => resp.cgi) /\ Len(resp.buf) <= BufSize
  BY <1>1 DEF FilterInv, ResponseOK
<1>5. CASE chained /\ ~sent_eos
  <2> DEFINE v == NewInvocation(<<>>, resp.want)
  <2>1. inv' = v /\ UNCHANGED <<resp, net, out, lost>>
    BY <1>5 DEF GetBrigade
  <2>2. /\ v \in InvType /\ v # None /\ InvocationOK(v, "in", resp.want)
        /\ v.wb = <<>> /\ v.bb_out = <<>> /\ v.left = <<>> /\ v.bb = <<>>
    <3> DEFINE b == <<>>
    <3>1. b \in Seq(Bucket) /\ b = <<>>
      OBVIOUS
    <3>2. BrigadeOK(b)
      BY Cat DEF BrigadeOK
    <3> HIDE DEF b
    <3> DEFINE x == NewInvocation(b, resp.want)
    <3>3. /\ x \in InvType /\ x # None /\ InvocationOK(x, "in", resp.want)
          /\ x.wb = <<>> /\ x.bb_out = <<>> /\ x.left = <<>> /\ x.bb = b
      BY <1>1, <1>2, <3>1, <3>2, Invoked
    <3> QED BY <3>1, <3>3
  <2> HIDE DEF v
  <2>3. Todo(resp', inv') = <<>>
    <3>1. Todo(resp', inv') = Tail(resp.pending)
      BY <1>1, <1>2, <2>1, <2>2, TodoFacts
    <3>2. Tail(<<Direct(<<>>)>>) = <<>>
      OBVIOUS
    <3> QED BY <1>4, <3>1, <3>2
  <2>4. FilterTypeOK'
    BY <1>1, <2>1, <2>2 DEF FilterInv, FilterTypeOK
  <2>5. InvocationOK(inv', mode', resp'.want)
    BY <1>1, <2>1, <2>2
  <2>6. ResponseOK(resp', mode', inv')
    BY <1>1, <1>4, <2>1, <2>3, ReadyEmpty DEF ResponseOK
  <2>7. ASSUME ~lost', ~resp'.err PROVE Whole(mode', resp', inv', held', net', out')
    <3>1. t = Numbers(0, net)
      BY <1>1, <2>1, <2>7 DEF FilterInv, Whole
    <3>2. Through(out, v, held) = t
      <4>1. Through(out, v, held) = Through(out, None, held) \o Payload(v.bb)
        BY <1>2, <2>2, ThroughNew
      <4>2. t \in Seq(Nat)
        BY <1>1, <1>2, ThroughType
      <4>3. Payload(v.bb) = <<>> /\ t = Through(out, None, held)
        BY <1>1, <2>2, PayloadFacts
      <4> HIDE DEF t
      <4>4. t \o <<>> = t
        BY <4>2, Cat
      <4> QED BY <4>1, <4>3, <4>4
    <3> QED BY <1>1, <2>1, <3>1, <3>2 DEF Whole
  <2>8. ((reset => lost) /\ (inv # None => ~sent_eos)
          /\ (inv = None /\ (~chained \/ sent_eos) => held = <<>>))'
    BY <1>1, <1>3, <1>5, <2>1, <2>2
  <2>9. (flushed + Len(resp.buf) + Len(Calls(Todo(resp, inv))) <= resp.n)'
    <3>1. flushed + Len(resp.buf) + Len(Calls(resp.pending)) <= resp.n
      BY <1>1, <1>2, TodoFacts DEF FilterInv
    <3>2. Calls(resp.pending) = <<>> /\ Calls(<<>>) = <<>>
      BY <1>4, EmptyDirect, CallsFacts
    <3> QED BY <1>1, <2>1, <2>3, <3>1, <3>2
  <2> QED BY <2>4, <2>5, <2>6, <2>7, <2>8, <2>9 DEF FilterInv
<1>6. CASE ~(chained /\ ~sent_eos)
  <2>1. held = <<>> /\ inv' = None
    BY <1>1, <1>3, <1>6 DEF GetBrigade
  <2>2. t = BytesOf(out) \o <<>> /\ Through(out', None, held') = BytesOf(out') \o <<>>
    BY <1>1, <2>1 DEF Through, InFilter
  <2>3. BytesOf(out) \in Seq(Nat) /\ BytesOf(out) \o <<>> = BytesOf(out)
    BY <1>2, BytesOfFacts, Cat
  <2>4. held' \in Seq(Nat) /\ sent_eos' \in BOOLEAN /\ (~chained \/ sent_eos' => held' = <<>>)
    BY <1>1, <1>2, <1>3, <2>1
  <2>5. CASE reset
    <3>1. resp' = Returned(resp, FALSE, FALSE) /\ net' = net /\ out' = out /\ lost' = lost /\ lost
      BY <1>3, <1>6, <2>5 DEF GetBrigade
    <3>2. Answered(resp', resp)
      BY <3>1, ReaderFails
    <3>3. out' \in Seq(Marked) /\ net' \in net .. Bytes /\ lost' \in BOOLEAN /\ lost'
      BY <1>2, <1>3, <3>1
    <3> QED BY <1>1, <2>1, <2>4, <3>2, <3>3, BackIn
  <2>6. CASE ~reset
    <3>1. (\E g \in FromNet(resp.want) : ReaderGets(g[1]) /\ net' = net + g[2]) /\ lost' = lost
      BY <1>6, <2>6 DEF GetBrigade
    <3>2. PICK g \in FromNet(resp.want) : ReaderGets(g[1]) /\ net' = net + g[2]
      BY <3>1
    <3>3. /\ Answered(resp', resp) /\ out' \in Seq(Marked)
          /\ BytesOf(out') = BytesOf(out) \o Numbers(net, net') /\ net' \in net .. Bytes
      BY <1>1, <3>2, FromNetGets
    <3>4. BytesOf(out') \in Seq(Nat) /\ BytesOf(out') \o <<>> = BytesOf(out')
      BY <3>3, BytesOfFacts, Cat
    <3>5. Through(out', None, held') = t \o Numbers(net, net')
      BY <2>2, <2>3, <3>3, <3>4
    <3>6. lost' \in BOOLEAN /\ (lost => lost')
      BY <1>3, <3>1
    <3> QED BY <1>1, <2>1, <2>4, <3>3, <3>5, <3>6, BackIn
  <2> QED BY <2>5, <2>6
<1> QED BY <1>5, <1>6

\* A client that goes away keeps it.
LEMMA ClientResetInv ==
    ASSUME FilterConstants, FilterInv, ClientReset
    PROVE  FilterInv'
<1>1. /\ reset' = TRUE /\ lost' = TRUE
      /\ UNCHANGED <<mode, resp, chained, sent_eos, held, inv, net, out, flushed>>
  BY DEF ClientReset
<1>2. FilterTypeOK'
  <2>1. TRUE \in BOOLEAN
    OBVIOUS
  <2> QED BY <1>1, <2>1 DEF FilterInv, FilterTypeOK
<1>3. InvocationOK(inv', mode', resp'.want) /\ ResponseOK(resp', mode', inv')
  BY <1>1 DEF FilterInv
<1>4. ((reset => lost) /\ (inv # None => ~sent_eos)
        /\ (inv = None /\ (~chained \/ sent_eos) => held = <<>>))'
  BY <1>1 DEF FilterInv
<1>5. (flushed + Len(resp.buf) + Len(Calls(Todo(resp, inv))) <= resp.n)'
  BY <1>1 DEF FilterInv
<1> QED BY <1>1, <1>2, <1>3, <1>4, <1>5 DEF FilterInv

\* So does a step of others.
LEMMA SameInv ==
    ASSUME FilterInv, UNCHANGED fvars
    PROVE  FilterInv'
<1>1. UNCHANGED <<mode, resp, chained, sent_eos, held, inv, net, reset, out, flushed, lost>>
  BY DEF fvars
<1>2. FilterTypeOK'
  BY <1>1 DEF FilterInv, FilterTypeOK
<1>3. InvocationOK(inv', mode', resp'.want) /\ ResponseOK(resp', mode', inv')
  BY <1>1 DEF FilterInv
<1>4. ((reset => lost) /\ (inv # None => ~sent_eos)
        /\ (inv = None /\ (~chained \/ sent_eos) => held = <<>>))'
  BY <1>1 DEF FilterInv
<1>5. (flushed + Len(resp.buf) + Len(Calls(Todo(resp, inv))) <= resp.n)'
  BY <1>1 DEF FilterInv
<1>6. ~lost' /\ ~resp'.err => Whole(mode', resp', inv', held', net', out')
  BY <1>1 DEF FilterInv
<1> QED BY <1>1, <1>2, <1>3, <1>4, <1>5, <1>6 DEF FilterInv

\* It holds at the start.
LEMMA FilterInitInv ==
    ASSUME FilterConstants, FilterInit
    PROVE  FilterInv
<1>1. /\ mode \in {"out", "in"} /\ chained \in BOOLEAN
      /\ sent_eos = FALSE /\ held = <<>> /\ inv = None /\ net = 0
      /\ reset = FALSE /\ out = <<>> /\ flushed = 0 /\ lost = FALSE
  BY DEF FilterInit
<1>2. PICK parse \in IF mode = "out" THEN BOOLEAN ELSE {FALSE} :
         resp = [at |-> "handler", buf |-> <<>>, pending |-> <<>>, n |-> 0,
                 parse |-> parse, cgi |-> parse, status |-> "OK", want |-> 0,
                 flushes |-> 0, err |-> FALSE]
  BY DEF FilterInit
<1>3. parse \in BOOLEAN /\ (mode = "in" => ~parse)
  BY <1>1, <1>2
<1> DEFINE no == FALSE
<1>4. /\ no \in BOOLEAN /\ ~no /\ <<>> \in Seq(Nat) /\ <<>> \in Seq(ItemType) /\ <<>> \in Seq(Marked)
      /\ 0 \in Nat /\ Len(<<>>) = 0 /\ Bytes \in Nat /\ BufSize \in Nat /\ 0 \in 0 .. Bytes
  BY Cat DEF FilterConstants
<1>5. resp = [at |-> "handler", buf |-> <<>>, pending |-> <<>>, n |-> 0,
              parse |-> parse, cgi |-> parse, status |-> "OK", want |-> 0,
              flushes |-> 0, err |-> no]
  BY <1>2
<1> HIDE DEF no
<1>6. /\ resp \in RespType /\ resp.at = "handler" /\ resp.buf = <<>> /\ resp.pending = <<>>
      /\ resp.n = 0 /\ resp.parse = parse /\ resp.cgi = parse /\ resp.err = no
  BY <1>3, <1>4, <1>5 DEF RespType
<1>7. FilterTypeOK
  <2>1. FALSE \in BOOLEAN
    OBVIOUS
  <2> QED BY <1>1, <1>4, <1>6, <2>1 DEF FilterTypeOK, Marked
<1>8. Todo(resp, inv) = <<>> /\ Calls(<<>>) = <<>>
  BY <1>1, <1>6, CallsFacts DEF Todo
<1>9. InvocationOK(inv, mode, resp.want)
  BY <1>1 DEF InvocationOK
<1>10. ResponseOK(resp, mode, inv)
  BY <1>1, <1>3, <1>4, <1>6, <1>8, ReadyEmpty DEF ResponseOK
<1>11. Through(out, inv, held) = <<>> /\ Numbers(0, 0) = <<>>
  <2>1. BytesOf(<<>>) = <<>> /\ <<>> \o <<>> = <<>>
    BY BytesOfFacts, Cat
  <2> QED BY <1>1, <1>4, <2>1, NumbersNone DEF Through, InFilter
<1>12. Skip(resp) = 0
  BY <1>6 DEF Skip
<1>13. Whole(mode, resp, inv, held, net, out)
  <2>1. <<>> \o (<<>> \o <<>>) = <<>>
    OBVIOUS
  <2> DEFINE t == Through(out, inv, held)
             c == Calls(Todo(resp, inv))
  <2>2. t = <<>> /\ c = <<>> /\ resp.buf = <<>>
    BY <1>6, <1>8, <1>11
  <2>3. CASE mode = "in"
    BY <1>1, <1>11, <2>3 DEF Whole
  <2>4. CASE mode # "in"
    <3>1. t \o (resp.buf \o c) = <<>>
      <4> HIDE DEF t, c
      <4> QED BY <2>1, <2>2
    <3>2. Numbers(Skip(resp), resp.n) = <<>> /\ Skip(resp) <= resp.n
      BY <1>6, <1>11, <1>12
    <3> HIDE DEF t, c
    <3> QED BY <2>2, <2>4, <3>1, <3>2 DEF Whole, t, c
  <2> QED BY <2>3, <2>4
<1>14. flushed + Len(resp.buf) + Len(Calls(Todo(resp, inv))) <= resp.n
  BY <1>1, <1>4, <1>6, <1>8
<1> QED BY <1>1, <1>7, <1>9, <1>10, <1>13, <1>14 DEF FilterInv

\* Every step keeps the invariant.
LEMMA FilterStep ==
    ASSUME FilterConstants, FilterInv, [FilterNext]_fvars
    PROVE  FilterInv'
<1>1. ASSUME NEW len \in 1 .. Bytes, NEW autoflush \in BOOLEAN, WritePrint(len, autoflush)
      PROVE  FilterInv'
  BY <1>1, WritePrintInv
<1>2. ASSUME NEW len \in 1 .. Bytes, Sendfile(len)
      PROVE  FilterInv'
  BY <1>2, SendfileInv
<1>3. ASSUME NEW w \in Wanted, Read(w) \/ FRead(w)
      PROVE  FilterInv'
  BY <1>3, ReadInv, FReadInv
<1>4. ASSUME NEW k \in 1 .. Bytes, FPrint(k)
      PROVE  FilterInv'
  BY <1>4, FPrintInv
<1>5. CASE Rflush \/ StdoutFlush \/ HandlerEnd \/ Finalize \/ ResponseStep
  BY <1>5, RflushInv, StdoutFlushInv, HandlerEndInv, FinalizeInv, ResponseStepInv
<1>6. CASE GetBrigade \/ ReaderEnd \/ FRemove
  BY <1>6, GetBrigadeInv, ReaderEndInv, FRemoveInv
<1>7. CASE FReturn \/ FDie \/ FDecline \/ FDeclineRead
  BY <1>7, FReturnInv, FDieInv, FDeclineInv, FDeclineReadInv
<1>8. CASE ClientReset
  BY <1>8, ClientResetInv
<1>9. CASE UNCHANGED fvars
  BY <1>9, SameInv
<1>10. CASE Done
  BY <1>10, SameInv DEF Done
<1> QED BY <1>1, <1>2, <1>3, <1>4, <1>5, <1>6, <1>7, <1>8, <1>9, <1>10
        DEF FilterNext, RequestThread

-----------------------------------------------------------------------------
(* The theorems.                                                           *)

\* Whatever the handler prints and flushes, and whatever Perl filters do with it
\* between reading, printing, declining and removing themselves, what is on its
\* way through modperl_filter.c stays whole: the inductive invariant.
THEOREM FilterInvariant ==
    ASSUME FilterConstants
    PROVE  FilterSpec => []FilterInv
<1>1. FilterInit => FilterInv
  BY FilterInitInv
<1>2. FilterInv /\ [FilterNext]_fvars => FilterInv'
  BY FilterStep
<1> QED BY <1>1, <1>2, PTL DEF FilterSpec

\* The state of the response handler and of a filter's invocation has its type:
\* brigades of data and marks, calls of the known kinds, and bytes in the buffers
\* of modperl_wbucket_t and modperl_filter_t.
THEOREM FilterTypeCorrect ==
    ASSUME FilterConstants
    PROVE  FilterSpec => []FilterTypeOK
<1>1. FilterInv => FilterTypeOK
  BY DEF FilterInv
<1> QED BY <1>1, FilterInvariant, PTL

\* Five parts, put together from the left or from the right.
LEMMA FiveParts ==
    ASSUME NEW s, NEW a, NEW b, NEW h, NEW l, NEW d, Bytes6(s, a, b, h, l, d)
    PROVE  s \o ((((a \o b) \o h) \o l) \o d) = Flow(s, a, b, h, l, d)
<1>1. /\ s \in Seq(Nat) /\ a \in Seq(Nat) /\ b \in Seq(Nat)
      /\ h \in Seq(Nat) /\ l \in Seq(Nat) /\ d \in Seq(Nat)
  BY DEF Bytes6, Bytes3, Bytes2
<1> DEFINE x == a \o b
<1>2. x \in Seq(Nat) /\ \A z \in Seq(Nat) : x \o z = a \o (b \o z)
  <2>1. Bytes2(a, b)
    BY <1>1 DEF Bytes2
  <2>2. ASSUME NEW z \in Seq(Nat) PROVE x \o z = a \o (b \o z)
    <3>1. Bytes3(a, b, z)
      BY <1>1 DEF Bytes3, Bytes2
    <3> QED BY ONLY <3>1, Three, SMTT(40)
  <2> QED BY <2>1, <2>2, Two
<1> HIDE DEF x
<1> DEFINE y == x \o h
           u == l \o d
<1>3. y \in Seq(Nat) /\ (y \o l) \o d = y \o u /\ u \in Seq(Nat)
  <2>1. Bytes2(x, h)
    BY <1>1, <1>2 DEF Bytes2
  <2>2. y \in Seq(Nat)
    BY ONLY <2>1, Two
  <2> HIDE DEF y
  <2>3. Bytes3(y, l, d)
    BY <1>1, <2>2 DEF Bytes3, Bytes2
  <2> QED BY ONLY <2>2, <2>3, Three DEF u
<1> HIDE DEF u
<1>4. y \o u = x \o (h \o u) /\ h \o u \in Seq(Nat)
  <2>1. Bytes3(x, h, u)
    BY <1>1, <1>2, <1>3 DEF Bytes3, Bytes2
  <2> QED BY ONLY <2>1, Three DEF y
<1>5. (y \o l) \o d = a \o (b \o (h \o u))
  BY <1>2, <1>3, <1>4
<1> QED BY <1>5 DEF Flow, x, y, u

\* No byte is lost, repeated or reordered between the response handler's print and
\* the client, or between the client and the reader, through the write bucket of
\* modperl_filter.c, what a read leaves over and the brigades passed on, unless a
\* filter or a write failed; and no write bucket holds more than sizeof(wb->outbuf):
\* for any size of it, any amount of data and any reads.
THEOREM ConservedHolds ==
    ASSUME FilterConstants
    PROVE  FilterSpec => []Conserved
<1>1. FilterInv => Conserved
  <2> SUFFICES ASSUME FilterInv PROVE Conserved
    OBVIOUS
  <2> DEFINE s == BytesOf(out)
             filter == IF inv = None THEN held
                       ELSE inv.wb \o Payload(inv.bb_out) \o held \o inv.left
                            \o Payload(inv.bb)
             t == Through(out, inv, held)
             todo == Todo(resp, inv)
             calls == Calls(todo)
             split == IF todo # <<>> /\ todo[1].op \in {"flush", "copy"}
                      THEN resp.buf \o calls ELSE calls \o resp.buf
  <2>1. /\ resp \in RespType /\ inv \in InvType \cup {None} /\ mode \in {"out", "in"}
        /\ resp.buf \in Seq(Nat) /\ Len(resp.buf) <= BufSize
    BY InvFacts, RespFields
  <2>2. inv = None \/ Len(inv.wb) <= BufSize
    BY InvocationRuns
  <2>3. s \o filter = t
    <3>1. CASE inv = None
      BY <3>1 DEF Through, InFilter
    <3>2. CASE inv # None
      <4>1. t = Flow(s, inv.wb, Payload(inv.bb_out), held, inv.left, Payload(inv.bb))
        BY <3>2, FlowNow
      <4>2. inv.left \in Seq(Nat)
        BY <2>1, <3>2, InvFields
      <4>3. Bytes6(s, inv.wb, Payload(inv.bb_out), held, inv.left, Payload(inv.bb))
        BY <3>2, <4>2, FlowNow DEF Bytes6, Bytes3, Bytes2
      <4>4. s \o ((((inv.wb \o Payload(inv.bb_out)) \o held) \o inv.left) \o Payload(inv.bb))
              = Flow(s, inv.wb, Payload(inv.bb_out), held, inv.left, Payload(inv.bb))
        <5> DEFINE a == inv.wb
                   b == Payload(inv.bb_out)
                   l == inv.left
                   d == Payload(inv.bb)
        <5>1. Bytes6(s, a, b, held, l, d)
          BY <4>3
        <5> HIDE DEF s, a, b, l, d
        <5>2. s \o ((((a \o b) \o held) \o l) \o d) = Flow(s, a, b, held, l, d)
          BY <5>1, FiveParts
        <5> QED BY <5>2 DEF a, b, l, d
      <4> QED BY <3>2, <4>1, <4>4
    <3> QED BY <3>1, <3>2
  <2>4. calls \in Seq(Nat) /\ Ready(todo, resp.buf) /\ todo \in Seq(ItemType)
        /\ (todo = <<>> => calls = <<>>)
    <3>1. resp.pending # <<>> \/ inv = None
      BY DEF FilterInv, ResponseOK
    <3>2. todo \in Seq(ItemType)
      BY <2>1, <3>1, TodoFacts
    <3>3. Ready(todo, resp.buf)
      BY DEF FilterInv, ResponseOK
    <3> QED BY <3>2, <3>3, CallsFacts
  <2>5. split = resp.buf \o calls
    <3>1. CASE todo # <<>> /\ todo[1].op \in {"flush", "copy"}
      BY <3>1
    <3>2. CASE ~(todo # <<>> /\ todo[1].op \in {"flush", "copy"})
      <4>1. resp.buf = <<>> \/ calls = <<>>
        <5>1. CASE todo = <<>>
          BY <2>4, <5>1
        <5>2. CASE todo # <<>>
          <6>1. todo[1] \in ItemType
            BY <2>4, <5>2, CallsTail
          <6>2. todo[1].op \in {"pass", "direct", "flushed"}
            BY <3>2, <5>2, <6>1 DEF ItemType
          <6> QED BY <2>4, <5>2, <6>2 DEF Ready
        <5> QED BY <5>1, <5>2
      <4>2. split = calls \o resp.buf
        BY <3>2
      <4> DEFINE b == resp.buf
      <4>3. b \in Seq(Nat) /\ calls \in Seq(Nat)
        BY <2>1, <2>4
      <4> HIDE DEF calls, split, b
      <4>4. b \o <<>> = b /\ <<>> \o b = b /\ calls \o <<>> = calls /\ <<>> \o calls = calls
        BY <4>3, Cat
      <4>5. CASE b = <<>>
        BY <4>2, <4>4, <4>5 DEF b
      <4>6. CASE calls = <<>>
        BY <4>2, <4>4, <4>6 DEF b
      <4> QED BY <4>1, <4>5, <4>6 DEF b
    <3> QED BY <3>1, <3>2
  <2>6. ASSUME ~lost, ~resp.err
        PROVE  IF mode = "in" THEN s \o filter = Numbers(0, net)
               ELSE s \o filter \o split = Numbers(Skip(resp), resp.n)
    <3>1. Whole(mode, resp, inv, held, net, out)
      BY <2>6 DEF FilterInv
    <3>2. CASE mode = "in"
      BY <2>3, <3>1, <3>2 DEF Whole
    <3>3. CASE mode # "in"
      <4>1. t \o (resp.buf \o calls) = Numbers(Skip(resp), resp.n)
        BY <3>1, <3>3 DEF Whole
      <4> HIDE DEF t, split, s, filter, calls
      <4> QED BY <2>3, <2>5, <3>3, <4>1
    <3> QED BY <3>2, <3>3
  <2> HIDE DEF t
  <2> QED BY <2>1, <2>2, <2>6, Zenon DEF Conserved, OutBytes, Todo, Calls, Skip
<1> QED BY <1>1, FilterInvariant, PTL

\* When $r->rflush has returned, what was printed before it has reached the client
\* or is held by the filter's own code, for any sizes: modperl_wbucket_flush leaves
\* nothing behind.
THEOREM FlushDeliversHolds ==
    ASSUME FilterConstants
    PROVE  FilterSpec => []FlushDelivers
<1>1. FilterInv => FlushDelivers
  <2> SUFFICES ASSUME FilterInv, ~lost, ~resp.err, resp.pending = <<>>, inv = None
               PROVE  Len(OutBytes) + Len(held) + (IF resp.cgi THEN HeaderLen ELSE 0) >= flushed
    BY DEF FlushDelivers, Busy
  <2> DEFINE s == BytesOf(out)
             x == Len(s)
             y == Len(held)
             b == Len(resp.buf)
             k == Skip(resp)
             n == resp.n
  <2>1. /\ resp \in RespType /\ mode \in {"out", "in"} /\ held \in Seq(Nat) /\ s \in Seq(Nat)
        /\ resp.buf \in Seq(Nat) /\ HeaderLen \in Nat /\ n \in Nat /\ flushed \in Nat
    BY InvFacts, RespFields, BytesOfFacts
  <2>2. x \in Nat /\ y \in Nat /\ b \in Nat /\ k \in Nat /\ k <= (IF resp.cgi THEN HeaderLen ELSE 0)
    BY <2>1, Cat DEF Skip
  <2>3. Todo(resp, inv) = <<>> /\ Calls(<<>>) = <<>> /\ Len(<<>>) = 0
    BY CallsFacts, Cat DEF Todo
  <2>4. flushed + b <= n
    <3>1. flushed + b + 0 <= n
      BY <2>3 DEF FilterInv
    <3> HIDE DEF b, n
    <3> QED BY <2>1, <2>2, <3>1
  <2>5. Whole(mode, resp, inv, held, net, out)
    BY DEF FilterInv
  <2>6. CASE mode = "in"
    <3>1. n = 0
      BY <2>6 DEF FilterInv, ResponseOK
    <3> HIDE DEF x, y, b, n, k
    <3>2. x + y + (IF resp.cgi THEN HeaderLen ELSE 0) >= flushed
      BY <2>1, <2>2, <2>4, <3>1
    <3> QED BY <3>2 DEF x, y, OutBytes
  <2>7. CASE mode # "in"
    <3>1. k <= n /\ (s \o held) \o (resp.buf \o <<>>) = Numbers(k, n)
      BY <2>3, <2>5, <2>7 DEF Whole, Through, InFilter
    <3>2. Len(Numbers(k, n)) = n - k
      BY <2>1, <2>2, <3>1, NumbersFacts
    <3>3. Len((s \o held) \o (resp.buf \o <<>>)) = x + y + b
      <4>1. s \o held \in Seq(Nat) /\ Len(s \o held) = x + y /\ resp.buf \o <<>> = resp.buf
        BY <2>1, Cat
      <4> DEFINE z == s \o held
      <4> HIDE DEF z
      <4>2. Len(z \o resp.buf) = Len(z) + b
        BY <2>1, <4>1, Cat DEF z
      <4> QED BY <4>1, <4>2 DEF z
    <3>4. x + y + b = n - k
      BY <3>1, <3>2, <3>3
    <3>5. k <= n
      BY <3>1
    <3> HIDE DEF x, y, b, n, k
    <3>6. x + y + (IF resp.cgi THEN HeaderLen ELSE 0) >= flushed
      BY <2>1, <2>2, <2>4, <3>4, <3>5
    <3> QED BY <3>6 DEF x, y, OutBytes
  <2> QED BY <2>6, <2>7
<1> QED BY <1>1, FilterInvariant, PTL

=============================================================================
