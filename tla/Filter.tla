------------------------------- MODULE Filter -------------------------------
(***************************************************************************)
(* Streaming through a mod_perl filter: the response handler's write       *)
(* buffer (modperl_wbucket_t), an output or an input filter written in     *)
(* Perl with $f->read and $f->print, and reading the request body          *)
(* (modperl_filter.c, modperl_cgi.c, modperl_response_init and _finish of  *)
(* mod_perl.c, modperl_request_read of modperl_io_apache.c and the methods *)
(* of Apache2::RequestIO and Apache2::Filter).                             *)
(*                                                                         *)
(* Bytes are numbered from 1 in the order in which they are produced.  A   *)
(* bucket is a sequence of bytes, EOS or FLUSH; a brigade is a sequence of *)
(* buckets.  In mode "out" the response handler prints, httpd appends the  *)
(* end of the stream and the client receives; in mode "in" the client      *)
(* sends and the response handler reads.  One request thread does all of   *)
(* it: ap_pass_brigade and ap_get_brigade call the filter and wait.        *)
(*                                                                         *)
(* The Perl code of the filter is assumed to follow the streaming API: it  *)
(* prints bytes it has read, in their order, reads until read returns 0,   *)
(* returns DECLINED only while it keeps nothing back, and on the end of    *)
(* the stream prints what it kept.  It may die anywhere.                   *)
(***************************************************************************)
EXTENDS Naturals, Sequences, SequencesExt

CONSTANTS
    EOS, FLUSH, None,
    BufSize,    \* sizeof(wb->outbuf)
    Bytes,      \* bound: how many bytes are printed, or sent by the client
    MaxFlush,   \* bound: calls of $r->rflush
    Wanted,     \* the lengths given to $f->read and $r->read
    HeaderLen   \* how many of the bytes are CGI headers, if they are parsed

\* A bucket is data, or one of the two marks, which are no data and no bytes.
Bucket == Seq(Nat) \cup {EOS, FLUSH}

\* The types of the structures below: one call that the response handler still
\* has to make, and an invocation of the filter.
ItemType ==
    [op : {"pass", "copy", "flush", "direct", "flushed"}, d : Seq(Nat),
     bb : Seq(Bucket), fl : BOOLEAN, tol : BOOLEAN]
InvType ==
    [bb : Seq(Bucket), got : BOOLEAN, read : BOOLEAN, left : Seq(Nat),
     seen_eos : BOOLEAN, flush : BOOLEAN, wb : Seq(Nat), bb_out : Seq(Bucket),
     dry : BOOLEAN, room : Nat]

FilterConstants ==
    /\ BufSize \in Nat \ {0} /\ Bytes \in Nat /\ MaxFlush \in Nat
    /\ Wanted \subseteq Nat \ {0}
    /\ HeaderLen \in Nat
    /\ EOS # FLUSH
    /\ \A mark \in {EOS, FLUSH} : mark \notin Nat /\ mark \notin Seq(Nat)
    /\ None \notin InvType

ASSUME FilterAssumption == FilterConstants

VARIABLES
    mode,       \* "out" or "in"
    resp,       \* the response handler and its wbucket, or its $r->read
    chained,    \* the filter is in the chain
    sent_eos,   \* ctx->sent_eos of the filter
    held,       \* bytes that the filter's Perl code has read but not printed
    inv,        \* the modperl_filter_t of a running invocation, or None
    net,        \* mode "in": the client's bytes are exhausted up to here
    reset,      \* the client has reset the connection
    out,        \* what has come out: bytes, EOS and FLUSH
    flushed,    \* bytes printed when $r->rflush last returned
    lost        \* something failed, and bytes may be missing

fvars == <<mode, resp, chained, sent_eos, held, inv, net, reset, out,
           flushed, lost>>

IsData(b) == b \notin {EOS, FLUSH}
Payload(bb) == FlattenSeq([i \in 1..Len(bb) |->
                               IF IsData(bb[i]) THEN bb[i] ELSE <<>>])
Flat(bb) == FlattenSeq([i \in 1..Len(bb) |->
                            IF IsData(bb[i]) THEN bb[i] ELSE <<bb[i]>>])
Numbers(a, b) == [i \in 1..(b - a) |-> a + i]
BytesOf(s) == FlattenSeq([i \in 1..Len(s) |->
                              IF IsData(s[i]) THEN <<s[i]>> ELSE <<>>])
OutBytes == BytesOf(out)

\* The response handler: pending is what remains of the call it makes.
\* parse: wb->header_parse; status: what modperl_cgi_header_parse said.
FilterInit ==
    /\ mode \in {"out", "in"}
    /\ \E parse \in IF mode = "out" THEN BOOLEAN ELSE {FALSE} :
         resp = [at |-> "handler", buf |-> <<>>, pending |-> <<>>, n |-> 0,
                 parse |-> parse, cgi |-> parse, status |-> "OK", want |-> 0,
                 flushes |-> 0, err |-> FALSE]
    /\ chained \in BOOLEAN
    /\ sent_eos = FALSE /\ held = <<>> /\ inv = None /\ net = 0
    /\ reset = FALSE /\ out = <<>> /\ flushed = 0 /\ lost = FALSE

-----------------------------------------------------------------------------
(* The write buffer.  wbucket_write, _flush and _pass are unrolled into    *)
(* the items of resp.pending, because each pass may run the filter.        *)

Item(op) == [op |-> op, d |-> <<>>, bb |-> <<>>, fl |-> FALSE, tol |-> FALSE]
Pass(d) == [Item("pass") EXCEPT !.d = d]
Copy(d) == [Item("copy") EXCEPT !.d = d]
Flush(fl, tol) == [Item("flush") EXCEPT !.fl = fl, !.tol = tol]
Direct(bb) == [Item("direct") EXCEPT !.bb = bb]
Flushed == Item("flushed")

\* modperl_wbucket_write.
WbucketWrite(buf, d) ==
    (IF Len(d) + Len(buf) > BufSize THEN <<Flush(FALSE, FALSE)>> ELSE <<>>)
    \o (IF Len(d) >= BufSize THEN <<Pass(d)>> ELSE <<Copy(d)>>)

Busy == resp.pending # <<>> \/ inv # None
InHandler == resp.at = "handler" /\ ~Busy

\* $r->print, ->puts, ->printf, ->write and a write to STDOUT; with $| set
\* the tied methods flush.
WritePrint(len, autoflush) ==
    /\ mode = "out" /\ InHandler
    /\ resp.n + len <= Bytes
    /\ autoflush => resp.flushes < MaxFlush
    /\ resp' = [resp EXCEPT
                !.n = @ + len,
                !.flushes = IF autoflush THEN @ + 1 ELSE @,
                !.pending = WbucketWrite(resp.buf, Numbers(resp.n, resp.n + len))
                    \o IF autoflush THEN <<Flush(TRUE, FALSE)>> ELSE <<>>]
    /\ UNCHANGED <<mode, chained, sent_eos, held, inv, net, reset, out,
                   flushed, lost>>

\* $r->rflush: with a flush bucket; that the client is gone is no error.
Rflush ==
    /\ mode = "out" /\ InHandler
    /\ resp.flushes < MaxFlush
    /\ resp' = [resp EXCEPT !.flushes = @ + 1,
                            !.pending = <<Flush(TRUE, TRUE), Flushed>>]
    /\ UNCHANGED <<mode, chained, sent_eos, held, inv, net, reset, out,
                   flushed, lost>>

\* Perl flushes the :Apache2 layer of STDOUT (PerlIOApache_flush): what is
\* buffered goes out, without a flush bucket.
StdoutFlush ==
    /\ mode = "out" /\ InHandler
    /\ resp.flushes < MaxFlush
    /\ resp' = [resp EXCEPT !.flushes = @ + 1, !.pending = <<Flush(FALSE, TRUE)>>]
    /\ UNCHANGED <<mode, chained, sent_eos, held, inv, net, reset, out,
                   flushed, lost>>

\* $r->sendfile: flush what is buffered, then the file goes out by itself.  Left
\* out: a handler that does so before the headers it has to print are parsed.
Sendfile(len) ==
    /\ mode = "out" /\ InHandler
    /\ resp.n + len <= Bytes
    /\ ~resp.parse
    /\ resp' = [resp EXCEPT
                !.n = @ + len,
                !.pending =
                    (IF resp.buf = <<>> THEN <<>> ELSE <<Flush(TRUE, FALSE)>>)
                    \o <<Direct(<<Numbers(resp.n, resp.n + len)>>)>>]
    /\ UNCHANGED <<mode, chained, sent_eos, held, inv, net, reset, out,
                   flushed, lost>>

\* The handler returns, or dies; modperl_response_finish flushes, and httpd
\* ends the response with an EOS of its own (ap_finalize_request_protocol).
HandlerEnd ==
    /\ mode = "out" /\ InHandler
    /\ resp' = [resp EXCEPT !.at = "finish", !.pending = <<Flush(FALSE, FALSE)>>]
    /\ UNCHANGED <<mode, chained, sent_eos, held, inv, net, reset, out,
                   flushed, lost>>

Finalize ==
    /\ mode = "out" /\ resp.at = "finish" /\ ~Busy
    /\ resp' = [resp EXCEPT !.at = "done", !.pending = <<Direct(<<EOS>>)>>]
    /\ UNCHANGED <<mode, chained, sent_eos, held, inv, net, reset, out,
                   flushed, lost>>

-----------------------------------------------------------------------------
(* What one item of a call does, and how calls return.                     *)

\* A call of ap_pass_brigade or ap_get_brigade that failed: the method croaks,
\* except that tolerated resets (MP_RUN_CROAK_RESET_OK) are only logged.  Perl
\* code may catch the exception and go on.
Returned(rs, ok, tolerated) ==
    IF ok THEN [rs EXCEPT !.pending = Tail(@)]
    ELSE IF tolerated THEN [rs EXCEPT !.pending = Tail(@)]
    ELSE [rs EXCEPT !.pending = <<>>, !.err = TRUE]

NewInvocation(bb, room) ==
    [bb |-> bb, got |-> mode = "out", read |-> FALSE, left |-> <<>>,
     seen_eos |-> FALSE, flush |-> FALSE, wb |-> <<>>, bb_out |-> <<>>,
     dry |-> FALSE, room |-> room]

\* ap_pass_brigade to the next filter: ours, which is skipped once it has
\* sent EOS (modperl_output_filter_handler), or the client.
PassBrigade(rs, bb) ==
    IF chained /\ ~sent_eos
    THEN /\ inv' = NewInvocation(bb, 0)
         /\ resp' = rs
         /\ UNCHANGED out
    ELSE /\ out' = IF reset THEN out ELSE out \o Flat(bb)
         /\ resp' = Returned(rs, ~reset, Head(rs.pending).tol)
         /\ UNCHANGED inv

\* modperl_cgi_header_parse, once, on the first data that is passed: the
\* headers are found only if the data has all of them; a Location header
\* makes it a redirect, which has no body.
HeaderParse(d) ==
    LET body == SubSeq(d, HeaderLen + 1, Len(d)) IN
    \E status \in IF HeaderLen \in ToSet(d) THEN {"OK", "MOVED"} ELSE {"ERROR"} :
        LET rs == [resp EXCEPT !.buf = <<>>, !.parse = FALSE, !.status = status] IN
        IF status = "OK" /\ body # <<>>
        THEN /\ PassBrigade(rs, <<body>> \o IF Head(resp.pending).fl
                                            THEN <<FLUSH>> ELSE <<>>)
             /\ UNCHANGED lost
        ELSE /\ resp' = Returned(rs, TRUE, FALSE)
             /\ lost' = (lost \/ status # "OK")
             /\ UNCHANGED <<inv, out>>

\* modperl_wbucket_pass: the buffer counts as empty before anything can fail.
WbucketPass(d, fl) ==
    IF resp.parse THEN HeaderParse(d)
    ELSE /\ PassBrigade([resp EXCEPT !.buf = <<>>],
                        <<d>> \o IF fl THEN <<FLUSH>> ELSE <<>>)
         /\ UNCHANGED lost

\* The next item of the response handler's call.  "flush" is
\* modperl_wbucket_flush.
ResponseStep ==
    /\ mode = "out" /\ inv = None /\ resp.pending # <<>>
    /\ LET it == Head(resp.pending) IN
       \/ /\ it.op = "pass"
          /\ WbucketPass(it.d, it.fl)
          /\ UNCHANGED flushed
       \/ /\ it.op = "flush" /\ resp.buf # <<>>
          /\ WbucketPass(resp.buf, it.fl)
          /\ UNCHANGED flushed
       \/ /\ it.op = "flush" /\ resp.buf = <<>> /\ it.fl
          /\ PassBrigade(resp, <<FLUSH>>)
          /\ UNCHANGED <<lost, flushed>>
       \/ /\ it.op = "direct"
          /\ PassBrigade(resp, it.bb)
          /\ UNCHANGED <<lost, flushed>>
       \/ /\ \/ it.op = "flush" /\ resp.buf = <<>> /\ ~it.fl
             \/ it.op \in {"copy", "flushed"}
          /\ resp' = [resp EXCEPT !.pending = Tail(@), !.buf = @ \o it.d]
          /\ flushed' = IF it.op = "flushed" THEN resp.n ELSE flushed
          /\ UNCHANGED <<inv, out, lost>>
    /\ UNCHANGED <<mode, chained, sent_eos, held, net, reset>>

-----------------------------------------------------------------------------
(* Reading the request body: modperl_request_read.                         *)

\* What the network has for ap_get_brigade: up to n of the client's bytes in
\* one or two buckets, and EOS with the last of them or in a brigade of its own.
FromNet(n) ==
    LET rest == Bytes - net
        data(k) == {<<Numbers(net, net + k)>>}
                   \cup {<<Numbers(net, net + j), Numbers(net + j, net + k)>> :
                           j \in 1..(k - 1)}
    IN  IF rest = 0 THEN {<<<<EOS>>, 0>>}
        ELSE (UNION {{<<bb, k>> : bb \in data(k)} : k \in 1..(IF n < rest THEN n ELSE rest)})
             \cup IF rest <= n THEN {<<Append(bb, EOS), rest>> : bb \in data(rest)}
                  ELSE {}

\* The reader gets a brigade: an empty one is an error; what is more than it
\* wants is dropped; it goes on until it has enough or sees EOS.
ReaderGets(bb) ==
    LET all == Payload(bb)
        n == IF Len(all) < resp.want THEN Len(all) ELSE resp.want
        eos == bb # <<>> /\ Last(bb) = EOS
        more == n < resp.want /\ ~eos /\ bb # <<>>
    IN  /\ out' = out \o SubSeq(all, 1, n) \o IF eos THEN <<EOS>> ELSE <<>>
        /\ resp' = [resp EXCEPT !.want = @ - n,
                                !.pending = IF more THEN @ ELSE <<>>,
                                !.err = @ \/ bb = <<>>]

\* $r->read(buffer, len).
Read(len) ==
    /\ mode = "in" /\ InHandler
    /\ Len(out) < Bytes + 2
    /\ resp' = [resp EXCEPT !.want = len, !.pending = <<Direct(<<>>)>>]
    /\ UNCHANGED <<mode, chained, sent_eos, held, inv, net, reset, out,
                   flushed, lost>>

\* One ap_get_brigade of the loop.
GetBrigade ==
    /\ mode = "in" /\ inv = None /\ resp.pending # <<>>
    /\ IF chained /\ ~sent_eos
       THEN /\ inv' = NewInvocation(<<>>, resp.want)
            /\ UNCHANGED <<resp, net, out, lost>>
       ELSE /\ \/ /\ ~reset
                  /\ \E g \in FromNet(resp.want) :
                       /\ ReaderGets(g[1])
                       /\ net' = net + g[2]
                  /\ UNCHANGED lost
               \/ /\ reset
                  /\ resp' = Returned(resp, FALSE, FALSE)
                  /\ UNCHANGED <<net, out, lost>>
            /\ UNCHANGED inv
    /\ UNCHANGED <<mode, chained, sent_eos, held, reset, flushed>>

ReaderEnd ==
    /\ mode = "in" /\ InHandler
    /\ resp' = [resp EXCEPT !.at = "done"]
    /\ UNCHANGED <<mode, chained, sent_eos, held, inv, net, reset, out,
                   flushed, lost>>

-----------------------------------------------------------------------------
(* The filter's invocation.                                                *)

\* Mutant: a bucket that is larger than what is wanted loses its rest.
FilterReadTruncates(v, w) ==
    LET stop == Len(v.bb) + 1
        all == v.left \o Payload(v.bb) IN
    [got |-> SubSeq(all, 1, IF Len(all) < w THEN Len(all) ELSE w),
     v |-> [v EXCEPT !.left = <<>>, !.bb = <<>>,
                     !.seen_eos = @ \/ EOS \in ToSet(v.bb),
                     !.flush = @ \/ FLUSH \in ToSet(v.bb)]]

\* modperl_filter_read and get_bucket: the bytes returned and what is left.
\* stop is the bucket at which the loop ends.
FilterRead(v, w) ==
    LET after(j) == SubSeq(v.bb, j + 1, Len(v.bb))
        upto(j) == v.left \o Payload(SubSeq(v.bb, 1, j))
        ends(j) == \/ j = Len(v.bb) + 1
                   \/ ~IsData(v.bb[j])
                   \/ Len(upto(j)) >= w
        stop == CHOOSE j \in 1..(Len(v.bb) + 1) :
                    ends(j) /\ \A i \in 1..(j - 1) : ~ends(i)
        res(got, left, bb) == [got |-> got, v |-> [v EXCEPT !.left = left, !.bb = bb]]
    IN  IF v.seen_eos THEN res(<<>>, v.left, v.bb)
        ELSE IF Len(v.left) >= w
        THEN res(SubSeq(v.left, 1, w), SubSeq(v.left, w + 1, Len(v.left)), v.bb)
        ELSE IF stop = Len(v.bb) + 1 THEN res(upto(stop - 1), <<>>, <<>>)
        ELSE IF IsData(v.bb[stop])
        THEN res(SubSeq(upto(stop), 1, w),
                 SubSeq(upto(stop), w + 1, Len(upto(stop))), after(stop))
        ELSE [got |-> upto(stop - 1),
              v |-> [v EXCEPT !.left = <<>>, !.bb = after(stop),
                              !.seen_eos = v.bb[stop] = EOS,
                              !.flush = @ \/ v.bb[stop] = FLUSH]]

\* $f->read(buffer, w).  An input filter fetches one brigade per invocation.
\* A flush bucket that stops an empty read is passed on at once, behind what
\* has been printed (modperl_input_filter_flush, modperl_output_filter_flush).
ReadStep(fetched, n, w) ==
    LET r == FilterRead([inv EXCEPT !.bb = fetched, !.got = TRUE], w)
        flushNow == r.v.flush /\ r.got = <<>>
        v == [r.v EXCEPT !.read = TRUE, !.dry = r.got = <<>>]
    IN  /\ flushNow /\ mode = "out" => ~reset
        /\ net' = net + n
        /\ held' = held \o r.got
        /\ inv' = IF ~flushNow THEN v
                  ELSE [v EXCEPT !.flush = FALSE, !.wb = <<>>,
                                 !.bb_out = Append(@, FLUSH)]
        /\ out' = IF flushNow /\ mode = "out" THEN out \o inv.wb \o <<FLUSH>>
                  ELSE out

FRead(w) ==
    /\ inv # None
    /\ IF inv.got THEN ReadStep(inv.bb, 0, w)
       ELSE /\ ~reset
            /\ \E g \in FromNet(inv.room) : ReadStep(g[1], g[2], w)
    /\ UNCHANGED <<mode, resp, chained, sent_eos, reset, flushed, lost>>

\* $f->print of the first k bytes that are held: modperl_output_filter_write,
\* with the filter's own wbucket, and modperl_input_filter_write.
FPrint(k) ==
    LET d == SubSeq(held, 1, k)
        over == Len(d) + Len(inv.wb) > BufSize
        direct == Len(d) >= BufSize
        passed == (IF over THEN inv.wb ELSE <<>>) \o (IF direct THEN d ELSE <<>>)
    IN  /\ inv # None
        /\ k <= Len(held)
        /\ held' = SubSeq(held, k + 1, Len(held))
        /\ IF mode = "out"
           THEN /\ passed # <<>> => ~reset
                /\ out' = out \o passed
                /\ inv' = [inv EXCEPT !.wb = IF direct THEN <<>>
                                             ELSE IF over THEN d ELSE @ \o d]
           ELSE /\ k <= inv.room
                /\ inv' = [inv EXCEPT !.bb_out = Append(@, d), !.room = @ - k]
                /\ UNCHANGED out
        /\ UNCHANGED <<mode, resp, chained, sent_eos, net, reset, flushed, lost>>

\* $f->remove.
FRemove ==
    /\ inv # None /\ chained
    /\ chained' = FALSE
    /\ UNCHANGED <<mode, resp, sent_eos, held, inv, net, reset, out, flushed,
                   lost>>

\* Mutant: EOS is sent before what is still buffered.
FinishEosFirst(ok) ==
    LET eos == IF inv.seen_eos THEN <<EOS>> ELSE <<>> IN
    /\ sent_eos' = (sent_eos \/ inv.seen_eos)
    /\ IF mode = "out"
       THEN /\ out' = IF reset THEN out ELSE out \o eos \o inv.wb
            /\ resp' = Returned(resp, ok, FALSE)
       ELSE IF ok THEN ReaderGets(eos \o inv.bb_out)
            ELSE resp' = Returned(resp, FALSE, FALSE) /\ UNCHANGED out

\* Mutant: what is in the filter's buffer waits for the next invocation.
FinishKeepsBuffer(ok) ==
    LET eos == IF inv.seen_eos THEN inv.wb \o <<EOS>> ELSE <<>> IN
    /\ sent_eos' = (sent_eos \/ inv.seen_eos)
    /\ IF mode = "out"
       THEN /\ out' = IF reset THEN out ELSE out \o eos
            /\ resp' = Returned(resp, ok, FALSE)
       ELSE IF ok THEN ReaderGets(inv.bb_out \o eos)
            ELSE resp' = Returned(resp, FALSE, FALSE) /\ UNCHANGED out

\* Mutant: EOS is propagated only behind data.
FinishSwallowsEos(ok) ==
    /\ sent_eos' = (sent_eos \/ inv.seen_eos)
    /\ IF mode = "out"
       THEN /\ out' = IF reset \/ inv.wb = <<>> THEN out ELSE out \o inv.wb \o <<EOS>>
            /\ resp' = Returned(resp, ok, FALSE)
       ELSE IF ok THEN ReaderGets(inv.bb_out)
            ELSE resp' = Returned(resp, FALSE, FALSE) /\ UNCHANGED out

\* send_output_flush and send_output_eos, and those for input: what follows the
\* data at the end of an invocation.
SendFlush(v) == IF v.flush THEN <<FLUSH>> ELSE <<>>
SendEos(v) == IF v.seen_eos THEN <<EOS>> ELSE <<>>

\* The end of modperl_run_filter after the handler returned OK or died: what
\* is buffered goes out, then a flush bucket, then EOS if it was seen.  An
\* output filter that meets a reset connection here only logs it.
Finish(ok) ==
    LET tail == inv.wb \o SendFlush(inv)
    IN  IF mode = "out"
        THEN /\ out' = IF reset THEN out ELSE out \o tail \o SendEos(inv)
             /\ sent_eos' = (sent_eos \/ (inv.seen_eos /\ (~reset \/ tail = <<>>)))
             /\ resp' = Returned(resp, ok, FALSE)
        ELSE /\ sent_eos' = (sent_eos \/ inv.seen_eos)
             /\ IF ok THEN ReaderGets(inv.bb_out \o SendFlush(inv) \o SendEos(inv))
                ELSE resp' = Returned(resp, FALSE, FALSE) /\ UNCHANGED out

FReturn ==
    /\ inv # None
    /\ inv.dry
    /\ (inv.seen_eos \/ ~chained) => held = <<>>
    /\ Finish(TRUE)
    /\ inv' = None
    /\ UNCHANGED <<mode, chained, held, net, reset, flushed, lost>>

\* The Perl code dies, or a method croaks because the client is gone.
FDie ==
    /\ inv # None
    /\ Finish(FALSE)
    /\ held' = <<>>
    /\ lost' = TRUE
    /\ inv' = None
    /\ UNCHANGED <<mode, chained, net, reset, flushed>>

\* The handler returns DECLINED: what it printed goes out, then the brigade is
\* passed through.
FDecline ==
    /\ inv # None /\ ~inv.read /\ held = <<>> /\ inv.bb_out = <<>>
    /\ IF mode = "out"
       THEN /\ out' = IF reset THEN out ELSE out \o inv.wb \o Flat(inv.bb)
            /\ resp' = Returned(resp, ~reset, Head(resp.pending).tol)
            /\ UNCHANGED net
       ELSE IF reset
            THEN /\ resp' = Returned(resp, FALSE, FALSE)
                 /\ UNCHANGED <<out, net>>
            ELSE \E g \in FromNet(resp.want) :
                    ReaderGets(g[1]) /\ net' = net + g[2]
    /\ inv' = None
    /\ UNCHANGED <<mode, chained, sent_eos, held, reset, flushed, lost>>

\* An input filter that has read may not return DECLINED: modperl_croak.
FDeclineRead ==
    /\ inv # None /\ mode = "in" /\ inv.read
    /\ resp' = Returned(resp, FALSE, FALSE)
    /\ held' = <<>>
    /\ lost' = TRUE
    /\ inv' = None
    /\ UNCHANGED <<mode, chained, sent_eos, net, reset, out, flushed>>

ClientReset ==
    /\ ~reset
    /\ reset' = TRUE
    /\ lost' = TRUE
    /\ UNCHANGED <<mode, resp, chained, sent_eos, held, inv, net, out, flushed>>

Done == resp.at = "done" /\ ~Busy /\ UNCHANGED fvars

RequestThread ==
    \/ \E len \in 1..Bytes : \/ \E autoflush \in BOOLEAN : WritePrint(len, autoflush)
                             \/ Sendfile(len)
    \/ Rflush \/ StdoutFlush \/ HandlerEnd \/ Finalize \/ ResponseStep
    \/ \E w \in Wanted : Read(w) \/ FRead(w)
    \/ GetBrigade \/ ReaderEnd
    \/ \E k \in 1..Bytes : FPrint(k)
    \/ FRemove \/ FReturn \/ FDie \/ FDecline \/ FDeclineRead

FilterNext == RequestThread \/ ClientReset \/ Done

\* The request thread goes on; that it does not stay in Perl code for ever is
\* up to that code.
FilterSpec == FilterInit /\ [][FilterNext]_fvars /\ WF_fvars(RequestThread)

-----------------------------------------------------------------------------
(* Properties.                                                             *)

RespType ==
    [at : {"handler", "finish", "done"}, buf : Seq(Nat), pending : Seq(ItemType),
     n : Nat, parse : BOOLEAN, cgi : BOOLEAN, status : {"OK", "MOVED", "ERROR"},
     want : Nat, flushes : Nat, err : BOOLEAN]

\* Types of the variables.
FilterTypeOK ==
    /\ mode \in {"out", "in"}
    /\ resp \in RespType /\ resp.n \in 0..Bytes /\ net \in 0..Bytes
    /\ sent_eos \in BOOLEAN /\ chained \in BOOLEAN /\ lost \in BOOLEAN
    /\ reset \in BOOLEAN
    /\ held \in Seq(Nat) /\ inv \in InvType \cup {None}
    /\ out \in Seq(Nat \cup {EOS, FLUSH}) /\ flushed \in Nat

\* Wherever a byte is, it is there once and in its place: what came out, then
\* the filter's write buffer, what its Perl code holds, what it has not read
\* yet, what the response handler's calls still have to pass and its buffer
\* make up the stream without its headers, unless something failed; and neither
\* write buffer holds more than sizeof(wb->outbuf).
Conserved ==
    LET skip == IF resp.cgi /\ ~resp.parse THEN HeaderLen ELSE 0
        filter == IF inv = None THEN held
                  ELSE inv.wb \o Payload(inv.bb_out) \o held \o inv.left
                       \o Payload(inv.bb)
        item(it) == it.d \o Payload(it.bb)
        todo == IF resp.pending = <<>> THEN <<>>
                ELSE IF inv # None THEN Tail(resp.pending) ELSE resp.pending
        calls == FlattenSeq([i \in 1..Len(todo) |-> item(todo[i])])
    IN
    /\ Len(resp.buf) <= BufSize /\ (inv = None \/ Len(inv.wb) <= BufSize)
    /\ ~lost /\ ~resp.err =>
          IF mode = "in" THEN OutBytes \o filter = Numbers(0, net)
          ELSE LET split == IF todo # <<>> /\ todo[1].op \in {"flush", "copy"}
                            THEN resp.buf \o calls ELSE calls \o resp.buf IN
               OutBytes \o filter \o split = Numbers(skip, resp.n)

\* When $r->rflush has returned, what was printed before it has reached the
\* client or is held by the filter's own code: no buffer keeps it.
FlushDelivers ==
    ~lost /\ ~resp.err /\ ~Busy =>
        LET skip == IF resp.cgi THEN HeaderLen ELSE 0 IN
        Len(OutBytes) + Len(held) + skip >= flushed

\* The filter implements the stream that Stream specifies: what comes out
\* behind EOS does not count as received.
StreamOf == INSTANCE Stream WITH
    sent <- IF mode = "in" THEN net
            ELSE IF ~resp.cgi THEN resp.n
            ELSE IF resp.n > HeaderLen THEN resp.n - HeaderLen ELSE 0,
    received <- LET h == IF resp.cgi THEN HeaderLen ELSE 0
                    eos == SelectInSeq(out, LAMBDA b : b = EOS)
                    upto == IF eos = 0 THEN out ELSE SubSeq(out, 1, eos - 1)
                    body == SelectSeq(SelectSeq(upto, IsData),
                                      LAMBDA b : b > h) IN
                [i \in 1..Len(body) |-> body[i] - h],
    closed <- EOS \in ToSet(out),
    broken <- lost \/ resp.err

\* modperl_filter.c as a whole is a Stream: through the write buffer and the
\* filter every byte comes out once and in order, and the end of the stream
\* after all of them, whatever the sizes of buckets, buffers and reads are.
ImplementsStream == StreamOf!StreamSpec

\* A response handler that has returned ends in EOS at the client, unless the
\* connection was reset.
EosEventually == resp.at = "finish" ~> (EOS \in ToSet(out) \/ lost \/ resp.err)
=============================================================================
