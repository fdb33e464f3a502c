----------------------------- MODULE MCResolve -----------------------------
(* An instance of Resolve: a plain package, one that inherits from it, one  *)
(* with a method handler and an object, one that does not compile, and      *)
(* filters at both levels, with and without an init handler.                *)
EXTENDS Resolve

Pkg == [loads |-> TRUE, isa |-> NULL, sub |-> TRUE, method |-> FALSE,
        object |-> FALSE, attrs |-> {}, init |-> "none"]

MCCode == [
    Plain |-> Pkg,
    Child |-> [Pkg EXCEPT !.isa = "Plain", !.sub = FALSE],
    Meth |-> [Pkg EXCEPT !.method = TRUE, !.object = TRUE],
    Bad |-> [Pkg EXCEPT !.loads = FALSE],
    Empty |-> [Pkg EXCEPT !.sub = FALSE],
    Conn |-> [Pkg EXCEPT !.attrs = {"conn", "hasinit"}, !.init = "good"],
    Req |-> [Pkg EXCEPT !.attrs = {"req"}],
    BadInit |-> [Pkg EXCEPT !.attrs = {"req", "hasinit"}, !.init = "bad"]]

Name(kind, p) == [kind |-> kind, pkg |-> p]

MCNames ==
    {<<Name("class", p), "none">> : p \in {"Plain", "Child", "Meth", "Empty"}}
    \cup {<<Name("class", "Bad"), "none">>, <<Name("method", "Child"), "none">>,
          <<Name("method", "Plain"), "+">>, <<Name("func", "Plain"), "none">>,
          <<Name("object", "Meth"), "none">>, <<Name("anon", NULL), "none">>,
          <<Name("class", "BadInit"), "none">>, <<Name("object", "Plain"), "+">>}
MCFilters ==
    {<<Name("class", p), "none">> : p \in {"Conn", "Req", "BadInit"}}
    \cup {<<Name("class", p), "-">> : p \in {"Conn", "BadInit"}}
    \cup {<<Name("anon", NULL), "none">>, <<Name("httpd", "protocol"), "none">>,
          <<Name("httpd", "resource"), "none">>}
MCPreloads == {{}, {"Plain", "Meth"}}
MCClones == [main |-> {"m1", "m2"}, vhost |-> {"v1"}]
=============================================================================
