----------------------------- MODULE MCRequest -----------------------------
(* Locations for TLC: a script with the default options, one without %ENV  *)
(* and global request, a modperl handler with and one without both.        *)
EXTENDS Request, TLC

SubsSymmetry == Permutations(Subs)

Location(h, opt, e) == [handler |-> h, setup |-> opt, global |-> opt, setenv |-> e]

MCConfs ==
    {Location("perl-script", "unset", TRUE), Location("perl-script", "off", FALSE),
     Location("modperl", "on", TRUE), Location("modperl", "unset", FALSE)}

\* The code of handlers takes the CGI variable out.
MCWrites == {<<"cgi", NULL>>}

=============================================================================
