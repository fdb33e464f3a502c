----------------------------- MODULE MCModules -----------------------------
(* Custom directives on small instances.                                   *)
EXTENDS Modules

\* A directive that takes an argument, by default, and one that is refused.
MCCmds == {[name |-> "MyParam", how |-> NULL], [name |-> "MyParam", how |-> "TAKE9"]}
=============================================================================
