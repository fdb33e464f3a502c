---------------------------- MODULE MCLifecycle ----------------------------
(* One virtual host, for TLC. *)
EXTENDS Lifecycle

MCVhosts == <<"v1">>

=============================================================================
