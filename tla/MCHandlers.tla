----------------------------- MODULE MCHandlers -----------------------------
(* Handler lists on small instances.                                       *)
EXTENDS Handlers, TLC

\* The behaviour does not depend on which handler or request is which.
Symmetry == Permutations(Handler) \cup Permutations(Requests)

\* One phase of each type and run mode that differ.
MCKind == [ph \in Phases |->
              CASE ph = "PostConfig" -> "files"
                [] ph = "ChildInit" -> "process"
                [] ph = "PostReadRequest" -> "srv"
                [] ph \in {"Fixup", "Response"} -> "dir"]
MCMode == [ph \in Phases |->
              CASE ph = "Response" -> "first"
                [] ph = "ChildInit" -> "void"
                [] OTHER -> "all"]

=============================================================================
