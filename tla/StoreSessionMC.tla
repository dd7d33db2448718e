----------------------------- MODULE StoreSessionMC -----------------------------
(* A tracker with two tables, a module with one, and an extension that names  *)
(* the table of that module; frames with and without a second column.         *)
EXTENDS StoreSession, TLC

MCTablesOf == [tracking |-> <<"cells", "events">>, stats |-> <<"stats">>, extension |-> <<"stats">>]
MCModules == DOMAIN MCTablesOf
MCColumns == {{"x"}, {"x", "y"}}
SessionSymmetry == Permutations(Procs) \cup Permutations(Configs)
=============================================================================
