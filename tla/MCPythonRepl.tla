----------------------------- MODULE MCPythonRepl -----------------------------
(* Instances of PythonRepl for TLC.  Owners, operations and closers are model *)
(* values given in the configuration.                                         *)
EXTENDS PythonRepl, TLC

Symmetry == Permutations(Owners) \cup Permutations(Ops)
===============================================================================
