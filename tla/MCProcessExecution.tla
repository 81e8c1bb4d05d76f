------------------------- MODULE MCProcessExecution -------------------------
(***************************************************************************)
(* Instances of ProcessExecution for TLC.                                  *)
(***************************************************************************)
EXTENDS ProcessExecution

MCFunctions == {"main", "a", "b", "c"}
MCMain == "main"
MCNumInputs == [f \in MCFunctions |-> 1]
MCNumOutputs == [f \in MCFunctions |-> 1]
MCFinalizes == {"b"}
MCFinalizeArity == [f \in MCFunctions |-> 1]

\* main calls a then b; a calls c.  Only the first call of main makes a
\* nested call, so the callee window of every transition is its calls.
FlatCalls == [f \in MCFunctions |->
                CASE f = "main" -> <<"a", "b">>
                  [] f = "a"    -> <<"c">>
                  [] OTHER      -> <<>>]

\* main calls c then a; a calls b.  The second call of main makes a
\* nested call, so its transition is not directly before main's.
NestedCalls == [f \in MCFunctions |->
                  CASE f = "main" -> <<"c", "a">>
                    [] f = "a"    -> <<"b">>
                    [] OTHER      -> <<>>]
=============================================================================
