------------------------- MODULE MCKernelRegistry -------------------------
(***************************************************************************)
(* Two targets with one kernel each, of the same name and number (as every *)
(* accelerator target repeats the kernels of the C model), three slots a   *)
(* table, three kernels an application may add, one of them under the      *)
(* number of the built-in one, and three modules for two entries.          *)
(***************************************************************************)
EXTENDS KernelRegistry

MCOrder    == <<"c_model", "opencl">>
MCBaseOf   == [t \in {"c_model", "opencl"} |-> <<"box">>]
MCTargetOf == [n \in {"xyz", "copy", "box2"} |->
                 IF n = "box2" THEN "opencl" ELSE "c_model"]
MCEnumOf   == [n \in {"box", "xyz", "copy", "box2"} |->
                 CASE n = "xyz" -> "E1" [] n = "copy" -> "E1" [] OTHER -> "E0"]
===========================================================================
