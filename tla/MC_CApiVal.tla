----------------------------- MODULE MC_CApiVal -----------------------------
(***************************************************************************)
(* Model-checking instance of CApiVal: two host objects, two values of    *)
(* each C API, one function of store 1 at index 0, one nested RootScope. *)
(***************************************************************************)
EXTENDS CApiVal, TLC

CONSTANTS o1, o2, s1, s2, w1, w2, f1

MC_Objects == {o1, o2}
MC_Slots == {s1, s2}
MC_WSlots == {w1, w2}
MC_Funcs == {f1}
MC_FuncBits == f1 :> <<1, 0>>
=============================================================================
