------------------------------ MODULE PccFacts ------------------------------
(***************************************************************************)
(* The fact algebra of Cranelift's proof-carrying-code checker (the       *)
(* FactContext of ir/pcc.rs).  That file is not part of this repository's *)
(* sources, so every operator here is written from spec.md sections 3 and *)
(* 4.1: facts, the arithmetic on them, subsumption, and the load/store     *)
(* bridge between a pointer fact and the accessed memory region.          *)
(*                                                                         *)
(* Widths are scaled: XLen bits stand for a 64-bit register, XLen \div 2   *)
(* for 32 bits, and so on, so that every wraparound of the real machine    *)
(* happens at values TLC can enumerate.  Byte footprints of accesses keep  *)
(* their real sizes.                                                       *)
(***************************************************************************)
EXTENDS Integers

CONSTANTS
  XLen,        \* bits standing for a 64-bit register (a multiple of 8)
  Regions,     \* memory types (regions) named by Mem facts
  RegionBase,  \* [Regions -> address]: where each region lives
  RegionSize,  \* [Regions -> bytes]: its declared extent
  ElemFact     \* [Regions -> fact]: what every value stored in it satisfies

ASSUME XLen \in {8, 16} /\ XLen % 8 = 0

W64 == XLen
W32 == XLen \div 2
W16 == XLen \div 4
W8  == XLen \div 8

\* 2^w - 1: the largest value of a w-bit register (max_value_for_width).
MaxVal(w) == 2^w - 1

(***************************************************************************)
(* Facts.  Every fact is a record of one shape so that TLC can compare     *)
(* them: a Range (Constant and MaxRange are special ranges), a Mem fact    *)
(* (a pointer to region ty at an offset in min..max, the spec's            *)
(* Offset(Mem, delta)), or NoFact, the absent Option.                      *)
(***************************************************************************)
Range(w, lo, hi) == [kind |-> "range", bw |-> w, ty |-> "int", min |-> lo, max |-> hi]
MemFact(r, lo, hi) == [kind |-> "mem", bw |-> W64, ty |-> r, min |-> lo, max |-> hi]
NoFact == [kind |-> "none", bw |-> 0, ty |-> "int", min |-> 0, max |-> 0]

Constant(w, v) == Range(w, v, v)
MaxRange(w) == Range(w, 0, MaxVal(w))

\* Vreg types: a width, or NoType for a type with no inferable fact.
NoType == 0

\* Fact::infer_from_type: integer types get the maximal range of their width.
InferFromType(t) == IF t = NoType THEN NoFact ELSE MaxRange(t)

\* Fact::propagates: maximal ranges are not worth deriving onward.
Propagates(f) ==
  \/ f.kind = "mem"
  \/ f.kind = "range" /\ f /= MaxRange(f.bw)

\* Fact::as_const(w): the value of a constant fact of exactly width w, else -1.
AsConst(f, w) ==
  IF f.kind = "range" /\ f.bw = w /\ f.min = f.max THEN f.min ELSE -1

(***************************************************************************)
(* Reference semantics: the concrete values a fact admits.  A Mem fact     *)
(* admits the addresses RegionBase + offset, wrapped to the register.      *)
(***************************************************************************)
Holds(f, v) ==
  CASE f.kind = "none"  -> TRUE
    [] f.kind = "range" -> f.min <= v /\ v <= f.max
    [] f.kind = "mem"   -> LET off == (v - RegionBase[f.ty]) % 2^W64
                           IN f.min <= off /\ off <= f.max

\* A fact as the Fact type allows it: a non-empty range within its width.
WellFormed(f) ==
  CASE f.kind = "none"  -> TRUE
    [] f.kind = "range" -> 0 <= f.min /\ f.min <= f.max /\ f.max <= MaxVal(f.bw)
    [] f.kind = "mem"   -> f.ty \in Regions /\ 0 <= f.min /\ f.min <= f.max
                           /\ f.max <= MaxVal(W64)
    [] OTHER -> FALSE

\* FactContext::subsumes: every value admitted by a is admitted by b.
Subsumes(a, b) ==
  \/ a = b
  \/ /\ a.kind = "range" /\ b.kind = "range"
     /\ b.min <= a.min /\ a.max <= b.max
  \/ /\ a.kind = "mem" /\ b.kind = "mem" /\ a.ty = b.ty
     /\ b.min <= a.min /\ a.max <= b.max

\* FactContext::subsumes_fact_optionals: an absent stated fact is no obligation.
SubsumesFactOptionals(a, b) ==
  b = NoFact \/ (a /= NoFact /\ Subsumes(a, b))

(***************************************************************************)
(* Arithmetic.  Each operator is sound for w-bit wraparound: when it       *)
(* cannot bound the result it answers MaxRange or NoFact ("no derivation").*)
(***************************************************************************)
\* Range operands narrower than the operation.
Fits(f, w) == f.kind = "range" /\ f.max <= MaxVal(w)

\* FactContext::add(a, b, w).
Add(a, b, w) ==
  CASE a.kind = "range" /\ b.kind = "range" ->
         IF Fits(a, w) /\ Fits(b, w) /\ a.max + b.max <= MaxVal(w)
         THEN Range(w, a.min + b.min, a.max + b.max)
         ELSE MaxRange(w)
    [] a.kind = "mem" /\ b.kind = "range" /\ w = W64 /\ a.max + b.max <= MaxVal(W64) ->
         MemFact(a.ty, a.min + b.min, a.max + b.max)
    [] a.kind = "range" /\ b.kind = "mem" /\ w = W64 /\ a.max + b.max <= MaxVal(W64) ->
         MemFact(b.ty, a.min + b.min, a.max + b.max)
    [] OTHER -> NoFact

\* FactContext::offset(a, w, delta) for a signed delta.
Offset(a, w, d) ==
  CASE a.kind = "range" /\ Fits(a, w) /\ a.min + d >= 0 /\ a.max + d <= MaxVal(w) ->
         Range(w, a.min + d, a.max + d)
    [] a.kind = "mem" /\ w = W64 /\ a.min + d >= 0 /\ a.max + d <= MaxVal(W64) ->
         MemFact(a.ty, a.min + d, a.max + d)
    [] OTHER -> NoFact

\* FactContext::scale(a, w, k): multiplication by an element size.
Scale(a, w, k) ==
  IF Fits(a, w) /\ a.max * k <= MaxVal(w)
  THEN Range(w, a.min * k, a.max * k)
  ELSE NoFact

\* FactContext::shl(a, w, s) is scaling by 2^s.
Shl(a, w, s) == Scale(a, w, 2^s)

\* FactContext::uextend: the low `from` bits, zero-extended to `to`.
UExtend(a, from, to) ==
  CASE a.kind = "range" /\ a.max <= MaxVal(from) -> Range(to, a.min, a.max)
    [] a.kind = "range" -> Range(to, 0, MaxVal(from))
    [] OTHER -> NoFact

\* FactContext::sextend: only when the sign bit of `from` is known clear.
SExtend(a, from, to) ==
  IF a.kind = "range" /\ a.max < 2^(from - 1) THEN UExtend(a, from, to) ELSE NoFact

(***************************************************************************)
(* The load/store bridge.  Access types and their byte footprints.        *)
(***************************************************************************)
AccessTypes == {"I8", "I16", "I32", "I64", "F32", "F64", "I8X16"}
TyBytes(t) ==
  CASE t = "I8" -> 1 [] t = "I16" -> 2 [] t \in {"I32", "F32"} -> 4
    [] t \in {"I64", "F64"} -> 8 [] t = "I8X16" -> 16
TyBits(t) ==
  CASE t = "I8" -> W8 [] t = "I16" -> W16 [] t \in {"I32", "F32"} -> W32
    [] OTHER -> W64

\* The outcome of a check: "ok" or a PccError, with the fact it yields.
Ok(f) == [err |-> "ok", fact |-> f]
Err(e) == [err |-> e, fact |-> NoFact]

InBoundsFact(a, t) ==
  a.kind = "mem" /\ a.min >= 0 /\ a.max + TyBytes(t) <= RegionSize[a.ty]

\* FactContext::load: the fact of a value read through address fact a.
Load(a, t) ==
  IF ~InBoundsFact(a, t) THEN Err("OutOfBounds")
  ELSE IF ElemFact[a.ty] /= NoFact THEN Ok(ElemFact[a.ty])
  ELSE Ok(MaxRange(TyBits(t)))

\* FactContext::store: in bounds, and a supplied stored fact must meet the
\* region's element constraint.
Store(a, t, stored) ==
  CASE ~InBoundsFact(a, t) -> "OutOfBounds"
    [] stored /= NoFact /\ ElemFact[a.ty] /= NoFact /\ ~Subsumes(stored, ElemFact[a.ty]) ->
         "InvalidStoredFact"
    [] OTHER -> "ok"

=============================================================================
