----------------------------- MODULE PccAArch64 -----------------------------
(***************************************************************************)
(* The AArch64 proof-carrying-code checker, cranelift/codegen/src/isa/     *)
(* aarch64/pcc.rs: `check` run once per lowered instruction, in program    *)
(* order, over the per-vreg fact store of the VCode.                      *)
(*                                                                         *)
(* The function being checked is not fixed: each step appends one more     *)
(* instruction, of any shape the checker knows, over the vregs defined so  *)
(* far (single assignment, definitions before uses), with any fact the    *)
(* upstream annotations may have attached to its destination.  The step   *)
(* runs the checker on it and, alongside, executes it on concrete values, *)
(* so that what the checker accepts can be compared with what the machine *)
(* does.  The first error ends the function, as the driver aborts it.     *)
(***************************************************************************)
EXTENDS PccFacts, Naturals
LOCAL INSTANCE Bitwise

CONSTANTS
  NumArgs,      \* vregs defined by the Args pseudo-instruction
  MaxInsts,     \* instructions after Args (bounds the function)
  ArgFacts,     \* facts the CLIF may state on an argument
  ArgVals,      \* concrete argument values tried when no fact constrains them
  DeclFacts,    \* facts upstream may attach to an instruction's destination
  Sizes,        \* operand sizes of ALU instructions (W32, W64)
  Imm12s,       \* imm12 operands of add
  Offsets,      \* signed offsets of Unscaled (simm9) and RegOffset amodes
  UImm12s,      \* pre-scaled unsigned offsets of UnsignedOffset amodes
  ShiftAmts,    \* LSL amounts
  Chunks,       \* 16-bit immediates of MOVZ/MOVN/MOVK (scaled to XLen/4 bits)
  ExtendOps,    \* extend modes used by extended-register operands and amodes
  AModeKinds,   \* addressing modes generated
  LoadOps,      \* integer loads generated
  LoadVals,     \* concrete values memory may hold
  OtherTypes,   \* vreg types defined by instructions the checker does not know
  AcquireDecl,  \* may upstream state a fact on a load-acquire's destination?
  MovKOnZero    \* TRUE: MOVK only writes a zero chunk of a value of its own
                \* width, as in the MOVZ+MOVK sequences lowering emits

ChunkBits == XLen \div 4
MaxRegs == NumArgs + MaxInsts
VRegs == 1 .. MaxRegs

VARIABLES
  fact,       \* VCode::vreg_fact: the fact of each vreg, or NoFact
  vty,        \* VCode::vreg_type: each vreg's width, or NoType
  val,        \* the concrete value each vreg holds when the code runs
  ndef,       \* vregs defined so far (1..ndef)
  ninst,      \* instructions checked after Args
  status,     \* "ok" while every instruction passed, else the PccError
  badAccess,  \* an accepted checked access touched memory outside every region
  badStore,   \* an accepted store broke a region's element constraint
  lastInst    \* the shape of the instruction checked last

vars == <<fact, vty, val, ndef, ninst, status, badAccess, badStore, lastInst>>

(***************************************************************************)
(* Concrete AArch64 semantics of the operands.                            *)
(***************************************************************************)
Wrap(v, w) == v % 2^w

\* Sign-extend the low `from` bits of v to a 64-bit register.
SignExt(v, from) ==
  IF Wrap(v, from) >= 2^(from - 1) THEN Wrap(v, from) + 2^W64 - 2^from ELSE Wrap(v, from)

ExtendVal(v, op) ==
  CASE op = "UXTB" -> Wrap(v, W8)  [] op = "UXTH" -> Wrap(v, W16)
    [] op = "UXTW" -> Wrap(v, W32) [] op = "SXTB" -> SignExt(v, W8)
    [] op = "SXTH" -> SignExt(v, W16) [] op = "SXTW" -> SignExt(v, W32)
    [] OTHER -> v   \* UXTX, SXTX

\* MOVN as the ISA defines it: the bitwise NOT of the shifted chunk within
\* the operand size (a 32-bit MOVN clears the upper half).
MovNValue(c, s, size) == MaxVal(size) - c * 2^((XLen \div 4) * s)

InRegion(a, n, r) == RegionBase[r] <= a /\ a + n <= RegionBase[r] + RegionSize[r]
InSomeRegion(a, n) == \E r \in Regions : InRegion(a, n, r)

(***************************************************************************)
(* Helpers of pcc.rs.                                                      *)
(***************************************************************************)
\* get_fact_or_default: the vreg's fact, else the one inferred from its type.
GetFactOrDefault(r) ==
  IF fact[r] /= NoFact THEN Ok(fact[r])
  ELSE IF InferFromType(vty[r]) /= NoFact THEN Ok(InferFromType(vty[r]))
  ELSE Err("MissingFact")

\* has_fact
HasFact(r) == fact[r] /= NoFact

\* fail_if_missing
FailIfMissing(f) == IF f = NoFact THEN Err("UnsupportedFact") ELSE Ok(f)

\* Mutant of CheckSubsumes: a stated fact is accepted without comparison.
CheckSubsumesAny(derived, stated) == "ok"

\* check_subsumes: stated Mem facts are accepted unchecked for now.
CheckSubsumes(derived, stated) ==
  IF stated.kind = "mem" THEN "ok"
  ELSE IF Subsumes(derived, stated) THEN "ok" ELSE "UnsupportedFact"

\* Mutant of ExtendFact: SXTW derives the fact of a zero extension.
ExtendFactSxtwAsZero(f, op) ==
  CASE op = "UXTB" -> UExtend(f, W8, W64)  [] op = "UXTH" -> UExtend(f, W16, W64)
    [] op = "UXTW" -> UExtend(f, W32, W64) [] op = "UXTX" -> f
    [] op = "SXTB" -> SExtend(f, W8, W64)  [] op = "SXTH" -> SExtend(f, W16, W64)
    [] op = "SXTW" -> UExtend(f, W32, W64) [] op = "SXTX" -> NoFact

\* extend_fact: SXTX is deliberately not derivable.
ExtendFact(f, op) ==
  CASE op = "UXTB" -> UExtend(f, W8, W64)  [] op = "UXTH" -> UExtend(f, W16, W64)
    [] op = "UXTW" -> UExtend(f, W32, W64) [] op = "UXTX" -> f
    [] op = "SXTB" -> SExtend(f, W8, W64)  [] op = "SXTH" -> SExtend(f, W16, W64)
    [] op = "SXTW" -> SExtend(f, W32, W64) [] op = "SXTX" -> NoFact

\* Chains a derivation after the operand facts it needs (the `?` operator).
Then1(a, f) == IF a.err /= "ok" THEN a ELSE f
Then2(a, b, f) == IF a.err /= "ok" THEN a ELSE IF b.err /= "ok" THEN b ELSE f

\* check_output(out, ins, f): `stated` is the upstream fact of the fresh
\* destination; the result is the outcome and the destination's fact after.
CheckOutput(stated, ins, d) ==
  IF stated /= NoFact
  THEN [err |-> IF d.err /= "ok" THEN d.err ELSE CheckSubsumes(d.fact, stated),
        fact |-> stated]
  ELSE IF \E i \in ins : Propagates(fact[i])
  THEN [err |-> "ok", fact |-> IF d.err = "ok" THEN d.fact ELSE NoFact]
  ELSE [err |-> "ok", fact |-> NoFact]

\* check_unop / check_binop: the derivation reads the operands with defaults.
CheckUnop(stated, ra, F(_)) ==
  CheckOutput(stated, {ra}, LET a == GetFactOrDefault(ra) IN Then1(a, F(a.fact)))
CheckBinop(stated, ra, rb, F(_, _)) ==
  CheckOutput(stated, {ra, rb},
    LET a == GetFactOrDefault(ra)
        b == GetFactOrDefault(rb)
    IN Then2(a, b, F(a.fact, b.fact)))

\* Mutant of CheckConstant: the constant is installed at 32 bits.
CheckConstantNarrow(stated, c) ==
  IF stated /= NoFact
  THEN [err |-> CheckSubsumes(Constant(W32, c), stated), fact |-> stated]
  ELSE [err |-> "ok", fact |-> Constant(W32, c)]

\* check_constant: a stated fact must be implied; otherwise it is installed.
CheckConstant(stated, c) ==
  IF stated /= NoFact
  THEN [err |-> CheckSubsumes(Constant(W64, c), stated), fact |-> stated]
  ELSE [err |-> "ok", fact |-> Constant(W64, c)]

(***************************************************************************)
(* Defining the next vreg: the checker's verdict and fact, and the value  *)
(* the instruction computes.                                               *)
(***************************************************************************)
Running == status = "ok" /\ ndef >= NumArgs /\ ninst < MaxInsts

New == ndef + 1

Define(t, v, res) ==
  /\ ndef' = New
  /\ ninst' = ninst + 1
  /\ vty' = [vty EXCEPT ![New] = t]
  /\ val' = [val EXCEPT ![New] = v]
  /\ fact' = [fact EXCEPT ![New] = res.fact]
  /\ status' = res.err

(***************************************************************************)
(* Inst::Args: the argument facts are axioms, and the arguments hold      *)
(* values that satisfy them.                                               *)
(***************************************************************************)
Samples(f) ==
  CASE f.kind = "range" -> {f.min, f.max}
    [] f.kind = "mem"   -> {Wrap(RegionBase[f.ty] + f.min, W64), Wrap(RegionBase[f.ty] + f.max, W64)}
    [] OTHER            -> ArgVals

CheckArgs ==
  /\ lastInst' = "Args"
  /\ status = "ok" /\ ndef = 0
  /\ \E fs \in [1 .. NumArgs -> ArgFacts] :
     \E vs \in [1 .. NumArgs -> UNION {Samples(f) : f \in ArgFacts}] :
       /\ \A i \in 1 .. NumArgs : vs[i] \in Samples(fs[i])
       /\ fact' = [r \in VRegs |-> IF r <= NumArgs THEN fs[r] ELSE NoFact]
       /\ val' = [r \in VRegs |-> IF r <= NumArgs THEN vs[r] ELSE 0]
       /\ vty' = [r \in VRegs |-> IF r <= NumArgs THEN W64 ELSE NoType]
  /\ ndef' = NumArgs
  /\ UNCHANGED <<ninst, status, badAccess, badStore>>

(***************************************************************************)
(* ALU instructions.                                                      *)
(***************************************************************************)
\* The catch-all ALU arm: any ALU result is within its width.
AluFallback(stated, size) == CheckOutput(stated, {}, Ok(MaxRange(size)))

\* The `_ if vcode.inst_defines_facts(inst_idx)` arm and the final `_` arm.
Unrecognised(stated) ==
  [err |-> IF stated /= NoFact THEN "UnsupportedFact" ELSE "ok", fact |-> stated]

\* Inst::AluRRR { alu_op: Add }
CheckAddRRR ==
  /\ lastInst' = "AddRRR"
  /\ Running
  /\ \E size \in Sizes, rn, rm \in 1 .. ndef, stated \in DeclFacts :
       Define(size, Wrap(val[rn] + val[rm], size),
              CheckBinop(stated, rn, rm,
                         LAMBDA a, b : FailIfMissing(Add(a, b, size))))
  /\ UNCHANGED <<badAccess, badStore>>

\* Inst::AluRRImm12 { alu_op: Add }: the immediate as a constant fact.
CheckAddRRImm12 ==
  /\ lastInst' = "AddRRImm12"
  /\ Running
  /\ \E size \in Sizes, rn \in 1 .. ndef, imm \in Imm12s, stated \in DeclFacts :
       Define(size, Wrap(val[rn] + imm, size),
              CheckUnop(stated, rn,
                        LAMBDA a : FailIfMissing(Add(a, Constant(size, imm), size))))
  /\ UNCHANGED <<badAccess, badStore>>

\* Inst::AluRRRShift { alu_op: Add, LSL }: only when both operands have facts,
\* otherwise the catch-all ALU arm.
CheckAddRRRShift ==
  /\ lastInst' = "AddRRRShift"
  /\ Running
  /\ \E size \in Sizes, rn, rm \in 1 .. ndef, amt \in ShiftAmts, stated \in DeclFacts :
       Define(size, Wrap(val[rn] + val[rm] * 2^amt, size),
              IF HasFact(rn) /\ HasFact(rm)
              THEN CheckBinop(stated, rn, rm,
                     LAMBDA a, b : LET s == FailIfMissing(Shl(b, size, amt))
                                   IN Then1(s, FailIfMissing(Add(a, s.fact, size))))
              ELSE AluFallback(stated, size))
  /\ UNCHANGED <<badAccess, badStore>>

\* Inst::AluRRRExtend { alu_op: Add }: only when both operands have facts.
CheckAddRRRExtend ==
  /\ lastInst' = "AddRRRExtend"
  /\ Running
  /\ \E size \in Sizes, rn, rm \in 1 .. ndef, op \in ExtendOps, stated \in DeclFacts :
       Define(size, Wrap(val[rn] + ExtendVal(val[rm], op), size),
              IF HasFact(rn) /\ HasFact(rm)
              THEN CheckBinop(stated, rn, rm,
                     LAMBDA a, b : LET e == FailIfMissing(ExtendFact(b, op))
                                   IN Then1(e, FailIfMissing(Add(a, e.fact, size))))
              ELSE AluFallback(stated, size))
  /\ UNCHANGED <<badAccess, badStore>>

\* Inst::AluRRImmShift { alu_op: Lsl }: only when the operand has a fact.
CheckLslImm ==
  /\ lastInst' = "LslImm"
  /\ Running
  /\ \E size \in Sizes, rn \in 1 .. ndef, amt \in ShiftAmts, stated \in DeclFacts :
       Define(size, Wrap(val[rn] * 2^amt, size),
              IF HasFact(rn)
              THEN CheckUnop(stated, rn, LAMBDA a : FailIfMissing(Shl(a, size, amt)))
              ELSE AluFallback(stated, size))
  /\ UNCHANGED <<badAccess, badStore>>

\* Any other ALU instruction (Inst::AluRRR { alu_op: Sub } stands for them).
CheckAluOther ==
  /\ lastInst' = "AluOther"
  /\ Running
  /\ \E size \in Sizes, rn, rm \in 1 .. ndef, stated \in DeclFacts :
       Define(size, Wrap(val[rn] - val[rm], size), AluFallback(stated, size))
  /\ UNCHANGED <<badAccess, badStore>>

\* Inst::Extend: zero-extension with a fact on the operand is derived;
\* sign-extension and unfactored operands reach the unrecognised arms.
CheckExtend ==
  /\ lastInst' = "Extend"
  /\ Running
  /\ \E signed \in BOOLEAN, from \in {W8, W16, W32}, to \in {W32, W64},
        rn \in 1 .. ndef, stated \in DeclFacts :
       /\ from < to
       /\ Define(to,
                 IF signed THEN Wrap(SignExt(val[rn], from), to) ELSE Wrap(val[rn], from),
                 IF ~signed /\ HasFact(rn)
                 THEN CheckUnop(stated, rn, LAMBDA a : FailIfMissing(UExtend(a, from, to)))
                 ELSE Unrecognised(stated))
  /\ UNCHANGED <<badAccess, badStore>>

(***************************************************************************)
(* Constant materialisation: MOVZ, MOVN and MOVK of a 16-bit chunk at     *)
(* chunk position s (16*s bits up).                                        *)
(***************************************************************************)
ChunkShifts(size) == 0 .. (size \div ChunkBits - 1)
ChunkAt(c, s) == c * 2^(ChunkBits * s)
ChunkOf(v, s) == (v \div 2^(ChunkBits * s)) % 2^ChunkBits

\* Inst::MovWide { op: MovZ }
CheckMovZ ==
  /\ lastInst' = "MovZ"
  /\ Running
  /\ \E size \in Sizes, c \in Chunks, stated \in DeclFacts :
     \E s \in ChunkShifts(size) :
       Define(size, ChunkAt(c, s), CheckConstant(stated, ChunkAt(c, s)))
  /\ UNCHANGED <<badAccess, badStore>>

\* Mutant of MovNConst: the mask to the operand size is dropped.
MovNConstNoMask(c, s, size) == MaxVal(W64) - ChunkAt(c, s)

\* Inst::MovWide { op: MovN }: !(imm << 16*s) & size.max_value()
MovNConst(c, s, size) == Wrap(MaxVal(W64) - ChunkAt(c, s), size)

CheckMovN ==
  /\ lastInst' = "MovN"
  /\ Running
  /\ \E size \in Sizes, c \in Chunks, stated \in DeclFacts :
     \E s \in ChunkShifts(size) :
       Define(size, MovNValue(c, s, size), CheckConstant(stated, MovNConst(c, s, size)))
  /\ UNCHANGED <<badAccess, badStore>>

\* Inst::MovK: merges the chunk into a constant input by bitwise or;
\* the machine replaces that chunk of the input.
MovKResult(stated, rn, c, s) ==
  LET input == GetFactOrDefault(rn)
  IN IF input.err /= "ok" THEN [err |-> input.err, fact |-> stated]
     ELSE IF AsConst(input.fact, W64) >= 0
     THEN CheckConstant(stated, AsConst(input.fact, W64) | ChunkAt(c, s))
     ELSE CheckOutput(stated, {}, Ok(MaxRange(W64)))

CheckMovK ==
  /\ lastInst' = "MovK"
  /\ Running
  /\ \E size \in Sizes, rn \in 1 .. ndef, c \in Chunks, stated \in DeclFacts :
     \E s \in ChunkShifts(size) :
       /\ MovKOnZero => ChunkOf(val[rn], s) = 0 /\ val[rn] <= MaxVal(size)
       /\ Define(size,
                 Wrap(val[rn] - ChunkAt(ChunkOf(val[rn], s), s) + ChunkAt(c, s), size),
                 MovKResult(stated, rn, c, s))
  /\ UNCHANGED <<badAccess, badStore>>

\* An instruction the checker has no arm for, defining a vreg of type t.
CheckOther ==
  /\ lastInst' = "Other"
  /\ Running
  /\ \E t \in OtherTypes, v \in LoadVals, stated \in DeclFacts :
       Define(t, v, Unrecognised(stated))
  /\ UNCHANGED <<badAccess, badStore>>

(***************************************************************************)
(* Addressing modes (AMode) and check_addr.                                *)
(***************************************************************************)
TrustedModes == {"Label", "Const", "SPOffset", "FPOffset", "NominalSPOffset",
                 "SPPostIndexed", "SPPreIndexed"}

AMode(m, n, k, e, o) == [mode |-> m, rn |-> n, rm |-> k, ext |-> e, off |-> o]

AModes ==
  { am \in
      {AMode("RegReg", n, k, "UXTX", 0) : n, k \in 1 .. ndef}
      \cup {AMode("RegScaled", n, k, "UXTX", 0) : n, k \in 1 .. ndef}
      \cup {AMode("RegScaledExtended", n, k, e, 0) : n, k \in 1 .. ndef, e \in ExtendOps}
      \cup {AMode("RegExtended", n, k, e, 0) : n, k \in 1 .. ndef, e \in ExtendOps}
      \cup {AMode("Unscaled", n, 0, "UXTX", o) : n \in 1 .. ndef, o \in Offsets}
      \cup {AMode("UnsignedOffset", n, 0, "UXTX", o) : n \in 1 .. ndef, o \in UImm12s}
      \cup {AMode("RegOffset", n, 0, "UXTX", o) : n \in 1 .. ndef, o \in Offsets}
      \cup {AMode(m, 0, 0, "UXTX", 0) : m \in TrustedModes}
    : am.mode \in AModeKinds }

\* Mutant of AddrFact: RegScaled adds the index without scaling it.
AddrFactNoScale(am, t) ==
  LET a == GetFactOrDefault(am.rn)
      b == GetFactOrDefault(am.rm)
  IN CASE am.mode \in {"RegReg", "RegScaled"} ->
            Then2(a, b, FailIfMissing(Add(a.fact, b.fact, W64)))
       [] am.mode = "RegScaledExtended" ->
            Then2(a, b, LET e == FailIfMissing(ExtendFact(b.fact, am.ext))
                            s == Then1(e, FailIfMissing(Scale(e.fact, W64, TyBytes(t))))
                        IN Then1(s, FailIfMissing(Add(a.fact, s.fact, W64))))
       [] am.mode = "RegExtended" ->
            Then2(a, b, LET e == FailIfMissing(ExtendFact(b.fact, am.ext))
                        IN Then1(e, FailIfMissing(Add(a.fact, e.fact, W64))))
       [] am.mode \in {"Unscaled", "UnsignedOffset", "RegOffset"} ->
            Then1(a, FailIfMissing(Offset(a.fact, W64, am.off)))
       [] OTHER -> [err |-> "trusted", fact |-> NoFact]

\* The address fact check_addr derives for a mode, or "trusted".  A scaled
\* mode scales by its own type, which lowering makes the access type t.
AddrFact(am, t) ==
  LET a == GetFactOrDefault(am.rn)
      b == GetFactOrDefault(am.rm)
  IN CASE am.mode = "RegReg" ->
            Then2(a, b, FailIfMissing(Add(a.fact, b.fact, W64)))
       [] am.mode = "RegScaled" ->
            Then2(a, b, LET s == FailIfMissing(Scale(b.fact, W64, TyBytes(t)))
                        IN Then1(s, FailIfMissing(Add(a.fact, s.fact, W64))))
       [] am.mode = "RegScaledExtended" ->
            Then2(a, b, LET e == FailIfMissing(ExtendFact(b.fact, am.ext))
                            s == Then1(e, FailIfMissing(Scale(e.fact, W64, TyBytes(t))))
                        IN Then1(s, FailIfMissing(Add(a.fact, s.fact, W64))))
       [] am.mode = "RegExtended" ->
            Then2(a, b, LET e == FailIfMissing(ExtendFact(b.fact, am.ext))
                        IN Then1(e, FailIfMissing(Add(a.fact, e.fact, W64))))
       [] am.mode \in {"Unscaled", "UnsignedOffset", "RegOffset"} ->
            Then1(a, FailIfMissing(Offset(a.fact, W64, am.off)))
       [] OTHER -> [err |-> "trusted", fact |-> NoFact]

\* The address the machine computes for a register-based mode.
AddrVal(am, t) ==
  CASE am.mode = "RegReg" -> Wrap(val[am.rn] + val[am.rm], W64)
    [] am.mode = "RegScaled" -> Wrap(val[am.rn] + val[am.rm] * TyBytes(t), W64)
    [] am.mode = "RegScaledExtended" ->
         Wrap(val[am.rn] + ExtendVal(val[am.rm], am.ext) * TyBytes(t), W64)
    [] am.mode = "RegExtended" -> Wrap(val[am.rn] + ExtendVal(val[am.rm], am.ext), W64)
    [] OTHER -> Wrap(val[am.rn] + am.off, W64)

\* check_addr: unchecked accesses pass; a load's stated result fact must be
\* implied by the loaded fact; a store is judged by FactContext::store.
CheckAddr(checked, am, t, isLoad, other) ==
  IF ~checked THEN "ok"
  ELSE LET d == AddrFact(am, t)
       IN CASE d.err = "trusted" -> "ok"
            [] d.err /= "ok" -> d.err
            [] isLoad -> LET l == Load(d.fact, t)
                         IN IF l.err /= "ok" THEN l.err
                            ELSE IF SubsumesFactOptionals(l.fact, other) THEN "ok"
                            ELSE "UnsupportedFact"
            [] OTHER -> Store(d.fact, t, other)

\* An accepted checked access through a register-based mode that the machine
\* performs outside every region.
Escapes(checked, res, am, addr, t) ==
  checked /\ res = "ok" /\ am.mode \notin TrustedModes /\ ~InSomeRegion(addr, TyBytes(t))

\* What memory at addr may hold: values of the access width that meet the
\* element constraint of the region there, until a store has broken it.
MemVals(addr, t) ==
  { m \in LoadVals :
      /\ m <= MaxVal(TyBits(t))
      /\ \A r \in Regions : ~badStore /\ InRegion(addr, TyBytes(t), r) /\ ElemFact[r] /= NoFact
                              => Holds(ElemFact[r], m) }

\* A checked store accepted into a region writes a value its constraint forbids.
BreaksElem(checked, res, addr, t, v) ==
  /\ checked /\ res = "ok"
  /\ \E r \in Regions : InRegion(addr, TyBytes(t), r) /\ ElemFact[r] /= NoFact
                        /\ ~Holds(ElemFact[r], Wrap(v, TyBits(t)))

LoadTy(op) ==
  CASE op \in {"ULoad8", "SLoad8"} -> "I8" [] op \in {"ULoad16", "SLoad16"} -> "I16"
    [] op \in {"ULoad32", "SLoad32"} -> "I32" [] OTHER -> "I64"
Signed(op) == op \in {"SLoad8", "SLoad16", "SLoad32"}

\* Inst::ULoad*/SLoad*: check_load with the destination's stated fact.
\* Upstream states no fact on the result of an unchecked load; a fact on a
\* load through a trusted (label or stack) mode is an axiom of the ABI code,
\* like an argument's, so the register value loaded there satisfies it.
CheckLoad ==
  /\ lastInst' = "Load"
  /\ Running
  /\ \E op \in LoadOps, am \in AModes, checked \in BOOLEAN :
     \E stated \in IF checked THEN DeclFacts ELSE {NoFact} :
       LET t == LoadTy(op)
           addr == IF am.mode \in TrustedModes THEN 0 ELSE AddrVal(am, t)
           res == CheckAddr(checked, am, t, TRUE, stated)
       IN /\ \E m \in MemVals(addr, t) :
             LET v == IF Signed(op) THEN SignExt(m, TyBits(t)) ELSE m
             IN /\ am.mode \in TrustedModes => Holds(stated, v)
                /\ Define(W64, v, [err |-> res, fact |-> stated])
          /\ badAccess' = (badAccess \/ Escapes(checked, res, am, addr, t))
          /\ UNCHANGED badStore

\* Inst::FpuLoad32/64/128: check_load with no destination fact.  The float
\* or vector destination is not an integer vreg and is not tracked.
CheckFpuLoad ==
  /\ lastInst' = "FpuLoad"
  /\ Running
  /\ \E t \in {"F32", "F64", "I8X16"}, am \in AModes, checked \in BOOLEAN :
       LET addr == IF am.mode \in TrustedModes THEN 0 ELSE AddrVal(am, t)
           res == CheckAddr(checked, am, t, TRUE, NoFact)
       IN /\ status' = res
          /\ ninst' = ninst + 1
          /\ badAccess' = (badAccess \/ Escapes(checked, res, am, addr, t))
          /\ UNCHANGED <<fact, vty, val, ndef, badStore>>

\* Inst::Store8/16/32/64: check_store with the stored vreg's own fact.
CheckStore ==
  /\ lastInst' = "Store"
  /\ Running
  /\ \E t \in {"I8", "I16", "I32", "I64"}, rd \in 1 .. ndef, am \in AModes,
        checked \in BOOLEAN :
       LET addr == IF am.mode \in TrustedModes THEN 0 ELSE AddrVal(am, t)
           res == CheckAddr(checked, am, t, FALSE, fact[rd])
       IN /\ status' = res
          /\ ninst' = ninst + 1
          /\ badAccess' = (badAccess \/ Escapes(checked, res, am, addr, t))
          /\ badStore' = (badStore \/ (am.mode \notin TrustedModes
                                       /\ BreaksElem(checked, res, addr, t, val[rd])))
          /\ UNCHANGED <<fact, vty, val, ndef>>

\* Inst::FpuStore32/64/128: check_store with no stored fact.
CheckFpuStore ==
  /\ lastInst' = "FpuStore"
  /\ Running
  /\ \E t \in {"F32", "F64", "I8X16"}, am \in AModes, checked \in BOOLEAN, v \in LoadVals :
       LET addr == IF am.mode \in TrustedModes THEN 0 ELSE AddrVal(am, t)
           res == CheckAddr(checked, am, t, FALSE, NoFact)
       IN /\ status' = res
          /\ ninst' = ninst + 1
          /\ badAccess' = (badAccess \/ Escapes(checked, res, am, addr, t))
          /\ badStore' = (badStore \/ (am.mode \notin TrustedModes
                                       /\ BreaksElem(checked, res, addr, t, v)))
          /\ UNCHANGED <<fact, vty, val, ndef>>

\* check_load_pair / check_store_pair: register pairs are not modelled yet.
CheckPair ==
  /\ lastInst' = "Pair"
  /\ Running
  /\ status' = "UnimplementedInst"
  /\ ninst' = ninst + 1
  /\ UNCHANGED <<fact, vty, val, ndef, badAccess, badStore>>

\* Inst::LoadAcquire (and VecLoadReplicate): check_load_addr on a bare
\* register; the loaded fact is computed and dropped.
CheckLoadAddr ==
  /\ lastInst' = "LoadAddr"
  /\ Running
  /\ \E t \in {"I8", "I16", "I32", "I64"}, rn \in 1 .. ndef, checked \in BOOLEAN :
     \E stated \in IF AcquireDecl /\ checked THEN DeclFacts ELSE {NoFact} :
       LET a == GetFactOrDefault(rn)
           res == IF ~checked THEN "ok" ELSE IF a.err /= "ok" THEN a.err
                  ELSE Load(a.fact, t).err
       IN /\ \E m \in MemVals(val[rn], t) : Define(W64, m, [err |-> res, fact |-> stated])
          /\ badAccess' = (badAccess \/ (checked /\ res = "ok"
                                         /\ ~InSomeRegion(val[rn], TyBytes(t))))
          /\ UNCHANGED badStore

\* Inst::StoreRelease: check_store_addr passes no stored fact.
CheckStoreAddr ==
  /\ lastInst' = "StoreAddr"
  /\ Running
  /\ \E t \in {"I8", "I16", "I32", "I64"}, rt, rn \in 1 .. ndef, checked \in BOOLEAN :
       LET a == GetFactOrDefault(rn)
           res == IF ~checked THEN "ok" ELSE IF a.err /= "ok" THEN a.err
                  ELSE Store(a.fact, t, NoFact)
       IN /\ status' = res
          /\ ninst' = ninst + 1
          /\ badAccess' = (badAccess \/ (checked /\ res = "ok"
                                         /\ ~InSomeRegion(val[rn], TyBytes(t))))
          /\ badStore' = (badStore \/ BreaksElem(checked, res, val[rn], t, val[rt]))
          /\ UNCHANGED <<fact, vty, val, ndef>>

(***************************************************************************)
(* The specification.                                                      *)
(***************************************************************************)
Init ==
  /\ fact = [r \in VRegs |-> NoFact]
  /\ vty = [r \in VRegs |-> NoType]
  /\ val = [r \in VRegs |-> 0]
  /\ ndef = 0
  /\ ninst = 0
  /\ status = "ok"
  /\ badAccess = FALSE
  /\ badStore = FALSE
  /\ lastInst = "none"

Next ==
  \/ CheckArgs
  \/ CheckLoad \/ CheckFpuLoad \/ CheckLoadAddr \/ CheckPair
  \/ CheckStore \/ CheckFpuStore \/ CheckStoreAddr
  \/ CheckAddRRR \/ CheckAddRRImm12 \/ CheckAddRRRShift \/ CheckAddRRRExtend
  \/ CheckLslImm \/ CheckAluOther \/ CheckExtend
  \/ CheckMovZ \/ CheckMovN \/ CheckMovK
  \/ CheckOther

Spec == Init /\ [][Next]_vars

(***************************************************************************)
(* Properties.                                                             *)
(***************************************************************************)
Errors == {"ok", "MissingFact", "UnsupportedFact", "UnimplementedInst",
           "OutOfBounds", "InvalidStoredFact"}

TypeOK ==
  /\ ndef \in 0 .. MaxRegs /\ ninst \in 0 .. MaxInsts
  /\ status \in Errors
  /\ \A r \in VRegs : /\ WellFormed(fact[r])
                      /\ val[r] \in 0 .. MaxVal(W64)
                      /\ vty[r] \in {NoType, W8, W16, W32, W64}
  /\ badAccess \in BOOLEAN /\ badStore \in BOOLEAN

\* Memory safety, the checker's purpose: while every instruction so far is
\* accepted, no checked load or store (check_addr, check_load_addr,
\* check_store_addr) touched memory outside the regions.
MemorySafety == status = "ok" => ~badAccess

\* Soundness of the fact store: while every instruction is accepted, every
\* fact a vreg carries, stated upstream or installed by check_output and
\* check_constant, is true of the value the machine puts in it.
FactsHold == status = "ok" => \A r \in 1 .. ndef : Holds(fact[r], val[r])

\* Regions keep their element constraint: no accepted checked store writes a
\* value that FactContext::load will later vouch for wrongly.
RegionInvariant == status = "ok" => ~badStore
=============================================================================
