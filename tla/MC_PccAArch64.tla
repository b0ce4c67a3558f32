--------------------------- MODULE MC_PccAArch64 ---------------------------
(***************************************************************************)
(* Model-checking instance of PccAArch64: one 16-byte heap region at      *)
(* address 16 of an 8-bit address space (XLen = 8 stands for 64 bits),    *)
(* a pointer and an index argument, and three instructions after Args.   *)
(***************************************************************************)
EXTENDS PccAArch64

CONSTANTS heap

MC_Regions == {heap}
MC_RegionBase == [r \in MC_Regions |-> 16]
MC_RegionSize == [r \in MC_Regions |-> 16]
MC_NoElem == [r \in MC_Regions |-> NoFact]

\* The pointer argument points at the start of the heap; the index argument
\* is bounds-checked to 0..3 or carries no fact.
MC_ArgFacts == {MemFact(heap, 0, 0), Range(W64, 0, 3), NoFact}
MC_ArgVals == {1, 255}

\* Range facts upstream may state on a result: an in-heap index and a constant.
MC_DeclRanges == {NoFact, Range(W64, 0, 15), Constant(W64, 4)}

MC_Sizes == {W32, W64}
\* 64-bit operations only.
MC_Sizes64 == {W64}
MC_Offsets == {-1, 4}
MC_LoadVals == {0, 255}
MC_OtherTypes == {W64, NoType}
MC_AllModes == {"RegReg", "RegScaled", "RegScaledExtended", "RegExtended",
                "Unscaled", "UnsignedOffset", "RegOffset", "SPOffset"}

\* Values memory may hold, including one whose low byte has its sign bit set.
MC_LoadValsWide == {0, 1, 255}

\* Upstream states a Mem fact on a result (the placeholder of check_subsumes).
MC_DeclWithMem == {NoFact, MemFact(heap, 0, 0)}

\* The heap holds only values 0..1 (a region with an element constraint).
MC_SmallElem == [r \in MC_Regions |-> Range(W64, 0, 1)]
=============================================================================
