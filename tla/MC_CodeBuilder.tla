--------------------------- MODULE MC_CodeBuilder ---------------------------
(***************************************************************************)
(* Model-checking instance of CodeBuilder: one byte string of each kind,   *)
(* one readable file holding wasm text and one unreadable file.           *)
(***************************************************************************)
EXTENDS CodeBuilder

CONSTANTS binMod, binComp, text, junk, fileOk, fileMissing

MC_Bytes == {binMod, binComp, text, junk}
MC_Kind == (binMod :> "module") @@ (binComp :> "component") @@ (text :> "wat")
           @@ (junk :> "junk")
MC_Files == {fileOk, fileMissing}
MC_Contents == [f \in MC_Files |-> text]
MC_Readable == {fileOk}
=============================================================================
