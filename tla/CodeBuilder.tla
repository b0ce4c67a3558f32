---------------------------- MODULE CodeBuilder ----------------------------
(***************************************************************************)
(* wasmtime's CodeBuilder (crates/wasmtime/src/compile/code_builder.rs):   *)
(* a single source of wasm bytes, set by `wasm` or `wasm_file`, the `wat`  *)
(* flag, and the compile calls that read them.                            *)
(*                                                                         *)
(* Byte strings are abstracted to model values with a kind: a binary      *)
(* module, a binary component, the text of a module, or junk.  Compilation *)
(* itself (build_artifacts) is abstracted to whether it accepts the kind.  *)
(***************************************************************************)
EXTENDS Naturals, Sequences, TLC

CONSTANTS
  Bytes,       \* byte strings a caller may pass
  Kind,        \* [Bytes -> {"module", "component", "wat", "junk"}]
  Files,       \* paths a caller may name
  Contents,    \* [Files -> Bytes]: what std::fs::read returns
  Readable,    \* the files std::fs::read can read
  WatBuilds,   \* the values of cfg!(feature = "wat") to consider
  MaxCalls,    \* bound on the number of calls
  None         \* a model value: Option::None

ASSUME Readable \subseteq Files /\ None \notin Bytes \cup Files

VARIABLES
  wasm,      \* Option<Cow<[u8]>>
  wasmPath,  \* Option<Cow<Path>>
  wat,       \* bool
  result,    \* outcome of the latest call: "ok", an error, or a compiled kind
  sources,   \* history: the <<bytes, path>> of every accepted wasm/wasm_file
  calls,     \* calls so far
  watFeature \* cfg!(feature = "wat") of this build, fixed for the run

vars == <<wasm, wasmPath, wat, result, sources, calls, watFeature>>

(***************************************************************************)
(* CodeBuilder::new                                                       *)
(***************************************************************************)
Init ==
  /\ watFeature \in WatBuilds
  /\ wasm = None
  /\ wasmPath = None
  /\ wat = watFeature
  /\ result = "ok"
  /\ sources = << >>
  /\ calls = 0

Call == calls < MaxCalls /\ calls' = calls + 1 /\ UNCHANGED watFeature

\* Mutant of Wasm: the check for an already configured source is lost.
WasmNoGuard(b, p) ==
  /\ Call
  /\ wasm' = b /\ wasmPath' = p /\ result' = "ok"
  /\ sources' = Append(sources, <<b, p>>)
  /\ UNCHANGED wat

\* CodeBuilder::wasm(bytes, path): bails if a source is already configured.
Wasm(b, p) ==
  /\ Call
  /\ IF wasm /= None
     THEN /\ result' = "twice"
          /\ UNCHANGED <<wasm, wasmPath, sources>>
     ELSE /\ wasm' = b
          /\ wasmPath' = p
          /\ result' = "ok"
          /\ sources' = Append(sources, <<b, p>>)
  /\ UNCHANGED wat

\* Mutant of Wat: the flag is stored before the feature check bails.
WatEarly(enable) ==
  /\ Call
  /\ wat' = enable
  /\ result' = IF ~watFeature /\ enable THEN "wat_disabled" ELSE "ok"
  /\ UNCHANGED <<wasm, wasmPath, sources>>

\* CodeBuilder::wat(enable): enabling needs the crate feature.
Wat(enable) ==
  /\ Call
  /\ IF ~watFeature /\ enable
     THEN result' = "wat_disabled" /\ UNCHANGED wat
     ELSE result' = "ok" /\ wat' = enable
  /\ UNCHANGED <<wasm, wasmPath, sources>>

\* CodeBuilder::wasm_file(file): bails if a source is configured, then reads
\* the file with `?`; only a successful read configures bytes and path.
WasmFile(f) ==
  /\ Call
  /\ CASE wasm /= None ->
            result' = "twice" /\ UNCHANGED <<wasm, wasmPath, sources>>
       [] f \notin Readable ->
            result' = "read_error" /\ UNCHANGED <<wasm, wasmPath, sources>>
       [] OTHER ->
            /\ wasm' = Contents[f] /\ wasmPath' = f /\ result' = "ok"
            /\ sources' = Append(sources, <<Contents[f], f>>)
  /\ UNCHANGED wat

\* CodeBuilder::wasm_binary: the configured bytes, converted from text by
\* wat::parse_bytes when the flag is on (binary input passes through, text
\* of a module becomes a module, junk is a parse error).
WasmBinary ==
  CASE wasm = None -> "no_wasm"
    [] wat /\ Kind[wasm] = "wat" -> "module"
    [] wat /\ Kind[wasm] = "junk" -> "parse_error"
    [] OTHER -> Kind[wasm]

\* compile_module_serialized / compile_component_serialized: wasm_binary,
\* then build_artifacts or build_component_artifacts, which accept only
\* a binary of their own kind.
Compile(kind) ==
  /\ Call
  /\ result' = LET bin == WasmBinary
               IN IF bin \in {"no_wasm", "parse_error"} THEN bin
                  ELSE IF bin = kind THEN "compiled_" \o kind
                  ELSE "invalid"
  /\ UNCHANGED <<wasm, wasmPath, wat, sources>>

Next ==
  \/ \E b \in Bytes, p \in Files \cup {None} : Wasm(b, p)
  \/ \E e \in BOOLEAN : Wat(e)
  \/ \E f \in Files : WasmFile(f)
  \/ \E k \in {"module", "component"} : Compile(k)

Spec == Init /\ [][Next]_vars

(***************************************************************************)
(* Properties.                                                             *)
(***************************************************************************)
\* Single source: of all the wasm and wasm_file calls, at most one is ever
\* accepted, and the builder holds exactly its bytes and path, so a file
\* read by wasm_file is compiled with its own path in diagnostics.
SingleSource ==
  /\ Len(sources) <= 1
  /\ Len(sources) = 0 => wasm = None /\ wasmPath = None
  /\ Len(sources) = 1 => <<wasm, wasmPath>> = sources[1]

\* Failed calls change nothing: a call that returns an error (a second
\* source, an unreadable file, wat without the feature) leaves the bytes,
\* the path and the flag as they were, so the caller may retry.
FailedCallsChangeNothing ==
  [][result' \in {"twice", "read_error", "wat_disabled"} =>
       UNCHANGED <<wasm, wasmPath, wat>>]_vars
=============================================================================
