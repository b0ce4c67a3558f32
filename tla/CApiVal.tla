------------------------------ MODULE CApiVal ------------------------------
(***************************************************************************)
(* Ownership of references held in C API values (crates/c-api/src/val.rs) *)
(* composed with the rooting of externrefs (crates/wasmtime/src/runtime/  *)
(* gc/enabled.rs).                                                        *)
(*                                                                         *)
(* A wasmtime_val_t holding a non-null anyref or externref owns a Box    *)
(* containing a ManuallyRooted<AnyRef> or <ExternRef>: one manual root in *)
(* the store.  A wasm_val_t *)
(* holding a non-null funcref owns a Box<wasm_ref_t>.  The C caller       *)
(* initialises values (from_val and the copy calls) into uninitialised   *)
(* slots and deletes them (the delete calls).  Host code creates          *)
(* externrefs, which are Rooted in the innermost RootScope, and may keep  *)
(* the Rooted handles                                                      *)
(* after their scope ends.  The collector reclaims every object that no   *)
(* live root reaches; this is the contract of rooting.rs as enabled.rs    *)
(* documents it (a Rooted is unrooted when its scope exits, a             *)
(* ManuallyRooted stays rooted until `unroot`).                           *)
(*                                                                         *)
(* Root and box identities are drawn from one counter, so root n and box n *)
(* are created together by one from_val.                                   *)
(***************************************************************************)
EXTENDS Naturals, Sequences, FiniteSets

CONSTANTS
  Objects,    \* host values ExternRef::new / new_manually_rooted may wrap
  Slots,      \* wasmtime_val_t storage the C caller owns
  WSlots,     \* wasm_val_t storage the C caller owns
  Funcs,      \* functions a funcref may name
  FuncBits,   \* [Funcs -> <<store_id, index>>]: a Func's bits as transmuted
  NoRef,      \* a model value: the None of a nullable reference
  MaxScopes,  \* bound on nested RootScopes (the store's own included)
  MaxSteps    \* bound on the number of operations

\* A Func is a Stored<FuncData>: a nonzero StoreId and an index.
ASSUME \A f \in Funcs : FuncBits[f][1] >= 1
ASSUME \A f, g \in Funcs : FuncBits[f] = FuncBits[g] => f = g

Ids == 1 .. MaxSteps

\* The reference kinds a wasmtime_val_t boxes under a manual root.
RefKinds == {"any", "extern"}

\* The bits of FuncRef(None) in a wasmtime_val_t.
NullFuncBits == <<0, 0>>

\* A C value: its kind, the box it owns (0: a null pointer or no box) and
\* the funcref bits of a wasmtime_val_t.  Numbers own nothing and are
\* abstracted to their kind.
Uninit == [kind |-> "none", box |-> 0, bits |-> NullFuncBits]
Null(k) == [kind |-> k, box |-> 0, bits |-> NullFuncBits]

\* A Val: its type and its reference (NoRef for None and for numbers).
Val(t, r) == <<t, r>>

VARIABLES
  allocated,  \* externref objects created so far
  collected,  \* objects the collector has reclaimed
  scopes,     \* the open RootScopes, innermost last (ids)
  handles,    \* Rooted<AnyRef/ExternRef> values the host holds: [obj, scope, ty]
  hostRoots,  \* ManuallyRooted<ExternRef> values the host holds (root ids)
  rootObj,    \* [Ids -> Objects]: the object manual root n roots
  rootLive,   \* manual roots not yet unrooted
  boxLive,    \* boxes allocated and not yet freed
  wref,       \* [Ids -> Funcs]: the function a wasm_ref_t box names
  slots,      \* [Slots -> [kind, box, bits]]: the wasmtime_val_t values
  wslots,     \* [WSlots -> [kind, box, bits]]: the wasm_val_t values
  nextId,     \* the next fresh root, box or scope id
  given,      \* observation: the Val each wasmtime_val_t was made from
  wgiven,     \* observation: the Val each wasm_val_t was made from
  lastData,   \* the object data/data_mut has lent out, while the borrow lasts
  vmRefs,     \* VMExternRef clones wasm holds (ids; rootObj[n] is the object)
  activations,\* objects the store's VMExternRefActivationsTable holds
  raws,       \* raw externref pointers to_raw has handed out since the last GC
  steps

vars == <<allocated, collected, scopes, handles, hostRoots, rootObj, rootLive,
          boxLive, wref, slots, wslots, nextId, given, wgiven, lastData,
          vmRefs, activations, raws, steps>>
refs == <<vmRefs, activations, raws>>
host == <<allocated, collected, scopes, handles, hostRoots>>

Top == scopes[Len(scopes)]
LiveScopes == {scopes[i] : i \in 1 .. Len(scopes)}

\* A Rooted handle is usable while its scope is open.
Valid(h) == h.scope \in LiveScopes

\* Every object something still references: manual roots, the Rooted
\* handles of open scopes, the VMExternRef clones wasm holds and the
\* entries of the activations table.
Reachable == {rootObj[n] : n \in rootLive \cup vmRefs} \cup activations
               \cup {h.obj : h \in {g \in handles : Valid(g)}}

Step == steps < MaxSteps /\ steps' = steps + 1

\* data and data_mut borrow the store for the life of the returned
\* reference, so any later operation on the store ends the borrow.
EndBorrow == lastData' = NoRef

Init ==
  /\ allocated = {} /\ collected = {}
  /\ scopes = <<0>>
  /\ handles = {} /\ hostRoots = {}
  /\ rootObj = [n \in Ids |-> CHOOSE o \in Objects : TRUE]
  /\ rootLive = {} /\ boxLive = {}
  /\ wref = [n \in Ids |-> CHOOSE f \in Funcs : TRUE]
  /\ slots = [s \in Slots |-> Uninit]
  /\ wslots = [w \in WSlots |-> Uninit]
  /\ nextId = 1
  /\ given = [s \in Slots |-> Val("none", NoRef)]
  /\ wgiven = [w \in WSlots |-> Val("none", NoRef)]
  /\ lastData = NoRef
  /\ vmRefs = {} /\ activations = {} /\ raws = {}
  /\ steps = 0

(***************************************************************************)
(* Host side: ExternRef and the rooting it relies on.                     *)
(***************************************************************************)
\* ExternRef::new: a fresh object, Rooted in the innermost scope.
ExternRefNew(o) ==
  /\ Step
  /\ o \notin allocated
  /\ allocated' = allocated \cup {o}
  /\ handles' = handles \cup {[obj |-> o, scope |-> Top, ty |-> "extern"]}
  /\ UNCHANGED <<collected, scopes, hostRoots, rootObj, rootLive, boxLive, wref,
                 slots, wslots, nextId, given, wgiven>>
  /\ UNCHANGED refs /\ EndBorrow

\* A Rooted<AnyRef> the host obtains from wasm or from AnyRef's own
\* constructors (anyref.rs), rooted in the innermost scope.
HostAnyRef(o) ==
  /\ Step
  /\ o \notin allocated
  /\ allocated' = allocated \cup {o}
  /\ handles' = handles \cup {[obj |-> o, scope |-> Top, ty |-> "any"]}
  /\ UNCHANGED <<collected, scopes, hostRoots, rootObj, rootLive, boxLive, wref,
                 slots, wslots, nextId, given, wgiven>>
  /\ UNCHANGED refs /\ EndBorrow

\* ExternRef::new_manually_rooted: a fresh object under a new manual root
\* the host owns.
NewManuallyRooted(o) ==
  /\ Step
  /\ o \notin allocated
  /\ allocated' = allocated \cup {o}
  /\ rootObj' = [rootObj EXCEPT ![nextId] = o]
  /\ rootLive' = rootLive \cup {nextId}
  /\ hostRoots' = hostRoots \cup {nextId}
  /\ nextId' = nextId + 1
  /\ UNCHANGED <<collected, scopes, handles, boxLive, wref, slots, wslots, given,
                 wgiven>>
  /\ UNCHANGED refs /\ EndBorrow

\* ManuallyRooted::to_rooted and ManuallyRooted::unroot (rooting.rs).
HostToRooted(n) ==
  /\ Step /\ n \in hostRoots
  /\ handles' = handles \cup {[obj |-> rootObj[n], scope |-> Top, ty |-> "extern"]}
  /\ UNCHANGED <<allocated, collected, scopes, hostRoots, rootObj, rootLive,
                 boxLive, wref, slots, wslots, nextId, given, wgiven>>
  /\ UNCHANGED refs /\ EndBorrow

HostUnroot(n) ==
  /\ Step /\ n \in hostRoots
  /\ hostRoots' = hostRoots \ {n}
  /\ rootLive' = rootLive \ {n}
  /\ UNCHANGED <<allocated, collected, scopes, handles, rootObj, boxLive, wref,
                 slots, wslots, nextId, given, wgiven>>
  /\ UNCHANGED refs /\ EndBorrow

\* Mutant of Data: the root is not checked before the object is borrowed.
DataUnchecked(h) ==
  /\ Step /\ h \in handles
  /\ lastData' = h.obj
  /\ UNCHANGED <<allocated, collected, scopes, handles, hostRoots, rootObj,
                 rootLive, boxLive, wref, slots, wslots, nextId, given, wgiven>>
  /\ UNCHANGED refs

\* ExternRef::data and data_mut: unchecked_try_gc_ref fails with `?` on a
\* Rooted whose scope has exited; otherwise the host data is borrowed.
Data(h) ==
  /\ Step /\ h \in handles
  /\ lastData' = IF Valid(h) THEN h.obj ELSE NoRef
  /\ UNCHANGED <<allocated, collected, scopes, handles, hostRoots, rootObj,
                 rootLive, boxLive, wref, slots, wslots, nextId, given, wgiven>>
  /\ UNCHANGED refs

\* RootScope::new and its drop: Rooted values of the scope are unrooted.
EnterScope ==
  /\ Step /\ Len(scopes) < MaxScopes
  /\ scopes' = Append(scopes, nextId)
  /\ nextId' = nextId + 1
  /\ UNCHANGED <<allocated, collected, handles, hostRoots, rootObj, rootLive,
                 boxLive, wref, slots, wslots, given, wgiven>>
  /\ UNCHANGED refs /\ EndBorrow

ExitScope ==
  /\ Step /\ Len(scopes) > 1
  /\ scopes' = SubSeq(scopes, 1, Len(scopes) - 1)
  /\ UNCHANGED <<allocated, collected, handles, hostRoots, rootObj, rootLive,
                 boxLive, wref, slots, wslots, nextId, given, wgiven>>
  /\ UNCHANGED refs /\ EndBorrow

\* Reclamation: every object nothing references is freed.  Reference
\* counts drop to zero at any step, so this may happen at any time.
Collect ==
  /\ Step
  /\ collected' = collected \cup (allocated \ Reachable)
  /\ UNCHANGED <<allocated, scopes, handles, hostRoots, rootObj, rootLive,
                 boxLive, wref, slots, wslots, nextId, given, wgiven>>
  /\ UNCHANGED refs /\ EndBorrow

\* A GC of the store sweeps the activations table (no wasm frame is live
\* while the host runs).  Per the contract of to_raw and from_raw, raw
\* values obtained before a GC are not used after it.
GcSweep ==
  /\ Step
  /\ activations' = {} /\ raws' = {}
  /\ UNCHANGED <<host, rootObj, rootLive, boxLive, wref, slots, wslots, nextId,
                 given, wgiven, vmRefs>>
  /\ EndBorrow

(***************************************************************************)
(* ExternRef crossing into wasm and raw values.                           *)
(***************************************************************************)
KeepRest == UNCHANGED <<collected, scopes, hostRoots, rootLive, boxLive, wref, slots,
                       wslots, given, wgiven>> /\ EndBorrow

\* Mutant of ToVmExternRef: the gc_ref is read without checking the root.
ToVmExternRefUnchecked(h) ==
  /\ Step /\ h \in handles
  /\ vmRefs' = vmRefs \cup {nextId} /\ rootObj' = [rootObj EXCEPT ![nextId] = h.obj]
  /\ nextId' = nextId + 1
  /\ UNCHANGED <<allocated, handles, activations, raws>> /\ KeepRest

\* to_vm_extern_ref / try_to_vm_extern_ref, as wasm is called with h:
\* get_gc_ref is None for an unrooted handle (the "attempted to use an
\* `externref` that was unrooted" error); otherwise a VMExternRef clone,
\* which wasm now holds.
ToVmExternRef(h) ==
  /\ Step /\ h \in handles
  /\ IF Valid(h)
     THEN /\ vmRefs' = vmRefs \cup {nextId}
          /\ rootObj' = [rootObj EXCEPT ![nextId] = h.obj]
          /\ nextId' = nextId + 1
     ELSE UNCHANGED <<vmRefs, rootObj, nextId>>
  /\ UNCHANGED <<allocated, handles, activations, raws>> /\ KeepRest

\* wasm drops a reference it holds (environment).
WasmDropRef(n) ==
  /\ Step /\ n \in vmRefs
  /\ vmRefs' = vmRefs \ {n}
  /\ UNCHANGED <<allocated, handles, rootObj, nextId, activations, raws>> /\ KeepRest

\* from_vm_extern_ref: wasm hands a VMExternRef back to the host, which
\* moves it into a new Rooted of the innermost scope.
FromVmExternRef(n) ==
  /\ Step /\ n \in vmRefs
  /\ vmRefs' = vmRefs \ {n}
  /\ handles' = handles \cup {[obj |-> rootObj[n], scope |-> Top, ty |-> "extern"]}
  /\ UNCHANGED <<allocated, rootObj, nextId, activations, raws>> /\ KeepRest

\* Mutant of ToRaw: the clone is not kept in the activations table.
ToRawNoInsert(h) ==
  /\ Step /\ h \in handles
  /\ raws' = IF Valid(h) THEN raws \cup {h.obj} ELSE raws
  /\ UNCHANGED <<allocated, handles, rootObj, nextId, vmRefs, activations>> /\ KeepRest

\* to_raw: try_gc_ref fails with `?` on an unrooted handle; otherwise a
\* VMExternRef clone goes into the activations table
\* (insert_vmexternref_without_gc) and its raw pointer to the host.
ToRaw(h) ==
  /\ Step /\ h \in handles
  /\ IF Valid(h)
     THEN activations' = activations \cup {h.obj} /\ raws' = raws \cup {h.obj}
     ELSE UNCHANGED <<activations, raws>>
  /\ UNCHANGED <<allocated, handles, rootObj, nextId, vmRefs>> /\ KeepRest

\* from_raw: clone_from_raw is None for a null pointer; otherwise the
\* clone becomes a Rooted of the innermost scope (from_vm_extern_ref).
FromRaw(r) ==
  /\ Step
  /\ handles' = IF r = NoRef THEN handles
                ELSE handles \cup {[obj |-> r, scope |-> Top, ty |-> "extern"]}
  /\ UNCHANGED <<allocated, rootObj, nextId, vmRefs, activations, raws>> /\ KeepRest

(***************************************************************************)
(* wasmtime_val_t                                                          *)
(***************************************************************************)
\* Mutant of BoxRef: the failure of to_manually_rooted is ignored.
BoxRefUnchecked(h) ==
  [slot |-> [kind |-> h.ty, box |-> nextId, bits |-> NullFuncBits],
   rootObj |-> [rootObj EXCEPT ![nextId] = h.obj],
   rootLive |-> rootLive \cup {nextId}, boxLive |-> boxLive \cup {nextId}]

\* The effect of from_val(cx, Val::AnyRef(Some(h))) or Val::ExternRef(Some(h))
\* on the roots and boxes, as a record of their next values and the slot
\* written.  `to_manually_rooted(cx).ok()?` turns a failure into a null pointer.
BoxRef(h) ==
  IF Valid(h)
  THEN [slot |-> [kind |-> h.ty, box |-> nextId, bits |-> NullFuncBits],
        rootObj |-> [rootObj EXCEPT ![nextId] = h.obj],
        rootLive |-> rootLive \cup {nextId}, boxLive |-> boxLive \cup {nextId}]
  ELSE [slot |-> Null(h.ty), rootObj |-> rootObj, rootLive |-> rootLive,
        boxLive |-> boxLive]

Install(r) == rootObj' = r.rootObj /\ rootLive' = r.rootLive /\ boxLive' = r.boxLive

\* The FuncRef arm of from_val: None is (0, 0), Some(f) is f transmuted.
FuncSlot(f) ==
  [kind |-> "func", box |-> 0, bits |-> IF f = NoRef THEN NullFuncBits ELSE FuncBits[f]]

\* Mutant of FuncRefOf: either half of (0, 0) is taken for None.
FuncRefOfEither(bits) ==
  IF bits[1] = 0 \/ bits[2] = 0 THEN NoRef ELSE CHOOSE f \in Funcs : FuncBits[f] = bits

\* The FuncRef arm of to_val: store_id 0 and index 0 is None.
FuncRefOf(bits) ==
  IF bits[1] = 0 /\ bits[2] = 0 THEN NoRef ELSE CHOOSE f \in Funcs : FuncBits[f] = bits

\* wasmtime_val_t::to_val: the Val a C value stands for.
ToValOf(s) ==
  CASE slots[s].kind \in RefKinds ->
         Val(slots[s].kind, IF slots[s].box = 0 THEN NoRef ELSE rootObj[slots[s].box])
    [] slots[s].kind = "func" -> Val("func", FuncRefOf(slots[s].bits))
    [] OTHER -> Val(slots[s].kind, NoRef)

\* wasmtime_val_t::from_val of Val::AnyRef(Some(h)) or Val::ExternRef(Some(h)).
FromVal(s, h) ==
  /\ Step /\ slots[s] = Uninit /\ h \in handles
  /\ LET r == BoxRef(h)
     IN slots' = [slots EXCEPT ![s] = r.slot] /\ Install(r)
  /\ nextId' = nextId + 1
  /\ given' = [given EXCEPT ![s] = Val(h.ty, h.obj)]
  /\ UNCHANGED <<host, wref, wslots, wgiven>>
  /\ UNCHANGED refs /\ EndBorrow

\* wasmtime_val_t::from_val of Val::FuncRef(f), f possibly None.
FromValFunc(s, f) ==
  /\ Step /\ slots[s] = Uninit
  /\ slots' = [slots EXCEPT ![s] = FuncSlot(f)]
  /\ given' = [given EXCEPT ![s] = Val("func", f)]
  /\ UNCHANGED <<host, rootObj, rootLive, boxLive, wref, wslots, nextId, wgiven>>
  /\ UNCHANGED refs /\ EndBorrow

\* wasmtime_val_t::from_val of a value that owns nothing: an integer or
\* a None anyref or externref, which is stored as a null pointer.
FromValPlain(s, k) ==
  /\ Step /\ slots[s] = Uninit
  /\ slots' = [slots EXCEPT ![s] = Null(k)]
  /\ given' = [given EXCEPT ![s] = Val(k, NoRef)]
  /\ UNCHANGED <<host, rootObj, rootLive, boxLive, wref, wslots, nextId, wgiven>>
  /\ UNCHANGED refs /\ EndBorrow

\* wasmtime_val_t::to_val called by the host: a non-null reference becomes
\* a Rooted in the innermost scope (ManuallyRooted::to_rooted).
ToVal(s) ==
  /\ Step /\ slots[s].kind \in RefKinds /\ slots[s].box /= 0
  /\ handles' = handles \cup {[obj |-> rootObj[slots[s].box], scope |-> Top,
                               ty |-> slots[s].kind]}
  /\ UNCHANGED <<allocated, collected, scopes, hostRoots, rootObj, rootLive,
                 boxLive, wref, slots, wslots, nextId, given, wgiven>>
  /\ UNCHANGED refs /\ EndBorrow

\* wasmtime_val_copy(cx, dst, src): src.to_val(cx), then from_val into dst;
\* the intermediate Rooted stays in the innermost scope.
ValCopy(d, s) ==
  /\ Step /\ d /= s /\ slots[d] = Uninit /\ slots[s] /= Uninit
  /\ LET v == ToValOf(s) IN
     IF v[1] \in RefKinds /\ v[2] /= NoRef
     THEN LET h == [obj |-> v[2], scope |-> Top, ty |-> v[1]]
              r == BoxRef(h)
          IN /\ handles' = handles \cup {h}
             /\ slots' = [slots EXCEPT ![d] = r.slot] /\ Install(r)
             /\ nextId' = nextId + 1
     ELSE /\ slots' = [slots EXCEPT ![d] = IF v[1] = "func" THEN FuncSlot(v[2])
                                                           ELSE Null(v[1])]
          /\ UNCHANGED <<handles, rootObj, rootLive, boxLive, nextId>>
  /\ given' = [given EXCEPT ![d] = given[s]]
  /\ UNCHANGED <<allocated, collected, scopes, hostRoots, wref, wslots, wgiven>>
  /\ UNCHANGED refs /\ EndBorrow

\* Drop for wasmtime_val_t: a non-null anyref or externref box is freed
\* (the ManuallyRooted inside is dropped without being unrooted).
DropVal(s) ==
  IF slots[s].kind \in RefKinds THEN boxLive \ {slots[s].box} ELSE boxLive

\* Mutant of ValDelete: only the externref arm unroots.
ValDeleteExternOnly(s) ==
  /\ Step /\ slots[s] /= Uninit
  /\ rootLive' = IF slots[s].kind = "extern" THEN rootLive \ {slots[s].box} ELSE rootLive
  /\ boxLive' = DropVal(s)
  /\ slots' = [slots EXCEPT ![s] = Uninit]
  /\ UNCHANGED <<host, rootObj, wref, wslots, nextId, given, wgiven>>
  /\ UNCHANGED refs /\ EndBorrow

\* wasmtime_val_delete(cx, val): a non-null anyref or externref is read out
\* of its box and unrooted, then ManuallyDrop::drop runs Drop, which frees
\* the box.  Root n lives in box n.
ValDelete(s) ==
  /\ Step /\ slots[s] /= Uninit
  /\ rootLive' = IF slots[s].kind \in RefKinds THEN rootLive \ {slots[s].box} ELSE rootLive
  /\ boxLive' = DropVal(s)
  /\ slots' = [slots EXCEPT ![s] = Uninit]
  /\ UNCHANGED <<host, rootObj, wref, wslots, nextId, given, wgiven>>
  /\ UNCHANGED refs /\ EndBorrow

(***************************************************************************)
(* wasm_val_t: only funcrefs own a box (from_val aborts on externrefs).   *)
(***************************************************************************)
\* wasm_val_t::from_val of Val::FuncRef(Some(f)): a fresh Box<wasm_ref_t>.
WasmFromVal(w, f) ==
  /\ Step /\ wslots[w] = Uninit
  /\ wslots' = [wslots EXCEPT ![w] = [kind |-> "func", box |-> nextId, bits |-> NullFuncBits]]
  /\ wref' = [wref EXCEPT ![nextId] = f]
  /\ boxLive' = boxLive \cup {nextId}
  /\ nextId' = nextId + 1
  /\ wgiven' = [wgiven EXCEPT ![w] = Val("func", f)]
  /\ UNCHANGED <<host, rootObj, rootLive, slots, given>>
  /\ UNCHANGED refs /\ EndBorrow

\* wasm_val_t::from_val of an integer or Val::FuncRef(None).
WasmFromValPlain(w, k) ==
  /\ Step /\ wslots[w] = Uninit
  /\ wslots' = [wslots EXCEPT ![w] = Null(k)]
  /\ wgiven' = [wgiven EXCEPT ![w] = Val(k, NoRef)]
  /\ UNCHANGED <<host, rootObj, rootLive, boxLive, wref, slots, nextId, given>>
  /\ UNCHANGED refs /\ EndBorrow

\* wasm_val_t::val: a null funcref is None, a box is read by ref_to_val.
WVal(w) ==
  IF wslots[w].kind = "func"
  THEN Val("func", IF wslots[w].box = 0 THEN NoRef ELSE wref[wslots[w].box])
  ELSE Val(wslots[w].kind, NoRef)

\* wasm_val_copy: Clone copies the bits and gives a non-null reference a
\* box of its own holding a clone of the wasm_ref_t.
WasmValCopy(d, s) ==
  /\ Step /\ d /= s /\ wslots[d] = Uninit /\ wslots[s] /= Uninit
  /\ IF wslots[s].kind = "func" /\ wslots[s].box /= 0
     THEN /\ wslots' = [wslots EXCEPT ![d] = [wslots[s] EXCEPT !.box = nextId]]
          /\ wref' = [wref EXCEPT ![nextId] = wref[wslots[s].box]]
          /\ boxLive' = boxLive \cup {nextId}
          /\ nextId' = nextId + 1
     ELSE /\ wslots' = [wslots EXCEPT ![d] = wslots[s]]
          /\ UNCHANGED <<wref, boxLive, nextId>>
  /\ wgiven' = [wgiven EXCEPT ![d] = wgiven[s]]
  /\ UNCHANGED <<host, rootObj, rootLive, slots, given>>
  /\ UNCHANGED refs /\ EndBorrow

\* wasm_val_delete: drop_in_place runs Drop, which frees a non-null box.
WasmValDelete(w) ==
  /\ Step /\ wslots[w] /= Uninit
  /\ boxLive' = boxLive \ {wslots[w].box}
  /\ wslots' = [wslots EXCEPT ![w] = Uninit]
  /\ UNCHANGED <<host, rootObj, rootLive, wref, slots, nextId, given, wgiven>>
  /\ UNCHANGED refs /\ EndBorrow

Next ==
  \/ \E o \in Objects : ExternRefNew(o) \/ NewManuallyRooted(o) \/ HostAnyRef(o)
  \/ \E n \in hostRoots : HostToRooted(n) \/ HostUnroot(n)
  \/ \E h \in {g \in handles : g.ty = "extern"} : Data(h)
  \/ EnterScope \/ ExitScope \/ Collect \/ GcSweep
  \/ \E h \in {g \in handles : g.ty = "extern"} : ToVmExternRef(h) \/ ToRaw(h)
  \/ \E n \in vmRefs : WasmDropRef(n) \/ FromVmExternRef(n)
  \/ \E r \in raws \cup {NoRef} : FromRaw(r)
  \/ \E s \in Slots : \/ \E h \in handles : FromVal(s, h)
                      \/ \E f \in Funcs \cup {NoRef} : FromValFunc(s, f)
                      \/ \E k \in {"i32"} \cup RefKinds : FromValPlain(s, k)
                      \/ ToVal(s) \/ ValDelete(s)
                      \/ \E d \in Slots : ValCopy(d, s)
  \/ \E w \in WSlots : \/ \E f \in Funcs : WasmFromVal(w, f)
                       \/ \E k \in {"i32", "func"} : WasmFromValPlain(w, k)
                       \/ WasmValDelete(w)
                       \/ \E d \in WSlots : WasmValCopy(d, w)

Spec == Init /\ [][Next]_vars

(***************************************************************************)
(* Properties.                                                             *)
(***************************************************************************)
Owners == {<<"wasmtime", s>> : s \in {t \in Slots : slots[t].box /= 0}}
          \cup {<<"wasm", w>> : w \in {v \in WSlots : wslots[v].box /= 0}}
BoxOf(o) == IF o[1] = "wasmtime" THEN slots[o[2]].box ELSE wslots[o[2]].box

\* Ownership is exact: the live boxes are exactly those the initialised C
\* values hold, no two values hold the same box (so no delete frees a box
\* another value still uses, and none is freed twice), and the live manual
\* roots are exactly the host's own and those in the boxes of
\* wasmtime_val_t anyrefs and externrefs (none leaks past its value's delete, none is
\* unrooted while a value holds it).
OwnershipExact ==
  /\ boxLive = {BoxOf(o) : o \in Owners}
  /\ Cardinality({BoxOf(o) : o \in Owners}) = Cardinality(Owners)
  /\ rootLive = hostRoots \cup {slots[s].box : s \in {t \in Slots : slots[t].kind \in RefKinds
                                                                   /\ slots[t].box /= 0}}

\* No dangling reference: the object behind every non-null anyref or
\* externref a wasmtime_val_t holds has not been reclaimed, whatever scopes the host
\* has left and whatever collections have run.
NoDanglingRef ==
  \A s \in Slots : slots[s].kind \in RefKinds /\ slots[s].box /= 0
                     => rootObj[slots[s].box] \notin collected

\* Values round-trip: to_val of a wasmtime_val_t and val() of a wasm_val_t
\* give back the Val the value was made from by from_val, or by a chain of
\* *_val_copy calls from such a value, through the funcref bit encoding,
\* the boxes and the manual roots.  The one allowed loss is a reference
\* that comes back as None (the `.ok()?` of from_val on an unrooted
\* Rooted); it never comes back as another object.
RoundTrip ==
  /\ \A s \in Slots :
       slots[s] /= Uninit =>
         \/ ToValOf(s) = given[s]
         \/ given[s][1] \in RefKinds /\ ToValOf(s) = Val(given[s][1], NoRef)
  /\ \A w \in WSlots : wslots[w] /= Uninit => WVal(w) = wgiven[w]

\* ExternRef::data and data_mut never borrow the host data of an object
\* the collector has reclaimed, however the Rooted handle was obtained
\* (from new, from to_rooted of a manual root, or from to_val).
DataNeverFreed == lastData /= NoRef => lastData \notin collected

\* A raw externref from to_raw stays valid until the next GC, even after
\* the host unroots the ExternRef it came from, so from_raw on it within
\* that window never roots a reclaimed object.
RawValidUntilGc == \A r \in raws : r \notin collected

\* Every VMExternRef wasm holds, whether it came from a Rooted the host
\* passed in or is about to be handed back by from_vm_extern_ref, names
\* an object that has not been reclaimed.
NoDanglingVmRef == \A n \in vmRefs : rootObj[n] \notin collected
=============================================================================
