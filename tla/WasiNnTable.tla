---------------------------- MODULE WasiNnTable ----------------------------
(***************************************************************************)
(* The handle table of the wasi-nn host context (Table<K, V> in           *)
(* crates/wasi-nn/src/ctx.rs).  WasiNnCtx keeps one for graphs and one for *)
(* execution contexts; each hands the guest a u32 key per inserted value. *)
(*                                                                         *)
(* The key counter is `next_key: u32`; KeyBits scales its width so that   *)
(* its wraparound is reachable.  OverflowChecks says which build runs:     *)
(* with overflow checks `self.next_key += 1` panics at the maximum, in a  *)
(* release build it wraps to 0.                                            *)
(***************************************************************************)
EXTENDS Naturals

CONSTANTS
  Values,         \* the values (graphs, execution contexts) the host inserts
  KeyBits,        \* scaled width of next_key (32 in the code)
  OverflowChecks, \* TRUE: `+=` panics on overflow; FALSE: it wraps
  MaxInserts,     \* bound on the number of insert calls
  NoValue         \* a model value: no entry under a key

ASSUME NoValue \notin Values /\ KeyBits \in Nat \ {0} /\ MaxInserts \in Nat

Keys == 0 .. 2^KeyBits - 1
MaxKey == 2^KeyBits - 1

VARIABLES
  entries,   \* HashMap<K, V>: the value under each key, or NoValue
  nextKey,   \* next_key
  handles,   \* the <<key, value>> pairs insert has returned to its callers
  lastGet,   \* <<key, result>> of the latest get_mut, for traces and checks
  panicked,  \* an insert panicked on the overflow of next_key
  inserts    \* insert calls so far (bounded by MaxInserts)

vars == <<entries, nextKey, handles, lastGet, panicked, inserts>>

(***************************************************************************)
(* Table::default: no entries and next_key 0.                              *)
(***************************************************************************)
Init ==
  /\ entries = [k \in Keys |-> NoValue]
  /\ nextKey = 0
  /\ handles = {}
  /\ lastGet = <<0, NoValue>>
  /\ panicked = FALSE
  /\ inserts = 0

\* Mutant of NextKey: use_next_key forgets to advance the counter.
NextKeyStale(k) == k

\* use_next_key: `self.next_key += 1` as the build computes it: the plain
\* sum where overflow is checked (it panics instead of overflowing), the
\* sum modulo 2^32 in a release build.
NextKey(k) == IF OverflowChecks THEN k + 1 ELSE (k + 1) % 2^KeyBits

\* Mutant of UseNextKeyPanics: the overflow is detected one step late.
UseNextKeyPanicsLate == OverflowChecks /\ nextKey > MaxKey

\* use_next_key panics: overflow checks on and the counter at u32::MAX.
UseNextKeyPanics == OverflowChecks /\ nextKey = MaxKey

\* Table::insert(value): take the next key, then HashMap::insert, which
\* replaces whatever the key held; the key is returned to the caller.
Insert(v) ==
  /\ ~panicked /\ inserts < MaxInserts
  /\ ~UseNextKeyPanics
  /\ nextKey' = NextKey(nextKey)
  /\ entries' = [entries EXCEPT ![nextKey] = v]
  /\ handles' = handles \cup {<<nextKey, v>>}
  /\ inserts' = inserts + 1
  /\ UNCHANGED <<lastGet, panicked>>

\* Table::insert when `self.next_key += 1` overflows with checks on: the
\* panic leaves before HashMap::insert, so the table is unchanged.
InsertPanics ==
  /\ ~panicked /\ inserts < MaxInserts
  /\ UseNextKeyPanics
  /\ panicked' = TRUE
  /\ inserts' = inserts + 1
  /\ UNCHANGED <<entries, nextKey, handles, lastGet>>

\* Table::get_mut(key): the entry under the key, if any.
GetMut(k) ==
  /\ ~panicked
  /\ lastGet' = <<k, entries[k]>>
  /\ UNCHANGED <<entries, nextKey, handles, panicked, inserts>>

Next ==
  \/ \E v \in Values : Insert(v)
  \/ InsertPanics
  \/ \E k \in Keys : GetMut(k)

Spec == Init /\ [][Next]_vars

(***************************************************************************)
(* Properties.                                                             *)
(***************************************************************************)
TypeOK ==
  /\ entries \in [Keys -> Values \cup {NoValue}]
  /\ nextKey \in Keys
  /\ handles \subseteq Keys \X Values
  /\ lastGet \in Keys \X (Values \cup {NoValue})
  /\ panicked \in BOOLEAN
  /\ inserts \in 0 .. MaxInserts

\* Handle stability: every key insert has returned still names the value it
\* was returned for, so get_mut on a graph or execution-context handle never
\* reaches another caller's value.  It fails if use_next_key ever hands out
\* a key twice.
HandleStable == \A h \in handles : entries[h[1]] = h[2]
=============================================================================
