----------------------------- MODULE ModelStore -----------------------------
(***************************************************************************)
(* The model store (src/src/model-store.cpp): the one owner of every GPU   *)
(* module.  Pipelines require a module by ModelKey, hold it through a      *)
(* ModelHandle and release it; the store loads, shares, counts and evicts  *)
(* under one mutex, so each call is one action.                            *)
(***************************************************************************)
EXTENDS Integers, FiniteSets

CONSTANTS
    Policy,        \* EvictPolicy: "STRICT" (default) or "NEVER" (--keep-loaded)
    ModelKey,      \* the ModelKey records the callers pass
    Handle,        \* the ModelHandle objects (RAII), each NULL or holding one module
    Addr,          \* heap addresses a module object may be given
    CpuPath,       \* GGUF paths the CPU-side tables are keyed by
    NULL

ASSUME StoreAssumption ==
    /\ Policy \in {"STRICT", "NEVER"}
    /\ IsFiniteSet(Handle)
    /\ NULL \notin Addr
    /\ \A k \in ModelKey :
          DOMAIN k = {"kind", "path", "max_seq", "n_kv_sets", "adapter_path", "adapter_scale"}

(***************************************************************************)
(* ModelKeyEq: which fields of a key tell two modules apart depends on the *)
(* kind.  Ident(k) keeps exactly those, so two keys are equal for the      *)
(* store iff their Ident is the same value.                                *)
(***************************************************************************)
Ident(k) ==
    [kind |-> k.kind, path |-> k.path,
     extras |-> CASE k.kind = "LM"  -> <<k.max_seq, k.n_kv_sets>>
                  [] k.kind = "DIT" -> <<k.adapter_path, k.adapter_scale>>
                  [] OTHER          -> <<>>]

Module == {Ident(k) : k \in ModelKey}

ASSUME NullIsNoModule == NULL \notin Module

VARIABLES
    gpu,            \* module -> [ptr, refcount]; Absent when not resident
    handle_to_key,  \* address -> the module installed there, or NULL
    heap,           \* addresses of the module objects alive
    handle,         \* ModelHandle -> the address it holds, or NULL
    cpu,            \* <<table, path>> pairs loaded on the CPU side
    proc            \* the process: running, or how it (or the store) ended

vars == <<gpu, handle_to_key, heap, handle, cpu, proc>>

\* A GpuEntry: the module object and how many handles hold it.
Entry(a, n) == [ptr |-> a, refcount |-> n]
Absent == Entry(NULL, 0)
CpuTable == {"bpe", "silence", "fsm", "dit_meta"}

\* Kinds whose loader ends the process on failure instead of returning NULL.
ExitingKind == {"VAE_ENC", "VAE_DEC"}

Resident == {m \in Module : gpu[m].ptr # NULL}

TypeOK ==
    /\ gpu \in [Module -> [ptr : Addr \cup {NULL}, refcount : Nat]]
    /\ handle_to_key \in [Addr -> Module \cup {NULL}]
    /\ heap \subseteq Addr
    /\ handle \in [Handle -> Addr \cup {NULL}]
    /\ cpu \subseteq CpuTable \X CpuPath
    /\ proc \in {"running", "aborted", "exited", "freed"}

Init ==
    /\ gpu = [m \in Module |-> Absent]
    /\ handle_to_key = [a \in Addr |-> NULL]
    /\ heap = {}
    /\ handle = [h \in Handle |-> NULL]
    /\ cpu = {}
    /\ proc = "running"
-----------------------------------------------------------------------------
(***************************************************************************)
(* evict_all_except                                                        *)
(***************************************************************************)
\* (A ...Bug operator is a plausible mistake in the definition that follows,
\* there to show which property would notice it.)
EvictsOnMissBug == FALSE

\* The policy test every store_require_* makes before it loads.
EvictsOnMiss == Policy = "STRICT"

ConflictMissedBug(m) == FALSE

\* Another module is still in use: the contract is broken, abort().
Conflict(m) == \E n \in Module \ {m} : gpu[n].refcount > 0

Kept(m) == IF EvictsOnMiss THEN Resident \cap {m} ELSE Resident

GpuOf(S) == [n \in Module |-> IF n \in S THEN gpu[n] ELSE Absent]

AddrOf(S) == {gpu[n].ptr : n \in S}

Unmapped(A) == [a \in Addr |-> IF a \in A THEN NULL ELSE handle_to_key[a]]
-----------------------------------------------------------------------------
(***************************************************************************)
(* store_require_*: hit, miss that loads, miss whose load fails, miss that *)
(* finds another module in use.                                            *)
(***************************************************************************)
RequireHitUncountedBug(h, k) ==
    /\ proc = "running" /\ handle[h] = NULL
    /\ Ident(k) \in Resident
    /\ handle' = [handle EXCEPT ![h] = gpu[Ident(k)].ptr]
    /\ UNCHANGED <<gpu, handle_to_key, heap, cpu, proc>>

RequireHit(h, k) ==
    /\ proc = "running" /\ handle[h] = NULL
    /\ Ident(k) \in Resident
    /\ gpu' = [gpu EXCEPT ![Ident(k)] = Entry(@.ptr, @.refcount + 1)]
    /\ handle' = [handle EXCEPT ![h] = gpu[Ident(k)].ptr]
    /\ UNCHANGED <<handle_to_key, heap, cpu, proc>>

MissReached(h, k) ==
    /\ proc = "running" /\ handle[h] = NULL
    /\ Ident(k) \notin Resident

\* install_entry at a fresh address, after everything else was evicted.
RequireLoad(h, k) ==
    LET m == Ident(k)
        gone == AddrOf(Resident \ Kept(m))
    IN  /\ MissReached(h, k)
        /\ ~ (EvictsOnMiss /\ Conflict(m))
        /\ \E a \in Addr \ (heap \ gone) :
              /\ gpu' = [GpuOf(Kept(m)) EXCEPT ![m] = Entry(a, 1)]
              /\ heap' = (heap \ gone) \cup {a}
              /\ handle_to_key' = [Unmapped(gone) EXCEPT ![a] = m]
              /\ handle' = [handle EXCEPT ![h] = a]
        /\ UNCHANGED <<cpu, proc>>

\* The loader returned false: NULL for the caller, the eviction stands.
RequireLoadFails(h, k) ==
    LET m == Ident(k)
        gone == AddrOf(Resident \ Kept(m))
    IN  /\ MissReached(h, k)
        /\ ~ (EvictsOnMiss /\ Conflict(m))
        /\ k.kind \notin ExitingKind
        /\ gpu' = GpuOf(Kept(m))
        /\ heap' = heap \ gone
        /\ handle_to_key' = Unmapped(gone)
        /\ UNCHANGED <<handle, cpu, proc>>

\* vae_enc_load and vae_ggml_load call exit(1) themselves.
RequireExits(h, k) ==
    /\ MissReached(h, k)
    /\ ~ (EvictsOnMiss /\ Conflict(Ident(k)))
    /\ k.kind \in ExitingKind
    /\ proc' = "exited"
    /\ UNCHANGED <<gpu, handle_to_key, heap, handle, cpu>>

RequireAborts(h, k) ==
    /\ MissReached(h, k)
    /\ EvictsOnMiss /\ Conflict(Ident(k))
    /\ proc' = "aborted"
    /\ UNCHANGED <<gpu, handle_to_key, heap, handle, cpu>>
-----------------------------------------------------------------------------
(***************************************************************************)
(* store_release, from the destructor of ModelHandle                       *)
(***************************************************************************)
\* The refcount that reaches zero unloads the module under this policy.
UnloadsAtZero == Policy = "STRICT"

ReleaseEntry(a, m) ==
    IF gpu[m].refcount = 1 /\ UnloadsAtZero
    THEN /\ gpu' = [gpu EXCEPT ![m] = Absent]
         /\ handle_to_key' = [handle_to_key EXCEPT ![a] = NULL]
         /\ heap' = heap \ {a}
    ELSE /\ gpu' = [gpu EXCEPT ![m] = Entry(@.ptr, @.refcount - 1)]
         /\ UNCHANGED <<handle_to_key, heap>>

\* Unknown handle: a warning.  Handle whose entry is gone: unmap it.
Release(h) ==
    LET a == handle[h]
        m == handle_to_key[a]
    IN  /\ proc = "running" /\ handle[h] # NULL
        /\ handle' = [handle EXCEPT ![h] = NULL]
        /\ IF m \in Resident
           THEN ReleaseEntry(a, m)
           ELSE /\ handle_to_key' = [handle_to_key EXCEPT ![a] = NULL]
                /\ UNCHANGED <<gpu, heap>>
        /\ UNCHANGED <<cpu, proc>>

\* The move constructor of ModelHandle: the source gives its module up.
MoveHandle(h, g) ==
    /\ proc = "running" /\ handle[h] # NULL /\ handle[g] = NULL
    /\ handle' = [handle EXCEPT ![g] = handle[h], ![h] = NULL]
    /\ UNCHANGED <<gpu, handle_to_key, heap, cpu, proc>>
-----------------------------------------------------------------------------
(***************************************************************************)
(* The CPU-side accessors: loaded by the first call that succeeds, kept.   *)
(* A failed load returns NULL and leaves the table alone.                  *)
(***************************************************************************)
CpuLoad(t, p) ==
    /\ proc = "running"
    /\ t \in {"bpe", "silence", "dit_meta"} /\ <<t, p>> \notin cpu
    /\ cpu' = cpu \cup {<<t, p>>}
    /\ UNCHANGED <<gpu, handle_to_key, heap, handle, proc>>

\* store_fsm calls store_bpe first (which locks and unlocks on its own: the
\* state between the two is that of CpuLoad("bpe", p)) and builds on it.
FsmLoad(p) ==
    /\ proc = "running"
    /\ <<"fsm", p>> \notin cpu
    /\ cpu' = cpu \cup {<<"bpe", p>>, <<"fsm", p>>}
    /\ UNCHANGED <<gpu, handle_to_key, heap, handle, proc>>

\* store_free: every entry goes whatever its refcount.
StoreFree ==
    /\ proc = "running"
    /\ proc' = "freed"
    /\ gpu' = GpuOf({})
    /\ heap' = heap \ AddrOf(Resident)
    /\ handle_to_key' = Unmapped(Addr)
    /\ cpu' = {}
    /\ UNCHANGED handle

Require(h, k) ==
    \/ RequireHit(h, k)
    \/ RequireLoad(h, k)
    \/ RequireLoadFails(h, k)
    \/ RequireExits(h, k)
    \/ RequireAborts(h, k)

Next ==
    \/ \E h \in Handle : \E k \in ModelKey : Require(h, k)
    \/ \E h \in Handle : Release(h)
    \/ \E h, g \in Handle : MoveHandle(h, g)
    \/ \E t \in CpuTable : \E p \in CpuPath : CpuLoad(t, p)
    \/ \E p \in CpuPath : FsmLoad(p)
    \/ StoreFree

Spec == Init /\ [][Next]_vars
-----------------------------------------------------------------------------
(***************************************************************************)
(* Properties                                                              *)
(***************************************************************************)
Running == proc = "running"

Held == {h \in Handle : handle[h] # NULL}

\* The handles that hold the resident module m.
Holders(m) == {h \in Handle : handle[h] = gpu[m].ptr}

\* No pipeline ever computes on freed memory: an address in a ModelHandle is
\* that of a live module, found under the key it was installed for, however
\* the other requires, releases and evictions were interleaved.
HeldHandlesLive ==
    Running => \A h \in Held :
        /\ handle[h] \in heap
        /\ handle_to_key[handle[h]] \in Resident
        /\ gpu[handle_to_key[handle[h]]].ptr = handle[h]

\* gpu and handle_to_key are inverse of each other and together account for
\* every module object: none leaks, none is owned twice, no stale address
\* stays mapped for a later module allocated there.
MapsAgree ==
    Running =>
        /\ heap = AddrOf(Resident)
        /\ \A m \in Resident : handle_to_key[gpu[m].ptr] = m
        /\ \A a \in Addr \ heap : handle_to_key[a] = NULL

\* A refcount is the number of handles held on the module: it neither pins a
\* module nobody uses nor lets one go that somebody does.
RefcountCountsHolders ==
    Running => \A m \in Resident : gpu[m].refcount = Cardinality(Holders(m))

\* The doctrine of model-store.h for the default policy: one GPU module at
\* most, whichever pipelines run.
StrictOneResident ==
    Running /\ Policy = "STRICT" => \A m, n \in Resident : m = n

\* The default policy holds no video memory while no pipeline holds a module.
StrictIdleIsEmpty ==
    Running /\ Policy = "STRICT" /\ Held = {} => Resident = {} /\ heap = {}

\* abort() is reserved to overlapping users: a caller that releases before it
\* requires the next module never meets it (a count left behind by somebody
\* who is gone would abort it), and --keep-loaded never does.
AbortMeansOverlap == proc = "aborted" => Held # {} /\ Policy = "STRICT"

\* --keep-loaded: what was loaded stays, at the same address, until store_free.
KeepLoadedNeverUnloads ==
    [][Policy = "NEVER" /\ proc' # "freed" =>
          \A m \in Resident : gpu'[m].ptr = gpu[m].ptr]_vars

(***************************************************************************)
(* The store implements the cache its callers rely on.                     *)
(***************************************************************************)
StoreInstance == [m \in Module |-> IF Running THEN gpu[m].ptr ELSE NULL]

StoreLoan ==
    [h \in Handle |-> IF Running /\ handle[h] # NULL THEN handle_to_key[handle[h]] ELSE NULL]

Cache == INSTANCE ModelCache WITH
            Instance <- Addr, Borrower <- Handle,
            instance <- StoreInstance, loan <- StoreLoan, open <- Running

\* Every step of the store is a step of ModelCache: a borrowed module keeps
\* its one instance until its last borrower returned it.
ImplementsCache == Cache!CacheSpec
=============================================================================
