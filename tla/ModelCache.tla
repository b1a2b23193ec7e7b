----------------------------- MODULE ModelCache -----------------------------
(***************************************************************************)
(* What the model store promises the pipelines, with nothing said of how   *)
(* it keeps the promise: a borrower asks for a module by key and is given  *)
(* the one instance of that key; as long as anybody borrows a module its   *)
(* instance neither moves nor disappears; what nobody borrows may be       *)
(* dropped at any time.  Whoever asks may also be refused, and the whole   *)
(* cache may be closed.  ModelStore implements this specification.         *)
(***************************************************************************)
CONSTANTS Module,      \* the modules one can ask for
          Instance,    \* the objects a loaded module may be
          Borrower,    \* whoever may hold one borrowed module
          NULL         \* no instance, no module

VARIABLES instance,    \* module -> the instance it is loaded as
          loan,        \* borrower -> the module it borrows
          open         \* the cache still serves

cacheVars == <<instance, loan, open>>

Borrowed(l) == {l[b] : b \in Borrower} \ {NULL}

CacheTypeOK ==
    /\ instance \in [Module -> Instance \cup {NULL}]
    /\ loan \in [Borrower -> Module \cup {NULL}]
    /\ open \in BOOLEAN

\* Every module in S keeps its instance in this step.
Pinned(S) == \A m \in S : instance'[m] = instance[m]

CacheInit ==
    /\ instance = [m \in Module |-> NULL]
    /\ loan = [b \in Borrower |-> NULL]
    /\ open = TRUE

Borrow(b, m) ==
    /\ open /\ loan[b] = NULL
    /\ loan' = [loan EXCEPT ![b] = m]
    /\ instance' \in [Module -> Instance \cup {NULL}]
    /\ instance'[m] # NULL
    /\ Pinned(Borrowed(loan))
    /\ UNCHANGED open

\* A refused request may still have cost idle modules their place.
Refuse ==
    /\ open
    /\ instance' \in [Module -> Instance \cup {NULL}]
    /\ Pinned(Borrowed(loan))
    /\ UNCHANGED <<loan, open>>

Return(b) ==
    /\ open /\ loan[b] # NULL
    /\ loan' = [loan EXCEPT ![b] = NULL]
    /\ instance' \in [Module -> Instance \cup {NULL}]
    /\ Pinned(Borrowed(loan'))
    /\ UNCHANGED open

HandOver(b, c) ==
    /\ open /\ loan[b] # NULL /\ loan[c] = NULL
    /\ loan' = [loan EXCEPT ![b] = NULL, ![c] = loan[b]]
    /\ UNCHANGED <<instance, open>>

Close ==
    /\ open
    /\ open' = FALSE
    /\ loan' = [b \in Borrower |-> NULL]
    /\ instance' = [m \in Module |-> NULL]

CacheNext ==
    \/ \E b \in Borrower : \E m \in Module : Borrow(b, m)
    \/ \E b \in Borrower : Return(b)
    \/ \E b, c \in Borrower : HandOver(b, c)
    \/ Refuse
    \/ Close

CacheSpec == CacheInit /\ [][CacheNext]_cacheVars
=============================================================================
