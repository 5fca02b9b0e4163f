---------------------------- MODULE Materializers ----------------------------
(***************************************************************************)
(* The materializer registry (materializer.go) over the tuple store.       *)
(* Materialize and MaterializeAll look a callback up, run it and hand what *)
(* it returns to the store.  Nothing is held while the callback runs, so   *)
(* runs of one materializer may overlap, the application's data may change *)
(* under them and the name may be registered again.                        *)
(*                                                                         *)
(* A callback reads the application's data in one step, or fails.          *)
(***************************************************************************)
EXTENDS TupleStore

CONSTANTS
    Runners,           \* goroutines that call Materialize or MaterializeAll
    MaxRegistrations,  \* bound on the registrations of a name
    MaxChanges,        \* bound on the changes of the data behind a name
    Callback           \* what a registration of a name returns for a version of its data

ASSUME CallbackAssumption ==
    /\ MaxRegistrations \in Nat
    /\ MaxChanges \in Nat
    /\ Callback \in [Names \X (1..MaxRegistrations) \X (0..MaxChanges) -> Computed]

VARIABLES
    registered,  \* per name: its latest registration, 0 for none
    data,        \* per name: the version of the application's data
    run          \* per runner: the call in progress

VARIABLES
    promised,    \* history, per name: registration and data when the last good call began
    overlapped   \* history: the names last stored by a run that another run had overtaken

registryVars == <<registered, data, run, promised, overlapped>>

NoRun == [phase |-> "idle"]

\* A run of n that has its callback.
Active(r, n) == run[r].phase \in {"call", "store"} /\ run[r].name = n

(***************************************************************************)
(* The application                                                         *)
(***************************************************************************)

register(n) ==
    /\ registered[n] < MaxRegistrations
    /\ registered' = [registered EXCEPT ![n] = @ + 1]
    /\ UNCHANGED <<vars, data, run, promised, overlapped>>

DataChanges(n) ==
    /\ data[n] < MaxChanges
    /\ data' = [data EXCEPT ![n] = @ + 1]
    /\ UNCHANGED <<vars, registered, run, promised, overlapped>>

BeginRun(r, names) ==
    /\ run[r] = NoRun
    /\ run' = [run EXCEPT ![r] = [phase |-> "next", todo |-> names, failed |-> FALSE,
                                  since |-> [n \in names |-> <<registered[n], data[n]>>]]]
    /\ UNCHANGED <<vars, registered, data, promised, overlapped>>

Materialize(r, n) == BeginRun(r, {n})

\* With nothing registered it returns at once.
MaterializeAll(r) ==
    LET names == {n \in Names : registered[n] # 0}
    IN  names # {} /\ BeginRun(r, names)

(***************************************************************************)
(* A run                                                                   *)
(***************************************************************************)

\* Fault: the last error is returned, not the first.
LastErr(r, failed) == failed

firstErr(r, failed) == run[r].failed \/ failed

\* The runner once n is done with: the next name, or the return of the call.
After(r, n, failed) ==
    IF run[r].todo = {n} THEN NoRun
    ELSE [phase |-> "next", todo |-> run[r].todo \ {n}, failed |-> firstErr(r, failed),
          since |-> run[r].since]

Later(a, b) == IF a[1] < b[1] \/ a[2] < b[2] THEN b ELSE a

\* A call that returns no error vouches for every name it was about.
Vouched(r, n, failed) ==
    IF run[r].todo # {n} \/ firstErr(r, failed) THEN promised
    ELSE [m \in Names |-> IF m \in DOMAIN run[r].since THEN Later(promised[m], run[r].since[m])
                          ELSE promised[m]]

\* materialize finds no callback, or the callback returns an error.
Fails(r, n) ==
    /\ \/ run[r].phase = "next" /\ n \in run[r].todo /\ registered[n] = 0
       \/ run[r].phase = "call" /\ run[r].name = n
    /\ run' = [run EXCEPT ![r] = After(r, n, TRUE)]
    /\ promised' = Vouched(r, n, TRUE)
    /\ UNCHANGED <<vars, registered, data, overlapped>>

Lookup(r, n) ==
    /\ run[r].phase = "next"
    /\ n \in run[r].todo
    /\ registered[n] # 0
    /\ run' = [run EXCEPT ![r] = [phase |-> "call", todo |-> @.todo, failed |-> @.failed,
                                  since |-> @.since, name |-> n, fn |-> registered[n],
                                  version |-> 0, alone |-> TRUE]]
    /\ UNCHANGED <<vars, registered, data, promised, overlapped>>

Compute(r) ==
    /\ run[r].phase = "call"
    /\ run' = [run EXCEPT ![r].phase = "store", ![r].version = data[run[r].name]]
    /\ UNCHANGED <<vars, registered, data, promised, overlapped>>

\* The callback that was looked up is the one whose tuples are stored.
Store(r) ==
    /\ run[r].phase = "store"
    /\ LET n == run[r].name
       IN  /\ WriteMaterialized(n, Callback[n, run[r].fn, run[r].version])
           /\ run' = [x \in Runners |-> IF x = r THEN After(r, n, FALSE)
                                        ELSE IF Active(x, n) THEN [run[x] EXCEPT !.alone = FALSE]
                                        ELSE run[x]]
           /\ promised' = Vouched(r, n, FALSE)
           /\ overlapped' = IF run[r].alone THEN overlapped \ {n} ELSE overlapped \cup {n}
    /\ UNCHANGED <<registered, data>>

(***************************************************************************)
(* Specification                                                           *)
(***************************************************************************)

RegistryInit ==
    /\ registered = [n \in Names |-> 0]
    /\ data = [n \in Names |-> 0]
    /\ run = [r \in Runners |-> NoRun]
    /\ promised = [n \in Names |-> <<0, 0>>]
    /\ overlapped = {}

Runs(r) ==
    \/ \E n \in Names : Materialize(r, n) \/ Lookup(r, n) \/ Fails(r, n)
    \/ MaterializeAll(r)
    \/ Compute(r)
    \/ Store(r)

(***************************************************************************)
(* Properties                                                              *)
(***************************************************************************)

\* When Materialize or MaterializeAll returns without an error, ReadTuples shows
\* what each of its callbacks returns for the application's data as of the call or
\* later, through a registration as of the call or later; it stays so, whatever
\* other runs fail, unless a run that another one has overtaken stores its older
\* result on top (materializer.go:44-79).
MaterializedFresh ==
    \A n \in Names \ overlapped :
        promised[n][1] # 0 =>
            \E f \in promised[n][1]..registered[n], v \in promised[n][2]..data[n] :
                materialized[n] = Callback[n, f, v]
=============================================================================
