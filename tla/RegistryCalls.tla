---------------------------- MODULE RegistryCalls ----------------------------
(***************************************************************************)
(* The in-memory registry (registry/memory.go) as its callers meet it:     *)
(* several threads, a mutex, and the statements of each method between     *)
(* Lock and the deferred Unlock as steps of their own.  To callers it is   *)
(* MemoryRegistry, where a method is one step.                             *)
(***************************************************************************)
EXTENDS MemoryRegistry

CONSTANTS
    Threads,      \* goroutines that call the registry
    Nobody        \* holds the mutex when no thread does

ASSUME ThreadsAssumption == Nobody \notin Threads

VARIABLES
    mu,           \* the thread that holds the mutex
    call          \* call[t]: where t is, its argument, and the number it is to return

registryVars == <<identifiers, nextPartyNo, consentCounters, times>>
callVars == <<registryVars, mu, call>>

Keys == Slots \X Chains
PC == {"idle", "lock", "find", "increment", "assign", "look", "count", "store", "unlock"}

\* n is Unassigned until there is a number, and again when the method fails.
Idle == [op |-> "none", pc |-> "idle", arg |-> Nobody, n |-> Unassigned]

At(t, pc) == call[t].pc = pc
Goto(t, pc) == call' = [call EXCEPT ![t].pc = pc]
Holding(t, pc, n) == call' = [call EXCEPT ![t].pc = pc, ![t].n = n]
Calls(t, op, pc, arg) ==
    /\ At(t, "idle")
    /\ call' = [call EXCEPT ![t] = [op |-> op, pc |-> pc, arg |-> arg, n |-> Unassigned]]
    /\ UNCHANGED <<registryVars, mu>>

CallsInit ==
    /\ Init
    /\ mu = Nobody
    /\ call = [t \in Threads |-> Idle]

-----------------------------------------------------------------------------
(* The mutex *)

\* Slip: nobody waits.
LockShared(t) ==
    /\ At(t, "lock")
    /\ mu' = t
    /\ Goto(t, CASE call[t].op = "LookupOrCreate" -> "find"
                 [] call[t].op = "Lookup" -> "look"
                 [] OTHER -> "count")
    /\ UNCHANGED registryVars

Lock(t) ==
    /\ At(t, "lock")
    /\ mu = Nobody
    /\ mu' = t
    /\ Goto(t, CASE call[t].op = "LookupOrCreate" -> "find"
                 [] call[t].op = "Lookup" -> "look"
                 [] OTHER -> "count")
    /\ UNCHANGED registryVars

\* Slip: a method that fails returns early and keeps the mutex.
UnlockUnlessFailed(t) ==
    /\ At(t, "unlock")
    /\ mu' = IF call[t].n = Unassigned THEN mu ELSE Nobody
    /\ call' = [call EXCEPT ![t] = Idle]
    /\ UNCHANGED registryVars

\* Deferred, so that every return runs it.
Unlock(t) ==
    /\ At(t, "unlock")
    /\ mu' = Nobody
    /\ call' = [call EXCEPT ![t] = Idle]
    /\ UNCHANGED registryVars

-----------------------------------------------------------------------------
(* LookupOrCreate, Lookup *)

LookupOrCreate(t, i) == Calls(t, "LookupOrCreate", "lock", i)

\* Slip: readers do not lock.
LookupUnlocked(t, i) == Calls(t, "Lookup", "look", i)

Lookup(t, i) == Calls(t, "Lookup", "lock", i)

\* Slip: the last index is taken for the size of the space.
FindOffByOne(t) ==
    /\ At(t, "find")
    /\ LET n == identifiers[call[t].arg] IN
         IF n # Unassigned THEN Holding(t, "unlock", n)
         ELSE IF nextPartyNo > MaxIndex + 1 THEN Goto(t, "unlock")
         ELSE Holding(t, "increment", nextPartyNo)
    /\ UNCHANGED <<registryVars, mu>>

Find(t) ==
    /\ At(t, "find")
    /\ LET n == identifiers[call[t].arg] IN
         IF n # Unassigned THEN Holding(t, "unlock", n)
         ELSE IF nextPartyNo > MaxIndex THEN Goto(t, "unlock")
         ELSE Holding(t, "increment", nextPartyNo)
    /\ UNCHANGED <<registryVars, mu>>

\* Slip: the mutex is given back once the number is taken.
IncrementPartyNoUnlocks(t) ==
    /\ At(t, "increment")
    /\ nextPartyNo' = Increment(nextPartyNo)
    /\ mu' = Nobody
    /\ Goto(t, "assign")
    /\ UNCHANGED <<identifiers, consentCounters, times>>

IncrementPartyNo(t) ==
    /\ At(t, "increment")
    /\ nextPartyNo' = Increment(nextPartyNo)
    /\ Goto(t, "assign")
    /\ UNCHANGED <<identifiers, consentCounters, times, mu>>

Assign(t) ==
    /\ At(t, "assign")
    /\ identifiers' = [identifiers EXCEPT ![call[t].arg] = call[t].n]
    /\ Goto(t, "unlock")
    /\ UNCHANGED <<nextPartyNo, consentCounters, times, mu>>

Look(t) ==
    /\ At(t, "look")
    /\ Holding(t, "unlock", identifiers[call[t].arg])
    /\ UNCHANGED <<registryVars, mu>>

-----------------------------------------------------------------------------
(* NextConsentNumber *)

\* Slip: the method does not lock.
NextConsentNumberUnlocked(t, k) == Calls(t, "NextConsentNumber", "count", k)

NextNumber(t, k) == Calls(t, "NextConsentNumber", "lock", k)

\* A missing counter reads as 0.
Count(t) ==
    /\ At(t, "count")
    /\ LET n == consentCounters[call[t].arg] IN
         IF n > MaxIndex THEN Goto(t, "unlock") ELSE Holding(t, "store", n)
    /\ UNCHANGED <<registryVars, mu>>

\* Slip: the number returned is the one stored, as if numbering began at 1.
StoreAndReturn(t) ==
    /\ At(t, "store")
    /\ LET k == call[t].arg
           n == Increment(call[t].n)
       IN /\ consentCounters' = [consentCounters EXCEPT ![k] = n]
          /\ times' = [times EXCEPT ![k][n] = @ + 1]
          /\ Holding(t, "unlock", n)
    /\ UNCHANGED <<identifiers, nextPartyNo, mu>>

Store(t) ==
    /\ At(t, "store")
    /\ LET k == call[t].arg
           n == call[t].n
       IN /\ consentCounters' = [consentCounters EXCEPT ![k] = Increment(n)]
          /\ times' = [times EXCEPT ![k][n] = @ + 1]
    /\ Goto(t, "unlock")
    /\ UNCHANGED <<identifiers, nextPartyNo, mu>>

-----------------------------------------------------------------------------

Step(t) ==
    \/ Find(t) \/ IncrementPartyNo(t) \/ Assign(t) \/ Look(t)
    \/ Count(t) \/ Store(t) \/ Unlock(t)

CallsNext ==
    \E t \in Threads:
        \/ \E i \in Identifiers: LookupOrCreate(t, i) \/ Lookup(t, i)
        \/ \E k \in Keys: NextNumber(t, k)
        \/ Lock(t)
        \/ Step(t)

\* A running method goes on. sync.Mutex does not let a waiter starve: one that has
\* waited too long is handed the mutex.
CallsSpec ==
    /\ CallsInit /\ [][CallsNext]_callVars
    /\ \A t \in Threads: WF_callVars(Step(t)) /\ SF_callVars(Lock(t))

-----------------------------------------------------------------------------
(* Properties *)

\* A thread returns what the registry holds for its identifier when the mutex is given
\* back: the slot, or nothing only if there is none. (The slot of LookupOrCreate is the
\* one assigned, whoever else asked for the same identifier at the same time.)
AnswersAreCurrent ==
    \A t \in Threads:
        At(t, "unlock") /\ call[t].op \in {"LookupOrCreate", "Lookup"} =>
            call[t].n = identifiers[call[t].arg]

\* Between its two writes, LookupOrCreate has taken the number and not yet noted whose
\* it is. Callers cannot see that, so the identifier counts as assigned already.
Assigning(i) == {t \in Threads : At(t, "assign") /\ call[t].arg = i}

AssignedNumbers ==
    [i \in Identifiers |-> IF Assigning(i) = {} THEN identifiers[i]
                           ELSE LET t == CHOOSE t \in Assigning(i) : TRUE IN call[t].n]

Atomic == INSTANCE MemoryRegistry WITH identifiers <- AssignedNumbers

\* However the threads' statements interleave, the registry behaves as if each method
\* were one step (registry.go: "All methods must be safe for concurrent use").
CallsAreAtomic == Atomic!Spec

\* Every method returns, the failing ones included.
CallsReturn == \A t \in Threads: ~At(t, "idle") ~> At(t, "idle")

=============================================================================
