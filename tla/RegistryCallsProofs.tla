------------------------- MODULE RegistryCallsProofs -------------------------
(***************************************************************************)
(* However many threads call the registry, and however their statements    *)
(* interleave, it behaves as if each method were one step.                 *)
(*                                                                         *)
(* A thread past Lock and not yet past Unlock holds the mutex, so there is *)
(* one of them at most, and what it read is still so when it writes.  A    *)
(* method takes effect with its first write: the number is then gone, and  *)
(* the second write only notes whose it is.  That gives the refinement,    *)
(* and with it everything that is proved of MemoryRegistry.                *)
(***************************************************************************)
EXTENDS RegistryCalls, MemoryRegistryProofs

Call == [op: {"none", "LookupOrCreate", "Lookup", "NextConsentNumber"}, pc: PC,
         arg: Identifiers \union Keys \union {Nobody}, n: Slots \union {Unassigned}]

\* Where thread t is says what it holds, and what of the registry it may rely on.
ThreadOK(t) ==
    LET k == call[t] IN
    /\ k.pc \notin {"idle", "lock"} => mu = t
    /\ k.pc \in {"find", "increment", "assign"} => k.op = "LookupOrCreate"
    /\ k.pc = "look" => k.op = "Lookup"
    /\ k.pc \in {"count", "store"} => k.op = "NextConsentNumber"
    /\ k.pc # "idle" => k.op # "none"
    /\ k.op \in {"LookupOrCreate", "Lookup"} => k.arg \in Identifiers
    /\ k.op = "NextConsentNumber" => k.arg \in Keys
    /\ k.pc \in {"lock", "find", "look"} => k.n = Unassigned
    /\ k.pc \in {"increment", "assign"} => identifiers[k.arg] = Unassigned
    /\ k.pc = "increment" => k.n = nextPartyNo
    /\ k.pc \in {"increment", "assign", "store"} => k.n \in Slots
    /\ k.pc = "store" => k.n = consentCounters[k.arg]
    /\ k.pc = "unlock" /\ k.op \in {"LookupOrCreate", "Lookup"} => k.n = identifiers[k.arg]

CallsInv ==
    /\ TypeOK
    /\ call \in [Threads -> Call]
    /\ \A t \in Threads: ThreadOK(t)

-----------------------------------------------------------------------------
(* What a thread relies on *)

LEMMA CallsInitInv == CallsInit => CallsInv
<1> SUFFICES ASSUME CallsInit PROVE CallsInv
  OBVIOUS
<1>1. TypeOK
  BY InitIInv DEF CallsInit, IInv
<1>2. Idle \in Call
  BY DEF Idle, Call, PC
<1>3. \A t \in Threads: ThreadOK(t)
  BY DEF CallsInit, ThreadOK, Idle
<1>4. QED
  BY <1>1, <1>2, <1>3 DEF CallsInit, CallsInv

\* A step outside the critical section, or into it, disturbs nobody.
LEMMA OutsideStep ==
    ASSUME CallsInv, NEW t \in Threads, UNCHANGED registryVars, UNCHANGED mu \/ mu = Nobody,
           NEW k \in Call, call' = [call EXCEPT ![t] = k], ThreadOK(t)'
    PROVE  CallsInv'
<1>1. TypeOK' /\ call' \in [Threads -> Call]
  BY DEF CallsInv, TypeOK, registryVars
<1>2. ASSUME NEW u \in Threads, u # t
      PROVE  ThreadOK(u)'
  <2>1. call'[u] = call[u] /\ ThreadOK(u)
    BY <1>2 DEF CallsInv
  <2>2. call[u].pc \notin {"idle", "lock"} => mu' = u
    BY <1>2, <2>1, ThreadsAssumption DEF ThreadOK
  <2>3. QED
    BY <2>1, <2>2 DEF ThreadOK, registryVars
<1>3. QED
  BY <1>1, <1>2 DEF CallsInv

\* Whoever holds the mutex may write: every other thread is outside, and relies on nothing.
LEMMA InsideStep ==
    ASSUME CallsInv, NEW t \in Threads, mu = t, mu' \in {t, Nobody}, TypeOK',
           NEW k \in Call, call' = [call EXCEPT ![t] = k], ThreadOK(t)'
    PROVE  CallsInv'
<1>1. ASSUME NEW u \in Threads, u # t
      PROVE  ThreadOK(u)'
  <2>1. call'[u] = call[u] /\ ThreadOK(u)
    BY <1>1 DEF CallsInv
  <2>2. call[u].pc \in {"idle", "lock"}
    BY <1>1, <2>1 DEF ThreadOK
  <2>3. QED
    BY <2>1, <2>2 DEF ThreadOK
<1>2. QED
  BY <1>1 DEF CallsInv

\* The step that finds the number to return, or to write next.
LEMMA HoldingInv ==
    ASSUME CallsInv, NEW t \in Threads, mu = t, UNCHANGED <<registryVars, mu>>,
           NEW pc \in {"unlock", "increment", "store"}, NEW n \in Slots \union {Unassigned},
           Holding(t, pc, n), call[t].pc \notin {"idle", "lock"},
           pc = "unlock" /\ call[t].op \in {"LookupOrCreate", "Lookup"} =>
              n = identifiers[call[t].arg],
           pc = "increment" => /\ call[t].op = "LookupOrCreate" /\ n = nextPartyNo
                               /\ identifiers[call[t].arg] = Unassigned /\ n \in Slots,
           pc = "store" => /\ call[t].op = "NextConsentNumber" /\ n \in Slots
                           /\ n = consentCounters[call[t].arg]
    PROVE  CallsInv'
<1>1. call[t] \in Call /\ ThreadOK(t) /\ TypeOK /\ call \in [Threads -> Call]
  BY DEF CallsInv
<1>2. PICK k: k = [call[t] EXCEPT !.pc = pc, !.n = n]
  OBVIOUS
<1>3. call' = [call EXCEPT ![t] = k]
  BY <1>1, <1>2 DEF Holding, Call
<1>4. k \in Call
  BY <1>1, <1>2 DEF Call, PC
<1>5. ThreadOK(t)'
  BY <1>1, <1>2, <1>3 DEF ThreadOK, Call, registryVars
<1>6. TypeOK'
  BY <1>1 DEF TypeOK, registryVars
<1>7. QED
  BY <1>3, <1>4, <1>5, <1>6, InsideStep

\* The step that finds nothing left to hand out.
LEMMA ExhaustedInv ==
    ASSUME CallsInv, NEW t \in Threads, mu = t, UNCHANGED <<registryVars, mu>>,
           Goto(t, "unlock"), call[t].pc \notin {"idle", "lock"},
           call[t].op \in {"LookupOrCreate", "Lookup"} =>
              call[t].n = identifiers[call[t].arg]
    PROVE  CallsInv'
<1>1. call[t] \in Call /\ ThreadOK(t) /\ TypeOK /\ call \in [Threads -> Call]
  BY DEF CallsInv
<1>2. PICK k: k = [call[t] EXCEPT !.pc = "unlock"]
  OBVIOUS
<1>3. call' = [call EXCEPT ![t] = k]
  BY <1>1, <1>2 DEF Goto
<1>4. k \in Call
  BY <1>1, <1>2 DEF Call, PC
<1>5. ThreadOK(t)'
  BY <1>1, <1>2, <1>3 DEF ThreadOK, Call, registryVars
<1>6. TypeOK'
  BY <1>1 DEF TypeOK, registryVars
<1>7. QED
  BY <1>3, <1>4, <1>5, <1>6, InsideStep

LEMMA StepInv ==
    ASSUME CallsInv, NEW t \in Threads, Step(t)
    PROVE  CallsInv'
<1> USE DEF At, Goto, registryVars
<1>0. /\ call[t] \in Call /\ ThreadOK(t) /\ TypeOK /\ call \in [Threads -> Call]
      /\ mu = t
  BY DEF CallsInv, ThreadOK, Step, Find, IncrementPartyNo, Assign, Look, Count, Store, Unlock
<1>1. CASE Find(t)
  <2>1. /\ call[t].arg \in Identifiers /\ call[t].op = "LookupOrCreate"
        /\ call[t].n = Unassigned /\ UNCHANGED <<registryVars, mu>> /\ call[t].pc = "find"
    BY <1>0, <1>1 DEF Find, ThreadOK
  <2>2. PICK n \in Slots \union {Unassigned}: n = identifiers[call[t].arg]
    BY <1>0, <2>1 DEF TypeOK
  <2>3. PICK m \in 0 .. MaxIndex + 1: m = nextPartyNo
    BY <1>0 DEF TypeOK
  <2>4. CASE n # Unassigned
    <3>1. Holding(t, "unlock", n)
      BY <1>1, <2>2, <2>4 DEF Find, Holding
    <3>2. QED
      BY <1>0, <2>1, <2>2, <3>1, HoldingInv
  <2>5. CASE n = Unassigned /\ m > MaxIndex
    <3>1. Goto(t, "unlock")
      BY <1>1, <2>2, <2>3, <2>5 DEF Find
    <3>2. QED
      BY <1>0, <2>1, <2>2, <2>5, <3>1, ExhaustedInv
  <2>6. CASE n = Unassigned /\ ~(m > MaxIndex)
    <3>1. Holding(t, "increment", m)
      BY <1>1, <2>2, <2>3, <2>6 DEF Find, Holding
    <3>2. m \in Slots
      BY <2>6, MaxIndexAssumption DEF Slots
    <3>3. QED
      BY <1>0, <2>1, <2>2, <2>3, <2>6, <3>1, <3>2, HoldingInv
  <2>7. QED
    BY <2>4, <2>5, <2>6
<1>2. CASE IncrementPartyNo(t)
  <2>1. nextPartyNo \in Slots
    BY <1>0, <1>2 DEF IncrementPartyNo, ThreadOK
  <2>2. TypeOK'
    BY <1>0, <1>2, <2>1, NoWrap DEF IncrementPartyNo, TypeOK
  <2>3. PICK k: k = [call[t] EXCEPT !.pc = "assign"] /\ call' = [call EXCEPT ![t] = k]
    BY <1>0, <1>2 DEF IncrementPartyNo
  <2>4. k \in Call
    BY <1>0, <2>3 DEF Call, PC
  <2>5. ThreadOK(t)'
    BY <1>0, <1>2, <2>3 DEF IncrementPartyNo, ThreadOK, Call
  <2>6. QED
    BY <1>0, <1>2, <2>2, <2>3, <2>4, <2>5, InsideStep DEF IncrementPartyNo
<1>3. CASE Assign(t)
  <2>1. call[t].arg \in Identifiers /\ call[t].n \in Slots
    BY <1>0, <1>3 DEF Assign, ThreadOK
  <2>2. TypeOK'
    BY <1>0, <1>3, <2>1 DEF Assign, TypeOK
  <2>3. PICK k: k = [call[t] EXCEPT !.pc = "unlock"] /\ call' = [call EXCEPT ![t] = k]
    BY <1>0, <1>3 DEF Assign
  <2>4. k \in Call
    BY <1>0, <2>3 DEF Call, PC
  <2>5. identifiers'[call[t].arg] = call[t].n
    BY <1>0, <1>3, <2>1 DEF Assign, TypeOK
  <2>6. ThreadOK(t)'
    BY <1>0, <1>3, <2>1, <2>3, <2>5 DEF Assign, ThreadOK, Call
  <2>7. QED
    BY <1>0, <1>3, <2>2, <2>3, <2>4, <2>6, InsideStep DEF Assign
<1>4. CASE Look(t)
  <2>1. /\ call[t].arg \in Identifiers /\ UNCHANGED <<registryVars, mu>> /\ call[t].pc = "look"
    BY <1>0, <1>4 DEF Look, ThreadOK
  <2>2. PICK n \in Slots \union {Unassigned}: n = identifiers[call[t].arg]
    BY <1>0, <2>1 DEF TypeOK
  <2>3. Holding(t, "unlock", n)
    BY <1>4, <2>2 DEF Look, Holding
  <2>4. QED
    BY <1>0, <2>1, <2>2, <2>3, HoldingInv
<1>5. CASE Count(t)
  <2>1. /\ call[t].arg \in Keys /\ call[t].op = "NextConsentNumber"
        /\ UNCHANGED <<registryVars, mu>> /\ call[t].pc = "count"
    BY <1>0, <1>5 DEF Count, ThreadOK
  <2>2. PICK n \in 0 .. MaxIndex + 1: n = consentCounters[call[t].arg]
    BY <1>0, <2>1, NoWrap DEF TypeOK, Keys
  <2>3. CASE n > MaxIndex
    <3>1. Goto(t, "unlock")
      BY <1>5, <2>2, <2>3 DEF Count
    <3>2. QED
      BY <1>0, <2>1, <3>1, ExhaustedInv
  <2>4. CASE ~(n > MaxIndex)
    <3>1. Holding(t, "store", n)
      BY <1>5, <2>2, <2>4 DEF Count, Holding
    <3>2. n \in Slots
      BY <2>4, MaxIndexAssumption DEF Slots
    <3>3. QED
      BY <1>0, <2>1, <2>2, <3>1, <3>2, HoldingInv
  <2>5. QED
    BY <2>3, <2>4
<1>6. CASE Store(t)
  <2>1. /\ call[t].arg \in Keys /\ call[t].n \in Slots /\ call[t].n \in UInt32
        /\ call[t].arg \in UInt32 \X Chains /\ call[t].op = "NextConsentNumber"
    BY <1>0, <1>6, NoWrap DEF Store, ThreadOK, Keys
  <2>2. TypeOK'
    BY <1>0, <1>6, <2>1, NoWrap DEF Store, TypeOK
  <2>3. PICK k: k = [call[t] EXCEPT !.pc = "unlock"] /\ call' = [call EXCEPT ![t] = k]
    BY <1>0, <1>6 DEF Store
  <2>4. k \in Call
    BY <1>0, <2>3 DEF Call, PC
  <2>5. ThreadOK(t)'
    BY <1>0, <1>6, <2>1, <2>3 DEF Store, ThreadOK, Call
  <2>6. QED
    BY <1>0, <1>6, <2>2, <2>3, <2>4, <2>5, InsideStep DEF Store
<1>7. CASE Unlock(t)
  <2>1. TypeOK' /\ Idle \in Call
    BY <1>0, <1>7 DEF Unlock, TypeOK, Idle, Call, PC
  <2>2. ThreadOK(t)'
    BY <1>0, <1>7 DEF Unlock, ThreadOK, Idle
  <2>3. QED
    BY <1>0, <1>7, <2>1, <2>2, InsideStep DEF Unlock
<1>8. QED
  BY <1>1, <1>2, <1>3, <1>4, <1>5, <1>6, <1>7 DEF Step

LEMMA CallsNextInv ==
    ASSUME CallsInv, [CallsNext]_callVars
    PROVE  CallsInv'
<1> USE DEF At, Goto
<1>1. ASSUME NEW t \in Threads, Lock(t)
      PROVE  CallsInv'
  <2>1. call[t] \in Call /\ ThreadOK(t) /\ call \in [Threads -> Call]
    BY DEF CallsInv
  <2>2. PICK pc \in {"find", "look", "count"}:
           /\ call' = [call EXCEPT ![t] = [call[t] EXCEPT !.pc = pc]]
           /\ pc = "find" => call[t].op = "LookupOrCreate"
           /\ pc = "look" => call[t].op = "Lookup"
           /\ pc = "count" => call[t].op \notin {"LookupOrCreate", "Lookup"}
    BY <1>1, <2>1 DEF Lock
  <2>3. [call[t] EXCEPT !.pc = pc] \in Call
    BY <2>1 DEF Call, PC
  <2>4. ThreadOK(t)'
    BY <1>1, <2>1, <2>2 DEF Lock, ThreadOK, Call
  <2>5. QED
    BY <1>1, <2>2, <2>3, <2>4, OutsideStep DEF Lock
<1>2. ASSUME NEW t \in Threads,
             \/ \E i \in Identifiers: LookupOrCreate(t, i) \/ Lookup(t, i)
             \/ \E k \in Keys: NextNumber(t, k)
      PROVE  CallsInv'
  <2>1. PICK op \in {"LookupOrCreate", "Lookup", "NextConsentNumber"},
             arg \in Identifiers \union Keys:
           /\ Calls(t, op, "lock", arg)
           /\ op \in {"LookupOrCreate", "Lookup"} => arg \in Identifiers
           /\ op = "NextConsentNumber" => arg \in Keys
    BY <1>2 DEF LookupOrCreate, Lookup, NextNumber
  <2>2. PICK k: k = [op |-> op, pc |-> "lock", arg |-> arg, n |-> Unassigned]
    OBVIOUS
  <2>3. /\ k \in Call /\ call' = [call EXCEPT ![t] = k]
        /\ UNCHANGED <<registryVars, mu>>
    BY <2>1, <2>2 DEF Calls, Call, PC
  <2>4. ThreadOK(t)'
    BY <2>1, <2>2, <2>3 DEF ThreadOK, CallsInv
  <2>5. QED
    BY <2>3, <2>4, OutsideStep
<1>3. CASE UNCHANGED callVars
  BY <1>3 DEF callVars, registryVars, CallsInv, TypeOK, ThreadOK
<1>4. QED
  BY <1>1, <1>2, <1>3, StepInv DEF CallsNext

LEMMA CallsInductive == CallsSpec => []CallsInv
BY CallsInitInv, CallsNextInv, PTL DEF CallsSpec

\* The registry stays in range under every interleaving of the threads' statements.
THEOREM CallsTypeCorrect == CallsSpec => []TypeOK
<1>1. CallsInv => TypeOK
  BY DEF CallsInv
<1>2. QED
  BY <1>1, CallsInductive, PTL

\* A method returns what the registry holds when the mutex is given back.
THEOREM AnswersCurrent == CallsSpec => []AnswersAreCurrent
<1>1. CallsInv => AnswersAreCurrent
  BY DEF CallsInv, ThreadOK, AnswersAreCurrent, At
<1>2. QED
  BY <1>1, CallsInductive, PTL

-----------------------------------------------------------------------------
(* The refinement of MemoryRegistry *)

\* Nobody is between the writes of LookupOrCreate: callers see what the map holds.
LEMMA NoneAssigning ==
    (\A u \in Threads: ~At(u, "assign")) /\ CallsInv => AssignedNumbers = identifiers
<1> SUFFICES ASSUME \A u \in Threads: ~At(u, "assign"), CallsInv
             PROVE  AssignedNumbers = identifiers
  OBVIOUS
<1>1. \A i \in Identifiers: Assigning(i) = {}
  BY DEF Assigning
<1>2. QED
  BY <1>1 DEF AssignedNumbers, CallsInv, TypeOK

\* Somebody is, and nobody else: callers see the number assigned already.
AssigningSeen ==
    \A t \in Threads: At(t, "assign") =>
        AssignedNumbers = [identifiers EXCEPT ![call[t].arg] = call[t].n]

LEMMA OneAssigning == CallsInv => AssigningSeen
<1> SUFFICES ASSUME CallsInv, NEW t \in Threads, At(t, "assign")
             PROVE  AssignedNumbers = [identifiers EXCEPT ![call[t].arg] = call[t].n]
  BY DEF AssigningSeen
<1>1. call[t].pc = "assign" /\ mu = t /\ call[t].arg \in Identifiers
  BY DEF At, CallsInv, ThreadOK
<1>2. \A u \in Threads: call[u].pc = "assign" => u = t
  BY <1>1 DEF CallsInv, ThreadOK
<1>3. ASSUME NEW i \in Identifiers, i # call[t].arg
      PROVE  AssignedNumbers[i] = identifiers[i]
  BY <1>2, <1>3 DEF Assigning, At, AssignedNumbers
<1>4. Assigning(call[t].arg) = {t}
  BY <1>1, <1>2 DEF Assigning, At
<1>5. (CHOOSE u \in Assigning(call[t].arg) : TRUE) = t
  BY <1>4
<1>6. AssignedNumbers[call[t].arg] = call[t].n
  BY <1>1, <1>4, <1>5 DEF AssignedNumbers
<1>7. QED
  BY <1>1, <1>3, <1>6 DEF AssignedNumbers, CallsInv, TypeOK

\* A step that neither enters nor leaves that place, nor writes, is not seen.
LEMMA NotSeen ==
    ASSUME CallsInv, CallsInv', UNCHANGED registryVars,
           \A u \in Threads: At(u, "assign") \/ At(u, "assign")' => call'[u] = call[u]
    PROVE  UNCHANGED Atomic!vars
<1>1. AssignedNumbers' = AssignedNumbers
  <2>1. CASE \E t \in Threads: At(t, "assign")
    <3>1. PICK t \in Threads: At(t, "assign")
      BY <2>1
    <3>2. call'[t] = call[t] /\ At(t, "assign")'
      BY <3>1 DEF At
    <3>3. (CallsInv => AssigningSeen)'
      BY OneAssigning, PTL
    <3>4. QED
      BY <3>1, <3>2, <3>3, OneAssigning DEF registryVars, AssigningSeen
  <2>2. CASE ~\E t \in Threads: At(t, "assign")
    <3>1. \A u \in Threads: ~At(u, "assign")'
      BY <2>2 DEF At
    <3>2. ((\A u \in Threads: ~At(u, "assign")) /\ CallsInv => AssignedNumbers = identifiers)'
      BY NoneAssigning, PTL
    <3>3. QED
      BY <2>2, <3>1, <3>2, NoneAssigning DEF registryVars
  <2>3. QED
    BY <2>1, <2>2
<1>2. QED
  BY <1>1 DEF Atomic!vars, registryVars

\* LookupOrCreate takes effect when the number is taken.
LEMMA IncrementCreates ==
    ASSUME CallsInv, CallsInv', NEW t \in Threads, IncrementPartyNo(t)
    PROVE  Atomic!Next
<1>1. /\ call[t] \in Call /\ ThreadOK(t) /\ call \in [Threads -> Call] /\ TypeOK
      /\ call[t].pc = "increment"
  BY DEF CallsInv, IncrementPartyNo, At
<1>2. PICK i \in Identifiers: i = call[t].arg
  BY <1>1 DEF ThreadOK
<1>3. /\ identifiers[i] = Unassigned /\ call[t].n = nextPartyNo /\ nextPartyNo \in Slots
      /\ mu = t
  BY <1>1, <1>2 DEF ThreadOK
<1>4. AssignedNumbers = identifiers
  <2>1. \A u \in Threads: ~At(u, "assign")
    BY <1>1, <1>3 DEF CallsInv, ThreadOK, At
  <2>2. QED
    BY <2>1, NoneAssigning
<1>5. AssignedNumbers' = [identifiers EXCEPT ![i] = nextPartyNo]
  <2>1. call'[t] = [call[t] EXCEPT !.pc = "assign"]
    BY <1>1 DEF IncrementPartyNo, Goto
  <2>2. At(t, "assign")' /\ call'[t].arg = i /\ call'[t].n = nextPartyNo
    BY <1>1, <1>2, <1>3, <2>1 DEF At, Call
  <2>3. (CallsInv => AssigningSeen)'
    BY OneAssigning, PTL
  <2>4. QED
    BY <1>2, <2>2, <2>3 DEF IncrementPartyNo, AssigningSeen
<1>6. nextPartyNo <= MaxIndex
  BY <1>3, MaxIndexAssumption DEF Slots
<1>7. Atomic!Create(i)
  BY <1>3, <1>4, <1>5, <1>6 DEF Atomic!Create, IncrementPartyNo, Atomic!Increment, Increment,
     Atomic!Width, Width
<1>8. QED
  BY <1>7 DEF Atomic!Next

\* The second write only notes whose number it is.
LEMMA AssignNotSeen ==
    ASSUME CallsInv, CallsInv', NEW t \in Threads, Assign(t)
    PROVE  UNCHANGED Atomic!vars
<1>1. /\ call[t] \in Call /\ ThreadOK(t) /\ call \in [Threads -> Call]
      /\ At(t, "assign") /\ mu = t
  BY DEF CallsInv, Assign, At, ThreadOK
<1>2. AssignedNumbers = [identifiers EXCEPT ![call[t].arg] = call[t].n]
  BY <1>1, OneAssigning DEF AssigningSeen
<1>3. AssignedNumbers' = identifiers'
  <2>1. call' = [call EXCEPT ![t].pc = "unlock"]
    BY DEF Assign, Goto
  <2>2. \A u \in Threads: ~At(u, "assign")'
    BY <1>1, <2>1 DEF At, CallsInv, ThreadOK, Call
  <2>3. ((\A u \in Threads: ~At(u, "assign")) /\ CallsInv => AssignedNumbers = identifiers)'
    BY NoneAssigning, PTL
  <2>4. QED
    BY <2>2, <2>3
<1>4. QED
  BY <1>2, <1>3 DEF Assign, Atomic!vars

\* NextConsentNumber takes effect when the counter is stored.
LEMMA StoreCounts ==
    ASSUME CallsInv, CallsInv', NEW t \in Threads, Store(t)
    PROVE  Atomic!Next
<1>1. /\ call[t] \in Call /\ ThreadOK(t) /\ call \in [Threads -> Call] /\ TypeOK
      /\ call[t].pc = "store" /\ mu = t
  BY DEF CallsInv, Store, At, ThreadOK
<1>2. PICK k \in Keys: k = call[t].arg
  BY <1>1 DEF ThreadOK
<1>3. call[t].n = consentCounters[k] /\ consentCounters[k] \in Slots
  BY <1>1, <1>2 DEF ThreadOK
<1>4. AssignedNumbers = identifiers
  <2>1. \A u \in Threads: ~At(u, "assign")
    BY <1>1 DEF CallsInv, ThreadOK, At
  <2>2. QED
    BY <2>1, NoneAssigning
<1>5. AssignedNumbers' = identifiers'
  <2>1. call' = [call EXCEPT ![t].pc = "unlock"]
    BY DEF Store, Goto
  <2>2. \A u \in Threads: ~At(u, "assign")'
    BY <1>1, <2>1 DEF At, CallsInv, ThreadOK, Call
  <2>3. ((\A u \in Threads: ~At(u, "assign")) /\ CallsInv => AssignedNumbers = identifiers)'
    BY NoneAssigning, PTL
  <2>4. QED
    BY <2>2, <2>3
<1>6. consentCounters[k] <= MaxIndex
  BY <1>3, MaxIndexAssumption DEF Slots
<1>7. Atomic!NextConsentNumber(k)
  BY <1>2, <1>3, <1>4, <1>5, <1>6 DEF Atomic!NextConsentNumber, Store, Atomic!Increment, Increment,
     Atomic!Width, Width
<1>8. QED
  BY <1>2, <1>7 DEF Atomic!Next, Keys, Atomic!Slots, Slots

LEMMA CallsNextRefines ==
    ASSUME CallsInv, CallsInv', [CallsNext]_callVars
    PROVE  [Atomic!Next]_(Atomic!vars)
<1> USE DEF At, Goto
<1>1. ASSUME NEW t \in Threads, NEW k \in Call, UNCHANGED registryVars,
             call' = [call EXCEPT ![t] = k], call[t].pc # "assign", k.pc # "assign"
      PROVE  UNCHANGED Atomic!vars
  BY <1>1, NotSeen DEF CallsInv
<1>2. ASSUME NEW t \in Threads,
             \/ \E i \in Identifiers: LookupOrCreate(t, i) \/ Lookup(t, i)
             \/ \E k \in Keys: NextNumber(t, k)
      PROVE  UNCHANGED Atomic!vars
  <2>1. PICK op \in {"LookupOrCreate", "Lookup", "NextConsentNumber"},
             arg \in Identifiers \union Keys: Calls(t, op, "lock", arg)
    BY <1>2 DEF LookupOrCreate, Lookup, NextNumber
  <2>2. PICK k \in Call: k = [op |-> op, pc |-> "lock", arg |-> arg, n |-> Unassigned]
    BY DEF Call, PC
  <2>3. QED
    BY <1>1, <2>1, <2>2 DEF Calls
<1>3. ASSUME NEW t \in Threads, Lock(t) \/ Find(t) \/ Look(t) \/ Count(t) \/ Unlock(t)
      PROVE  UNCHANGED Atomic!vars
  <2>1. UNCHANGED registryVars /\ call[t].pc # "assign"
    BY <1>3 DEF Lock, Find, Look, Count, Unlock
  <2>2. \A u \in Threads: u # t => call'[u] = call[u]
    BY <1>3 DEF CallsInv, Lock, Find, Look, Count, Unlock, Holding
  <2>3. call'[t].pc # "assign"
    BY <1>3 DEF CallsInv, Call, Lock, Find, Look, Count, Unlock, Holding, Idle
  <2>4. QED
    BY <2>1, <2>2, <2>3, NotSeen
<1>4. CASE UNCHANGED callVars
  BY <1>4, NotSeen DEF callVars
<1>5. QED
  BY <1>2, <1>3, <1>4, IncrementCreates, AssignNotSeen, StoreCounts DEF CallsNext, Step

\* However the threads' statements interleave, callers see each method happen in one
\* step (registry/registry.go: all methods must be safe for concurrent use).
THEOREM CallsRefine == CallsSpec => CallsAreAtomic
<1>1. CallsInit => Atomic!Init
  <2> SUFFICES ASSUME CallsInit PROVE Atomic!Init
    OBVIOUS
  <2>1. AssignedNumbers = identifiers
    BY CallsInitInv, NoneAssigning DEF CallsInit, At, Idle
  <2>2. QED
    BY <2>1 DEF CallsInit, Init, Atomic!Init, Atomic!UInt32, UInt32, Atomic!Width, Width
<1>2. CallsInv /\ CallsInv' /\ [CallsNext]_callVars => [Atomic!Next]_(Atomic!vars)
  BY CallsNextRefines
<1>3. QED
  BY <1>1, <1>2, CallsInductive, PTL DEF CallsSpec, CallsAreAtomic, Atomic!Spec

-----------------------------------------------------------------------------
(* What is proved of MemoryRegistry holds of it under its callers *)

AtomicProofs == INSTANCE MemoryRegistryProofs WITH identifiers <- AssignedNumbers

LEMMA AtomicInductive == CallsSpec => []AtomicProofs!IInv
<1>1. CallsAreAtomic => AtomicProofs!Spec
  <2>1. Atomic!Init => AtomicProofs!Init
    BY DEF Atomic!Init, AtomicProofs!Init, Atomic!UInt32, AtomicProofs!UInt32, Atomic!Width, AtomicProofs!Width
  <2>2. [Atomic!Next]_(Atomic!vars) => [AtomicProofs!Next]_(AtomicProofs!vars)
    BY DEF Atomic!Next, AtomicProofs!Next, Atomic!vars, AtomicProofs!vars, Atomic!Create, AtomicProofs!Create,
     Atomic!NextConsentNumber, AtomicProofs!NextConsentNumber, Atomic!Increment, AtomicProofs!Increment,
     Atomic!Slots, AtomicProofs!Slots,
     Atomic!Width, AtomicProofs!Width
  <2>3. QED
    BY <2>1, <2>2, PTL DEF CallsAreAtomic, Atomic!Spec, AtomicProofs!Spec
<1>2. AtomicProofs!Spec => []AtomicProofs!IInv
  BY MaxIndexAssumption, UnassignedAssumption, AtomicProofs!InductiveInvariant
<1>3. QED
  BY <1>1, <1>2, CallsRefine, PTL

\* No two counterparties share a slot, whichever threads asked for them at once
\* (registry/memory.go, LookupOrCreate).
THEOREM CallsDistinctSlots == CallsSpec => []SlotsAreDistinct
<1>1. ASSUME CallsInv, AtomicProofs!IInv PROVE SlotsAreDistinct
  <2>1. ASSUME NEW i \in Identifiers, identifiers[i] # Unassigned
        PROVE  AssignedNumbers[i] = identifiers[i]
    <3>1. CASE \E t \in Threads: At(t, "assign")
      <4>1. PICK t \in Threads: At(t, "assign")
        BY <3>1
      <4>2. i # call[t].arg
        BY <1>1, <2>1, <4>1 DEF CallsInv, ThreadOK, At
      <4>3. QED
        BY <1>1, <2>1, <4>1, <4>2, OneAssigning DEF AssigningSeen, CallsInv, TypeOK
    <3>2. CASE \A t \in Threads: ~At(t, "assign")
      BY <1>1, <3>2, NoneAssigning
    <3>3. QED
      BY <3>1, <3>2
  <2>2. QED
    BY <1>1, <2>1 DEF SlotsAreDistinct, Assigned, AtomicProofs!IInv,
       AtomicProofs!SlotsAreDistinct, AtomicProofs!Assigned
<1>2. QED
  BY <1>1, CallsInductive, AtomicInductive, PTL

\* No consent number is handed out twice, however many threads ask for one at once
\* (registry/memory.go, NextConsentNumber).
THEOREM CallsIssuedOnce == CallsSpec => []NumbersAreIssuedOnce
<1>1. AtomicProofs!IInv => NumbersAreIssuedOnce
  BY NoWrap DEF AtomicProofs!IInv, AtomicProofs!UInt32, AtomicProofs!Width, UInt32, Width,
     NumbersAreIssuedOnce
<1>2. QED
  BY <1>1, AtomicInductive, PTL

\* The numbers that concurrent callers get are exactly those below the counter, from 0 on.
THEOREM CallsCountFromZero == CallsSpec => []NumbersCountFromZero
<1>1. ASSUME CallsInv, AtomicProofs!IInv PROVE NumbersCountFromZero
  <2>1. ASSUME NEW k \in Slots \X Chains, NEW n \in UInt32
        PROVE  times[k][n] > 0 <=> n < consentCounters[k] /\ n \in Slots
    <3>1. k \in UInt32 \X Chains
      BY NoWrap
    <3>2. consentCounters[k] \in 0 .. MaxIndex + 1
      BY <1>1, <3>1 DEF CallsInv, TypeOK
    <3>3. times[k][n] = IF n < consentCounters[k] THEN 1 ELSE 0
      BY <1>1, <3>1 DEF AtomicProofs!IInv, AtomicProofs!UInt32, AtomicProofs!Width, UInt32, Width
    <3>4. n < consentCounters[k] => n \in Slots
      BY <3>2, MaxIndexAssumption DEF Slots, UInt32, Width
    <3>5. QED
      BY <3>3, <3>4
  <2>2. QED
    BY <2>1 DEF NumbersCountFromZero
<1>2. QED
  BY <1>1, CallsInductive, AtomicInductive, PTL

\* A slot once assigned never changes: a thread that assigns one has found its identifier
\* without, and has held the mutex since (registry/README.md).
THEOREM CallsStableSlots == CallsSpec => SlotsAreStable
<1>1. ASSUME CallsInv, [CallsNext]_callVars
      PROVE  [\A i \in Identifiers:
                identifiers[i] # Unassigned => identifiers'[i] = identifiers[i]]_vars
  <2>1. ASSUME NEW i \in Identifiers, NEW t \in Threads, Assign(t),
               identifiers[i] # Unassigned
        PROVE  identifiers'[i] = identifiers[i]
    BY <1>1, <2>1 DEF Assign, At, CallsInv, ThreadOK, TypeOK
  <2>2. QED
    BY <1>1, <2>1 DEF CallsNext, Step, LookupOrCreate, Lookup, NextNumber, Calls, Lock,
       Find, IncrementPartyNo, Look, Count, Store, Unlock, callVars, registryVars, vars
<1>2. QED
  BY <1>1, CallsInductive, PTL DEF CallsSpec, SlotsAreStable

=============================================================================
