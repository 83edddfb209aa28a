----------------------------- MODULE ThreadCanary -----------------------------
(***************************************************************************)
(* The debug canaries of src/ring_buffer.rs: the first thread that calls   *)
(* try_publish claims the role of the producer, the first that calls       *)
(* try_consume that of the consumer, and a call from any other thread      *)
(* panics in check_single_thread before it touches the ring.  One thread   *)
(* may claim both roles.                                                   *)
(*                                                                         *)
(* The std::sync::Mutex of a role is modelled by its holder and its poison *)
(* flag: a thread that panics while it holds the guard poisons the mutex   *)
(* as it unwinds, and releases it.  A debug build unwinds, and a panic     *)
(* ends its thread.                                                        *)
(***************************************************************************)
EXTENDS Naturals

CONSTANTS
  Threads,    \* the threads that may call the two guarded operations
  NoThread,   \* None
  NoRole      \* the role of a thread that is in neither operation

Roles == {"producer", "consumer"}

ASSUME CanaryAssumption == NoThread \notin Threads /\ NoRole \notin Roles

VARIABLES
  claimed,    \* the Option<ThreadId> inside the mutex of each role
  holder,     \* who holds that mutex
  poisoned,   \* its poison flag
  pc,         \* where each thread is
  role,       \* the role a thread's call under way is checked for
  seen        \* owner, the copy each thread made of claimed

canaryVars == <<claimed, holder, poisoned, pc, role, seen>>

CanaryInit ==
  /\ claimed = [r \in Roles |-> NoThread]
  /\ holder = [r \in Roles |-> NoThread]
  /\ poisoned = [r \in Roles |-> FALSE]
  /\ pc = [t \in Threads |-> "outside"]
  /\ role = [t \in Threads |-> NoRole]
  /\ seen = [t \in Threads |-> NoThread]

\* Mutant: the guard is dropped before the claim is written.
LockBriefly(t, r) ==
  /\ pc[t] = "outside"
  /\ holder[r] = NoThread
  /\ role' = [role EXCEPT ![t] = r]
  /\ seen' = [seen EXCEPT ![t] = claimed[r]]
  /\ pc' = [pc EXCEPT ![t] = "locked"]
  /\ UNCHANGED <<claimed, holder, poisoned>>

\* lock().unwrap_or_else(PoisonError::into_inner), and the copy of claimed.
Lock(t, r) ==
  /\ pc[t] = "outside"
  /\ holder[r] = NoThread
  /\ holder' = [holder EXCEPT ![r] = t]
  /\ role' = [role EXCEPT ![t] = r]
  /\ seen' = [seen EXCEPT ![t] = claimed[r]]
  /\ pc' = [pc EXCEPT ![t] = "locked"]
  /\ UNCHANGED <<claimed, poisoned>>

Claim(t) ==
  /\ pc[t] = "locked"
  /\ seen[t] = NoThread
  /\ claimed' = [claimed EXCEPT ![role[t]] = t]
  /\ holder' = [holder EXCEPT ![role[t]] = NoThread]
  /\ pc' = [pc EXCEPT ![t] = "inside"]
  /\ UNCHANGED <<poisoned, role, seen>>

Recognise(t) ==
  /\ pc[t] = "locked"
  /\ seen[t] = t
  /\ holder' = [holder EXCEPT ![role[t]] = NoThread]
  /\ pc' = [pc EXCEPT ![t] = "inside"]
  /\ UNCHANGED <<claimed, poisoned, role, seen>>

\* Mutant: once the mutex is poisoned, a violator passes.
PanicOnce(t) ==
  /\ pc[t] = "locked"
  /\ seen[t] \notin {NoThread, t}
  /\ holder' = [holder EXCEPT ![role[t]] = NoThread]
  /\ poisoned' = [poisoned EXCEPT ![role[t]] = TRUE]
  /\ pc' = [pc EXCEPT ![t] = IF poisoned[role[t]] THEN "inside" ELSE "panicked"]
  /\ UNCHANGED <<claimed, role, seen>>

\* Mutant: the panicking thread never gives the mutex back.
PanicHoldingGuard(t) ==
  /\ pc[t] = "locked"
  /\ seen[t] \notin {NoThread, t}
  /\ poisoned' = [poisoned EXCEPT ![role[t]] = TRUE]
  /\ pc' = [pc EXCEPT ![t] = "panicked"]
  /\ UNCHANGED <<claimed, holder, role, seen>>

\* assert_eq! fails, the guard is dropped while the thread unwinds.
Panic(t) ==
  /\ pc[t] = "locked"
  /\ seen[t] \notin {NoThread, t}
  /\ holder' = [holder EXCEPT ![role[t]] = NoThread]
  /\ poisoned' = [poisoned EXCEPT ![role[t]] = TRUE]
  /\ pc' = [pc EXCEPT ![t] = "panicked"]
  /\ UNCHANGED <<claimed, role, seen>>

\* The guarded call returns.
Return(t) ==
  /\ pc[t] = "inside"
  /\ pc' = [pc EXCEPT ![t] = "outside"]
  /\ role' = [role EXCEPT ![t] = NoRole]
  /\ seen' = [seen EXCEPT ![t] = NoThread]
  /\ UNCHANGED <<claimed, holder, poisoned>>

EndCheck(t) == Claim(t) \/ Recognise(t) \/ Panic(t)

CanaryNext ==
  \E t \in Threads : (\E r \in Roles : Lock(t, r)) \/ EndCheck(t) \/ Return(t)

CanarySpec == CanaryInit /\ [][CanaryNext]_canaryVars

------------------------------------------------------------------------------
\* The types, and a mutex is held by exactly the thread between its lock and
\* the end of the check.
CanaryTypeOK ==
  /\ claimed \in [Roles -> Threads \cup {NoThread}]
  /\ holder \in [Roles -> Threads \cup {NoThread}]
  /\ poisoned \in [Roles -> BOOLEAN]
  /\ pc \in [Threads -> {"outside", "locked", "inside", "panicked"}]
  /\ role \in [Threads -> Roles \cup {NoRole}]
  /\ seen \in [Threads -> Threads \cup {NoThread}]
  /\ \A t \in Threads : pc[t] = "outside" <=> role[t] = NoRole
  /\ \A t \in Threads, r \in Roles :
       pc[t] = "locked" /\ role[t] = r <=> holder[r] = t

\* "Exactly one producer thread, exactly one consumer thread": whoever is
\* inside a guarded operation holds the claim to it, so no two threads ever are.
OneThreadPerRole ==
  \A t \in Threads : pc[t] = "inside" => claimed[role[t]] = t

\* "... forever": the first caller "claims" the role for good.
ClaimIsForever ==
  [][\A r \in Roles : claimed[r] # NoThread => claimed'[r] = claimed[r]]_canaryVars

\* A panic in the canary does not wedge a role: its mutex is free again and
\* again, poisoned or not.
MutexIsFreed == \A r \in Roles : []<>(holder[r] = NoThread)

==============================================================================
