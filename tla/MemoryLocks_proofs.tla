------------------------- MODULE MemoryLocks_proofs -------------------------
(***************************************************************************)
(* What the mutexes of internal/cache/memory.go guarantee, for any number  *)
(* of requests, of goroutines that close the cache, and of its pruners.    *)
(*                                                                         *)
(* The argument has two halves.  One is about the mutexes: no goroutine    *)
(* holds one for writing while another holds it at all (Exclusive), which  *)
(* every step keeps because a goroutine comes to hold only what it has     *)
(* just acquired.  The other is about the lists alone: whichever place a   *)
(* goroutine is at, what it has acquired before covers the map it touches  *)
(* there.  Races then contradict Exclusive.  So do circles of goroutines   *)
(* that wait for each other: a rank, read off what a goroutine asks for,   *)
(* falls from each to whoever it waits for.                                *)
(***************************************************************************)
EXTENDS MemoryLocks, TLAPS

RequestOps == {"EmployeeRead", "EmployeesRead", "EmployeesWrite",
               "EmployeesDelete", "EmployeesNotFoundWrite", "SleepRead",
               "SleepWrite", "SleepsDelete", "Clear"}

Ops == RequestOps \cup PrunerOps \cup {"Close", "idle", "exited"}

\* The flags that inProgress protects.
ProgressMaps == {"employeeRead", "employeeSearch", "sleepRead"}

-----------------------------------------------------------------------------
(* The lists                                                               *)

\* A request's list holds the cache's mutex from its first instruction to its
\* end; holding it for reading only, it changes flags of inProgress alone, and
\* these under their mutex.
IsRequest(P) ==
    /\ DOMAIN P = 1..Len(P) /\ Len(P) \in Nat \ {0}
    /\ \A i \in 1..Len(P) : P[i][1] \in {"rlock", "lock", "read", "write"}
    /\ P[1] \in {RLock("cache"), Lock("cache")}
    /\ P[1] = RLock("cache") =>
          \A i \in 1..Len(P) :
             /\ P[i][1] = "write" =>
                   /\ P[i][2] \in ProgressMaps
                   /\ \E j \in 1..(i - 1) : P[j] = Lock("inProgress")
             /\ P[i][1] = "read" => P[i][2] \notin ProgressMaps

\* A pruner's list takes its mutex only when it has given it back, and changes
\* maps only while it holds it.
IsTick(P, lock, maps) ==
    /\ DOMAIN P = 1..Len(P) /\ Len(P) \in Nat
    /\ \A i \in 1..Len(P) :
          \/ /\ P[i] = Lock(lock)
             /\ \A j \in 1..(i - 1) :
                   P[j] = Lock(lock) => \E k \in j..(i - 1) : P[k] = Unlock(lock)
          \/ P[i] = Unlock(lock)
          \/ /\ \E m \in maps : P[i] = Write(m)
             /\ \E j \in 1..(i - 1) : /\ P[j] = Lock(lock)
                                      /\ \A k \in j..(i - 1) : P[k] # Unlock(lock)

LEMMA EmployeeReadIsRequest == IsRequest(EmployeeRead)
  BY DEF IsRequest, EmployeeRead, RLock, Lock, Read, Write, ProgressMaps
LEMMA EmployeesReadIsRequest == IsRequest(EmployeesRead)
  BY DEF IsRequest, EmployeesRead, RLock, Lock, Read, Write, ProgressMaps
LEMMA EmployeesWriteIsRequest == IsRequest(EmployeesWrite)
  BY DEF IsRequest, EmployeesWrite, RLock, Lock, Read, Write, ProgressMaps
LEMMA EmployeesDeleteIsRequest == IsRequest(EmployeesDelete)
  BY DEF IsRequest, EmployeesDelete, RLock, Lock, Read, Write, ProgressMaps
LEMMA EmployeesNotFoundWriteIsRequest == IsRequest(EmployeesNotFoundWrite)
  BY DEF IsRequest, EmployeesNotFoundWrite, RLock, Lock, Read, Write, ProgressMaps
LEMMA SleepReadIsRequest == IsRequest(SleepRead)
  BY DEF IsRequest, SleepRead, RLock, Lock, Read, Write, ProgressMaps
LEMMA SleepWriteIsRequest == IsRequest(SleepWrite)
  BY DEF IsRequest, SleepWrite, RLock, Lock, Read, Write, ProgressMaps
LEMMA SleepsDeleteIsRequest == IsRequest(SleepsDelete)
  BY DEF IsRequest, SleepsDelete, RLock, Lock, Read, Write, ProgressMaps
LEMMA ClearIsRequest == IsRequest(Clear)
  BY DEF IsRequest, Clear, RLock, Lock, Read, Write, ProgressMaps

\* Whatever the maps, a tick changes each of them right after its Lock.
LEMMA TickIsTick ==
    ASSUME NEW lock, NEW S, NEW maps \in Seq(S)
    PROVE  IsTick(Tick(lock, maps), lock, S)
<1> DEFINE P == Tick(lock, maps)
<1>1. DOMAIN P = 1..(3 * Len(maps)) /\ Len(P) = 3 * Len(maps)
  BY DEF Tick
<1> HIDE DEF P
<1>2. /\ \A k \in 1..Len(P) : k % 3 = 1 => P[k] = Lock(lock)
      /\ \A k \in 1..Len(P) : k % 3 = 2 => P[k] = Write(maps[(k + 1) \div 3])
      /\ \A k \in 1..Len(P) : k % 3 = 0 => P[k] = Unlock(lock)
  BY <1>1 DEF P, Tick
<1>3. \A k \in 1..Len(P) : P[k] = Lock(lock) => k % 3 = 1
  <2>1. ASSUME NEW k \in 1..Len(P)
        PROVE  k % 3 = 1 \/ k % 3 = 2 \/ k % 3 = 0
    BY <1>1
  <2>2. \A x : Write(x) # Lock(lock) /\ Unlock(lock) # Lock(lock)
    BY DEF Write, Unlock, Lock
  <2>3. QED
    BY <1>2, <2>1, <2>2
<1>4. ASSUME NEW i \in 1..Len(P)
      PROVE  \/ /\ P[i] = Lock(lock)
                /\ \A j \in 1..(i - 1) :
                      P[j] = Lock(lock) => \E k \in j..(i - 1) : P[k] = Unlock(lock)
             \/ P[i] = Unlock(lock)
             \/ /\ \E m \in S : P[i] = Write(m)
                /\ \E j \in 1..(i - 1) : /\ P[j] = Lock(lock)
                                         /\ \A k \in j..(i - 1) : P[k] # Unlock(lock)
  <2>1. CASE i % 3 = 1
    <3>1. ASSUME NEW j \in 1..(i - 1), P[j] = Lock(lock)
          PROVE  \E k \in j..(i - 1) : P[k] = Unlock(lock)
      <4>1. j \in 1..Len(P)
        BY <1>1
      <4>2. j % 3 = 1
        BY <1>3, <3>1, <4>1
      <4>3. j + 2 \in j..(i - 1) /\ j + 2 \in 1..Len(P) /\ (j + 2) % 3 = 0
        BY <1>1, <2>1, <4>1, <4>2
      <4>4. P[j + 2] = Unlock(lock)
        BY <1>2, <4>3
      <4>5. QED
        BY <4>3, <4>4
    <3>2. QED
      BY <1>2, <2>1, <3>1
  <2>2. CASE i % 3 = 2
    <3>1. i - 1 \in 1..Len(P) /\ (i - 1) % 3 = 1 /\ (i + 1) \div 3 \in 1..Len(maps)
      BY <1>1, <2>2
    <3>2. P[i - 1] = Lock(lock)
      BY <1>2, <3>1
    <3>3. P[i] = Write(maps[(i + 1) \div 3]) /\ maps[(i + 1) \div 3] \in S
      BY <1>2, <2>2, <3>1
    <3>4. \A k \in (i - 1)..(i - 1) : P[k] # Unlock(lock)
      BY <1>1, <3>2 DEF Lock, Unlock
    <3>5. i - 1 \in 1..(i - 1)
      BY <1>1, <3>1
    <3>6. QED
      BY <3>2, <3>3, <3>4, <3>5
  <2>3. CASE i % 3 = 0
    BY <1>2, <2>3
  <2>4. QED
    BY <1>1, <2>1, <2>2, <2>3
<1>5. QED
  BY <1>1, <1>4 DEF IsTick, P

\* The pruner of the cached data changes two maps under its second Lock.
LEMMA PruneCacheIsTick == IsTick(PruneCache, "cache", CachedMaps)
<1> DEFINE P == PruneCache
<1>1. DOMAIN P = 1..10 /\ Len(P) = 10
  BY DEF PruneCache
<1>2. /\ P[1] = Lock("cache") /\ P[4] = Lock("cache") /\ P[8] = Lock("cache")
      /\ P[3] = Unlock("cache") /\ P[7] = Unlock("cache") /\ P[10] = Unlock("cache")
      /\ P[2] = Write("sleeps") /\ P[5] = Write("employeeSearches")
      /\ P[6] = Write("employees") /\ P[9] = Write("employees")
  BY DEF PruneCache
<1> HIDE DEF P
<1>3. \A m, n : Lock("cache") # Unlock("cache") /\ Write(m) # Unlock("cache")
  BY DEF Lock, Unlock, Write
<1>4. ASSUME NEW i \in {1, 4, 8}
      PROVE  \A j \in 1..(i - 1) :
                P[j] = Lock("cache") => \E k \in j..(i - 1) : P[k] = Unlock("cache")
  <2>1. \A j \in 1..(i - 1) : \/ i = 4 /\ 3 \in j..(i - 1)
                              \/ i = 8 /\ 7 \in j..(i - 1)
    OBVIOUS
  <2>2. QED
    BY <1>2, <2>1
<1>5. ASSUME NEW i \in {2, 5, 6, 9}
      PROVE  \E j \in 1..(i - 1) : /\ P[j] = Lock("cache")
                                   /\ \A k \in j..(i - 1) : P[k] # Unlock("cache")
  <2>1. CASE i = 2
    BY <1>2, <1>3, <2>1
  <2>2. CASE i \in {5, 6}
    <3>1. 4 \in 1..(i - 1) /\ \A k \in 4..(i - 1) : k = 4 \/ k = 5
      BY <2>2
    <3>2. \A k \in 4..(i - 1) : P[k] # Unlock("cache")
      BY <1>2, <1>3, <3>1
    <3>3. QED
      BY <1>2, <3>1, <3>2
  <2>3. CASE i = 9
    <3>1. 8 \in 1..(i - 1) /\ \A k \in 8..(i - 1) : k = 8
      BY <2>3
    <3>2. QED
      BY <1>2, <1>3, <3>1
  <2>4. QED
    BY <2>1, <2>2, <2>3
<1>6. \A i \in 1..10 : i \in {1, 4, 8} \/ i \in {3, 7, 10} \/ i \in {2, 5, 6, 9}
  OBVIOUS
<1>7. \A i \in {2, 5, 6, 9} : \E m \in CachedMaps : P[i] = Write(m)
  BY <1>2 DEF CachedMaps
<1>8. /\ \A i \in {1, 4, 8} : P[i] = Lock("cache")
      /\ \A i \in {3, 7, 10} : P[i] = Unlock("cache")
  BY <1>2
<1>9. QED
  BY <1>1, <1>4, <1>5, <1>6, <1>7, <1>8 DEF IsTick, P

LEMMA PruneSetReadIsTick == IsTick(PruneSetRead, "inProgress", FlagMaps)
<1>1. <<"employeeRead", "employeeSearch", "sleepRead">> \in Seq(FlagMaps)
  BY DEF FlagMaps
<1>2. QED
  BY <1>1, TickIsTick DEF PruneSetRead

LEMMA PruneNotFoundIsTick == IsTick(PruneNotFound, "notFound", FlagMaps)
<1>1. <<"employeeNotFound", "employeeSearchNotFound">> \in Seq(FlagMaps)
  BY DEF FlagMaps
<1>2. QED
  BY <1>1, TickIsTick DEF PruneNotFound

-----------------------------------------------------------------------------
(* What an operation's list says of the goroutine that runs it             *)

\* Every list of a request.
LEMMA RequestsAreRequests ==
    ASSUME NEW o \in RequestOps
    PROVE  IsRequest(Program(o))
<1>1. Program(o) \in {EmployeeRead, EmployeesRead, EmployeesWrite,
                      EmployeesDelete, EmployeesNotFoundWrite, SleepRead,
                      SleepWrite, SleepsDelete, Clear}
  BY DEF RequestOps, Program
<1>2. QED
  BY <1>1, EmployeeReadIsRequest, EmployeesReadIsRequest,
     EmployeesWriteIsRequest, EmployeesDeleteIsRequest,
     EmployeesNotFoundWriteIsRequest, SleepReadIsRequest, SleepWriteIsRequest,
     SleepsDeleteIsRequest, ClearIsRequest

LEMMA PrunersPrograms ==
    /\ Program("PruneCache") = PruneCache
    /\ Program("PruneSetRead") = PruneSetRead
    /\ Program("PruneNotFound") = PruneNotFound
    /\ Program("Close") = Close
    /\ Program("idle") = << >> /\ Program("exited") = << >>
  BY DEF Program

\* Every operation is a finite list of the goroutine's instructions.
IsProgram(P) ==
    /\ DOMAIN P = 1..Len(P) /\ Len(P) \in Nat
    /\ \A i \in 1..Len(P) : P[i][1] \in {"rlock", "lock", "unlock", "read",
                                       "write", "cancel", "wait"}

LEMMA OpsArePrograms ==
    ASSUME NEW o \in Ops
    PROVE  IsProgram(Program(o))
<1>1. CASE o \in RequestOps
  BY <1>1, RequestsAreRequests DEF IsRequest, IsProgram
<1>2. ASSUME NEW P, NEW lock, NEW maps, IsTick(P, lock, maps)
      PROVE  IsProgram(P)
  BY <1>2 DEF IsTick, IsProgram, Lock, Unlock, Write
<1>3. CASE o \in PrunerOps
  BY <1>2, <1>3, PrunersPrograms, PruneCacheIsTick, PruneSetReadIsTick,
     PruneNotFoundIsTick DEF PrunerOps
<1>4. CASE o \in {"Close", "idle", "exited"}
  BY <1>4, PrunersPrograms DEF IsProgram, Close, Lock
<1>5. QED
  BY <1>1, <1>3, <1>4 DEF Ops

\* A request that touches a map holds the cache's mutex; if only for reading, it
\* changes no map but the flags in progress, and these under their own mutex.
LEMMA RequestsHold ==
    ASSUME NEW g, NEW m, op[g] \in RequestOps, at[g] \in Nat \ {0},
           Touches(g, m)
    PROVE  \/ Writer(g, "cache")
           \/ /\ Reader(g, "cache")
              /\ Instruction(g) = Write(m) =>
                    m \in ProgressMaps /\ Writer(g, "inProgress")
              /\ Instruction(g) = Read(m) => m \notin ProgressMaps
<1> PICK P : P = Program(op[g])
  OBVIOUS
<1> PICK a \in Nat \ {0} : a = at[g]
  OBVIOUS
<1>1. IsRequest(P)
  BY RequestsAreRequests
<1>2. a \in 1..Len(P) /\ Instruction(g) = P[a] /\ P[a] \in {Read(m), Write(m)}
  BY <1>1 DEF Touches, Instruction, IsRequest, Read, Write
<1>3. a - 1 \in 1..Len(P) /\ 1 \in 1..(a - 1)
  BY <1>1, <1>2 DEF IsRequest, Read, Write, RLock, Lock
<1>4. ASSUME NEW kind, NEW l, NEW i \in 1..(a - 1), P[i] = <<kind, l>>
      PROVE  Has(g, kind, l)
  <2>1. ASSUME NEW j \in i..(a - 1)
        PROVE  P[j] # Unlock(l)
    <3>1. j \in 1..Len(P)
      BY <1>1, <1>2 DEF IsRequest
    <3>2. P[j][1] # "unlock"
      BY <1>1, <3>1 DEF IsRequest
    <3>3. QED
      BY <3>2 DEF Unlock
  <2>2. QED
    BY <1>4, <2>1 DEF Has
<1>5. CASE P[1] = Lock("cache")
  BY <1>3, <1>4, <1>5 DEF Writer, Lock
<1>6. CASE P[1] = RLock("cache")
  <2>1. Reader(g, "cache")
    BY <1>3, <1>4, <1>6 DEF Reader, RLock
  <2>2. ASSUME P[a] = Write(m)
        PROVE  m \in ProgressMaps /\ Writer(g, "inProgress")
    <3>1. P[a][1] = "write" /\ P[a][2] = m
      BY <2>2 DEF Write
    <3>2. m \in ProgressMaps /\ \E j \in 1..(a - 1) : P[j] = Lock("inProgress")
      BY <1>1, <1>2, <1>6, <3>1 DEF IsRequest
    <3>3. QED
      BY <1>4, <3>2 DEF Writer, Lock
  <2>3. P[a] = Read(m) => m \notin ProgressMaps
    BY <1>1, <1>2, <1>6 DEF IsRequest, Read
  <2>4. QED
    BY <1>2, <2>1, <2>2, <2>3
<1>7. QED
  BY <1>1, <1>5, <1>6 DEF IsRequest

\* A pruner changes a map of cached data only between the Lock and the Unlock
\* of the cache's mutex.
LEMMA PrunersHold ==
    ASSUME NEW g, NEW m \in CachedMaps, op[g] \in PrunerOps,
           at[g] \in Nat \ {0}, Touches(g, m)
    PROVE  Writer(g, "cache")
<1> PICK P : P = Program(op[g])
  OBVIOUS
<1> PICK a \in Nat \ {0} : a = at[g]
  OBVIOUS
<1>1. CASE op[g] = "PruneCache"
  <2>1. IsTick(P, "cache", CachedMaps)
    BY <1>1, PrunersPrograms, PruneCacheIsTick
  <2>2. a \in 1..Len(P) /\ P[a] \in {Read(m), Write(m)}
    BY <2>1 DEF Touches, Instruction, IsTick, Read, Write
  <2>3. P[a] # Lock("cache") /\ P[a] # Unlock("cache")
    BY <2>2 DEF Read, Write, Lock, Unlock
  <2>4. \E j \in 1..(a - 1) : /\ P[j] = Lock("cache")
                             /\ \A k \in j..(a - 1) : P[k] # Unlock("cache")
    BY <2>1, <2>2, <2>3 DEF IsTick
  <2>5. QED
    BY <2>4 DEF Writer, Has, Lock
<1>2. CASE op[g] \in {"PruneSetRead", "PruneNotFound"}
  <2>1. PICK lock : IsTick(P, lock, FlagMaps)
    BY <1>2, PrunersPrograms, PruneSetReadIsTick, PruneNotFoundIsTick
  <2>2. a \in 1..Len(P) /\ P[a] \in {Read(m), Write(m)}
    BY <2>1 DEF Touches, Instruction, IsTick, Read, Write
  <2>3. m \in FlagMaps
    BY <2>1, <2>2 DEF IsTick, Read, Write, Lock, Unlock
  <2>4. QED
    BY <2>3 DEF CachedMaps, FlagMaps
<1>3. QED
  BY <1>1, <1>2 DEF PrunerOps

LEMMA Returning ==
    ASSUME NEW s, s = <<"return", "">>
    PROVE  s[1] = "return"
  OBVIOUS

\* Whoever touches a map of cached data holds the mutex of the cache, for
\* writing when it changes the map.
LEMMA CachedMapsAreHeld ==
    ASSUME NEW g, NEW m \in CachedMaps, op[g] \in Ops, at[g] \in Nat \ {0},
           Touches(g, m)
    PROVE  /\ Writer(g, "cache") \/ Reader(g, "cache")
           /\ Instruction(g) = Write(m) => Writer(g, "cache")
<1>1. CASE op[g] \in RequestOps
  BY <1>1, RequestsHold DEF CachedMaps, ProgressMaps
<1>2. CASE op[g] \in PrunerOps
  BY <1>2, PrunersHold
<1>3. CASE op[g] \in {"Close", "idle", "exited"}
  <2>1. CASE op[g] = "Close"
    <3>1. Program(op[g]) = Close /\ DOMAIN Close = 1..3
      BY <2>1, PrunersPrograms DEF Close, Lock
    <3>2. \A i \in 1..3 : Close[i] \notin {Read(m), Write(m)}
      BY DEF Close, Lock, Read, Write
    <3>3. QED
      BY <3>1, <3>2 DEF Touches, Instruction, Read, Write
  <2>2. CASE op[g] \in {"idle", "exited"}
    <3>1. Program(op[g]) = << >> /\ at[g] \notin DOMAIN << >>
      BY <2>2, PrunersPrograms
    <3>2. Instruction(g) = <<"return", "">>
      BY <3>1, Zenon DEF Instruction
    <3>3. Instruction(g)[1] = "return" /\ Read(m)[1] = "read" /\ Write(m)[1] = "write"
      BY <3>2, Returning DEF Read, Write
    <3>4. QED
      BY <3>3 DEF Touches
  <2>3. QED
    BY <1>3, <2>1, <2>2
<1>4. QED
  BY <1>1, <1>2, <1>3 DEF Ops

-----------------------------------------------------------------------------
(* The inductive invariant                                                 *)

\* What a goroutine runs, as its role allows.
RolesOK ==
    /\ \A g \in Callers : op[g] \in RequestOps \cup {"idle"}
    /\ \A g \in Closers : op[g] \in {"Close", "idle", "exited"}

\* The mutexes do their work: a writer excludes everybody else.
Exclusive ==
    \A g, h \in Goroutines, l \in Locks :
        g # h /\ Writer(g, l) => ~Writer(h, l) /\ ~Reader(h, l)

\* A Close that has come past its Wait leaves no pruner running.
Waited ==
    \A c \in Closers :
        op[c] = "exited" \/ (op[c] = "Close" /\ at[c] > 3) =>
            \A g \in Pruners : op[g] = "exited"

IInv ==
    /\ LocksTypeOK /\ at \in [Goroutines -> Nat \ {0}]
    /\ RolesOK
    /\ Exclusive
    /\ Waited


-----------------------------------------------------------------------------
(* Steps                                                                   *)

LEMMA OpsNamed ==
    /\ CallerOps \subseteq RequestOps
    /\ Pruners \subseteq PrunerOps
    /\ CallerOps \cup PrunerOps \cup {"Close", "idle", "exited"} \subseteq Ops
    /\ \A o \in RequestOps : o \notin {"Close", "idle", "exited"}
    /\ \A o \in PrunerOps : o \notin {"Close", "idle", "exited"}
  BY CallersAssumption, PrunersAssumption DEF RequestOps, PrunerOps, Ops

\* What the invariant says of one goroutine's place.
LEMMA Places ==
    ASSUME IInv, NEW g \in Goroutines
    PROVE  /\ op[g] \in Ops /\ IsProgram(Program(op[g]))
           /\ at[g] \in Nat /\ at[g] >= 1 /\ at[g] <= Len(Program(op[g])) + 1
           /\ op[g] \in {"idle", "exited"} => at[g] = 1
<1>1. op[g] \in Ops /\ IsProgram(Program(op[g]))
  BY OpsNamed, OpsArePrograms DEF IInv, LocksTypeOK
<1>2. at[g] \in Nat /\ at[g] >= 1 /\ at[g] <= Len(Program(op[g])) + 1
  BY <1>1 DEF IInv, LocksTypeOK, IsProgram
<1>3. op[g] \in {"idle", "exited"} => at[g] = 1
  BY <1>2, PrunersPrograms
<1>4. QED
  BY <1>1, <1>2, <1>3

\* An instruction other than "return" is one of the goroutine's list.
LEMMA Instructions ==
    ASSUME IInv, NEW g \in Goroutines
    PROVE  \/ /\ at[g] <= Len(Program(op[g]))
              /\ Instruction(g) = Program(op[g])[at[g]]
              /\ Instruction(g)[1] # "return"
           \/ /\ at[g] = Len(Program(op[g])) + 1
              /\ Instruction(g)[1] = "return"
<1> PICK P : P = Program(op[g])
  OBVIOUS
<1>1. IsProgram(P) /\ at[g] \in Nat /\ at[g] >= 1 /\ at[g] <= Len(P) + 1
  BY Places
<1>2. CASE at[g] <= Len(P)
  <2>1. at[g] \in DOMAIN P /\ P[at[g]][1] # "return"
    BY <1>1, <1>2 DEF IsProgram
  <2>2. Instruction(g) = P[at[g]]
    BY <2>1 DEF Instruction
  <2>3. QED
    BY <1>2, <2>1, <2>2
<1>3. CASE at[g] = Len(P) + 1
  <2>1. at[g] \notin DOMAIN P
    BY <1>1, <1>3 DEF IsProgram
  <2>2. Instruction(g) = <<"return", "">>
    BY <2>1 DEF Instruction
  <2>3. QED
    BY <1>3, <2>2, Returning
<1>4. QED
  BY <1>1, <1>2, <1>3 DEF IsProgram

\* The three ways in which a step moves goroutine g: it begins or leaves an
\* operation, or it goes on to the next instruction of the one it is in.
Moves(g) ==
    \/ /\ at' = [at EXCEPT ![g] = 1]
       /\ op' = [op EXCEPT ![g] = op'[g]]
    \/ /\ at[g] <= Len(Program(op[g]))
       /\ Advance(g)
       /\ op' = op

\* A goroutine just begun or ended holds nothing.
LEMMA NothingAtFirst ==
    ASSUME NEW g, NEW kind, NEW l, at[g] = 1
    PROVE  ~Has(g, kind, l)
  BY DEF Has

\* A goroutine that goes on holds what it held or has just acquired.
LEMMA HeldOrAcquired ==
    ASSUME IInv, NEW g \in Goroutines, NEW kind, NEW l,
           Advance(g), op' = op, at[g] <= Len(Program(op[g])),
           Has(g, kind, l)'
    PROVE  Has(g, kind, l) \/ Instruction(g) = <<kind, l>>
<1> PICK P : P = Program(op[g])
  OBVIOUS
<1> PICK a \in Nat : a = at[g]
  BY DEF IInv
<1>1. at'[g] = a + 1
  BY DEF IInv, Advance
<1>2. PICK i \in 1..a : P[i] = <<kind, l>> /\ \A j \in i..a : P[j] # Unlock(l)
  BY <1>1 DEF Has
<1>3. CASE i = a
  <2>1. a # Len(P) + 1
    BY Places DEF IsProgram
  <2>2. Instruction(g) = P[a]
    BY <2>1, Instructions
  <2>3. QED
    BY <1>2, <1>3, <2>2
<1>4. CASE i # a
  BY <1>2, <1>4 DEF Has
<1>5. QED
  BY <1>3, <1>4

\* The others stay where they are and hold what they held.
LEMMA OthersHold ==
    ASSUME IInv, NEW g \in Goroutines, Moves(g), NEW h \in Goroutines, h # g,
           NEW kind, NEW l
    PROVE  /\ op'[h] = op[h] /\ at'[h] = at[h]
           /\ Has(h, kind, l)' <=> Has(h, kind, l)
<1>1. op'[h] = op[h] /\ at'[h] = at[h]
  BY DEF IInv, LocksTypeOK, Moves, Advance
<1>2. QED
  BY <1>1 DEF Has


\* A mutex that g acquires next is free of those who would exclude g.
Granted(g) ==
    \A l \in Locks, h \in Others(g) :
        /\ Instruction(g) = Lock(l) => ~Writer(h, l) /\ ~Reader(h, l)
        /\ Instruction(g) = RLock(l) => ~Writer(h, l)

Begins(g) ==
    /\ op[g] = "idle" /\ at' = at
    /\ op' = [op EXCEPT ![g] = op'[g]]
    /\ \/ g \in Callers /\ op'[g] \in CallerOps
       \/ g \in Pruners /\ op'[g] \in {g, "exited"}
       \/ g \in Closers /\ op'[g] = "Close"

Ends(g) ==
    /\ op[g] \notin {"idle", "exited"}
    /\ g \in Closers => at[g] > 3
    /\ op' = [op EXCEPT ![g] = IF g \in Closers THEN "exited" ELSE "idle"]
    /\ at' = [at EXCEPT ![g] = 1]

GoesOn(g) ==
    /\ at[g] <= Len(Program(op[g]))
    /\ Advance(g) /\ op' = op
    /\ op[g] = "Close" /\ at[g] = 3 => \A h \in Pruners : op[h] = "exited"

\* An instruction that neither locks nor starts anything needs no grant.
LEMMA GrantedOtherwise ==
    ASSUME NEW g, Instruction(g)[1] \notin {"lock", "rlock"}
    PROVE  Granted(g)
<1>1. \A l : Lock(l)[1] = "lock" /\ RLock(l)[1] = "rlock"
  BY DEF Lock, RLock
<1>2. QED
  BY <1>1 DEF Granted

\* Close's third instruction is the wait, and it has no others but the lock
\* and the cancel.
LEMMA CloseInstructions ==
    ASSUME IInv, NEW g \in Goroutines, op[g] = "Close"
    PROVE  /\ at[g] \in 1..4
           /\ at[g] = 1 => Instruction(g)[1] = "lock"
           /\ at[g] = 2 => Instruction(g)[1] = "cancel"
           /\ at[g] = 3 => Instruction(g)[1] = "wait"
           /\ at[g] = 4 => Instruction(g)[1] = "return"
<1>1. Program(op[g]) = Close /\ Len(Close) = 3
  BY PrunersPrograms DEF Close
<1>2. Close[1][1] = "lock" /\ Close[2][1] = "cancel" /\ Close[3][1] = "wait"
  BY DEF Close, Lock
<1>3. at[g] \in 1..4
  <2>1. PICK n : n = Len(Program(op[g]))
    OBVIOUS
  <2>2. at[g] \in Nat /\ at[g] >= 1 /\ at[g] <= n + 1
    BY <2>1, Places
  <2>3. n = 3
    BY <1>1, <2>1
  <2>4. QED
    BY <2>2, <2>3
<1>4. CASE at[g] = 4
  BY <1>1, <1>4, Instructions
<1>5. CASE at[g] \in 1..3
  <2>1. Instruction(g) = Close[at[g]]
    BY <1>1, <1>5, Instructions
  <2>2. QED
    BY <1>2, <1>5, <2>1
<1>6. QED
  BY <1>3, <1>4, <1>5

LEMMA IdleInstructions ==
    ASSUME IInv, NEW g \in Goroutines, op[g] \in {"idle", "exited"}
    PROVE  at[g] = 1 /\ Instruction(g)[1] = "return"
<1>1. at[g] = 1 /\ Program(op[g]) = << >>
  BY Places, PrunersPrograms
<1>2. QED
  BY <1>1, Instructions

\* The steps of one goroutine in the middle of its operation.
LEMMA RunKinds ==
    ASSUME IInv, NEW g \in Goroutines, Run(g), ~Announce(g)
    PROVE  Granted(g) /\ (Ends(g) \/ GoesOn(g))
<1>1. CASE Finish(g)
  <2>1. Instruction(g)[1] \in {"return", "read"}
    BY <1>1 DEF Finish
  <2>2. op[g] \notin {"idle", "exited"}
    BY <1>1, IdleInstructions DEF Finish
  <2>3. g \in Closers => at[g] > 3
    <3>1. g \in Closers => op[g] = "Close"
      BY <2>2 DEF IInv, RolesOK
    <3>2. QED
      BY <2>1, <3>1, CloseInstructions
  <2>4. Ends(g)
    BY <1>1, <2>2, <2>3 DEF Finish, Ends
  <2>5. QED
    BY <2>1, <2>4, GrantedOtherwise
<1>2. ASSUME Instruction(g)[1] # "return", Advance(g), op' = op,
             Instruction(g)[1] = "wait" => \A h \in Pruners : op[h] = "exited"
      PROVE  GoesOn(g)
  <2>1. at[g] <= Len(Program(op[g]))
    BY <1>2, Instructions
  <2>2. op[g] = "Close" /\ at[g] = 3 => Instruction(g)[1] = "wait"
    BY CloseInstructions
  <2>3. QED
    BY <1>2, <2>1, <2>2 DEF GoesOn
<1>3. CASE AcquireWrite(g)
  <2>1. Instruction(g)[1] = "lock"
    BY <1>3 DEF AcquireWrite
  <2>2. Granted(g)
    <3>1. \A l : /\ Instruction(g) = Lock(l) => Instruction(g)[2] = l
                 /\ Instruction(g) # RLock(l)
      BY <2>1 DEF Lock, RLock
    <3>2. QED
      BY <1>3, <3>1 DEF AcquireWrite, Granted
  <2>3. QED
    BY <1>2, <1>3, <2>1, <2>2 DEF AcquireWrite
<1>4. CASE AcquireRead(g)
  <2>1. Instruction(g)[1] = "rlock"
    BY <1>4 DEF AcquireRead
  <2>2. Granted(g)
    <3>1. \A l : /\ Instruction(g) = RLock(l) => Instruction(g)[2] = l
                 /\ Instruction(g) # Lock(l)
      BY <2>1 DEF Lock, RLock
    <3>2. QED
      BY <1>4, <3>1 DEF AcquireRead, Granted
  <2>3. QED
    BY <1>2, <1>4, <2>1, <2>2 DEF AcquireRead
<1>5. CASE Proceed(g)
  <2>1. Instruction(g)[1] \in {"read", "write", "unlock"} /\ Advance(g) /\ op' = op
    BY <1>5 DEF Proceed
  <2>2. QED
    BY <1>2, <2>1, GrantedOtherwise
<1>6. CASE Cancel(g)
  <2>1. Instruction(g)[1] = "cancel" /\ Advance(g) /\ op' = op
    BY <1>6 DEF Cancel
  <2>2. QED
    BY <1>2, <2>1, GrantedOtherwise
<1>7. CASE Await(g)
  <2>1. Instruction(g)[1] = "wait" /\ Advance(g) /\ op' = op
    BY <1>7 DEF Await
  <2>2. QED
    BY <1>2, <1>7, <2>1, GrantedOtherwise DEF Await
<1>8. QED
  BY <1>1, <1>3, <1>4, <1>5, <1>6, <1>7 DEF Run

\* Every step is one of these, of one goroutine, or moves nobody.
LEMMA StepKinds ==
    ASSUME IInv, [Next]_vars
    PROVE  \/ op' = op /\ at' = at
           \/ \E g \in Goroutines :
                 Granted(g) /\ (Begins(g) \/ Ends(g) \/ GoesOn(g))
<1>1. ASSUME NEW g \in Goroutines, Begins(g)
      PROVE  Granted(g)
  BY <1>1, IdleInstructions, GrantedOtherwise DEF Begins
<1>2. ASSUME NEW g \in Goroutines, NEW o, Begin(g, o)
      PROVE  /\ op[g] = "idle" /\ at' = at /\ op'[g] = o
             /\ op' = [op EXCEPT ![g] = op'[g]]
  BY <1>2 DEF Begin, IInv, LocksTypeOK
<1>3. ASSUME NEW g \in Callers, NEW o \in CallerOps, Begin(g, o)
      PROVE  g \in Goroutines /\ Begins(g)
  BY <1>2, <1>3 DEF Begins, Goroutines
<1>4. ASSUME NEW g \in Pruners, TakeTick(g)
      PROVE  g \in Goroutines /\ Begins(g)
  BY <1>2, <1>4 DEF TakeTick, Begins, Goroutines
<1>5. ASSUME NEW g \in Pruners, TakeDone(g)
      PROVE  g \in Goroutines /\ Begins(g)
  BY <1>5 DEF TakeDone, Begins, Goroutines, IInv, LocksTypeOK
<1>6. ASSUME NEW g \in Closers, Begin(g, "Close")
      PROVE  g \in Goroutines /\ Begins(g)
  BY <1>2, <1>6 DEF Begins, Goroutines
<1>7. ASSUME NEW g \in Goroutines, Announce(g)
      PROVE  op' = op /\ at' = at
  BY <1>7 DEF Announce
<1>8. CASE UNCHANGED vars
  BY <1>8 DEF vars
<1>9. QED
  BY <1>1, <1>3, <1>4, <1>5, <1>6, <1>7, <1>8, RunKinds DEF Next


-----------------------------------------------------------------------------
(* The invariant is kept                                                   *)

\* A step of g keeps the goroutines' operations, places and roles in order.
LEMMA PlacesKept ==
    ASSUME IInv, NEW g \in Goroutines, Begins(g) \/ Ends(g) \/ GoesOn(g)
    PROVE  /\ op' \in [Goroutines -> CallerOps \cup PrunerOps
                                      \cup {"Close", "idle", "exited"}]
           /\ at' \in [Goroutines -> Nat \ {0}]
           /\ \A h \in Goroutines : at'[h] \in 1..(Len(Program(op'[h])) + 1)
           /\ Moves(g)
<1>1. /\ op \in [Goroutines -> CallerOps \cup PrunerOps
                                \cup {"Close", "idle", "exited"}]
      /\ at \in [Goroutines -> Nat \ {0}]
      /\ \A h \in Goroutines : at[h] \in 1..(Len(Program(op[h])) + 1)
  BY DEF IInv, LocksTypeOK
<1>2. CASE Begins(g)
  <2>1. at[g] = 1 /\ at' = [at EXCEPT ![g] = 1]
    BY <1>1, <1>2, IdleInstructions DEF Begins
  <2>2. op'[g] \in CallerOps \cup PrunerOps \cup {"Close", "idle", "exited"}
    BY <1>2, OpsNamed DEF Begins
  <2>3. op'[g] \in Ops /\ Len(Program(op'[g])) \in Nat
    BY <2>2, OpsNamed, OpsArePrograms DEF IsProgram
  <2>4. Moves(g)
    BY <1>2, <2>1 DEF Begins, Moves
  <2>5. op' = [op EXCEPT ![g] = op'[g]]
    BY <1>2 DEF Begins
  <2>6. \A h \in Goroutines : at'[h] \in 1..(Len(Program(op'[h])) + 1)
    BY <1>1, <2>1, <2>3, <2>5
  <2>7. QED
    BY <1>1, <2>1, <2>2, <2>4, <2>5, <2>6
<1>3. CASE Ends(g)
  <2>1. /\ op'[g] \in {"idle", "exited"} /\ op' = [op EXCEPT ![g] = op'[g]]
        /\ at' = [at EXCEPT ![g] = 1]
    BY <1>1, <1>3 DEF Ends
  <2>2. Moves(g)
    BY <2>1 DEF Moves
  <2>3. Len(Program(op'[g])) \in Nat
    BY <2>1, OpsArePrograms DEF IsProgram, Ops
  <2>4. \A h \in Goroutines : at'[h] \in 1..(Len(Program(op'[h])) + 1)
    BY <1>1, <2>1, <2>3
  <2>5. QED
    BY <1>1, <2>1, <2>2, <2>4
<1>4. CASE GoesOn(g)
  <2>1. /\ op' = op /\ at' = [at EXCEPT ![g] = at[g] + 1]
        /\ at[g] <= Len(Program(op[g])) /\ Len(Program(op[g])) \in Nat
    BY <1>4, Places DEF GoesOn, Advance, IsProgram
  <2>2. Moves(g)
    BY <1>4 DEF GoesOn, Moves
  <2>3. \A h \in Goroutines : at'[h] \in 1..(Len(Program(op'[h])) + 1)
    BY <1>1, <2>1
  <2>4. QED
    BY <1>1, <2>1, <2>2, <2>3
<1>5. QED
  BY <1>2, <1>3, <1>4

LEMMA RolesKept ==
    ASSUME IInv, NEW g \in Goroutines, Begins(g) \/ Ends(g) \/ GoesOn(g)
    PROVE  RolesOK'
<1>1. op \in [Goroutines -> CallerOps \cup PrunerOps
                             \cup {"Close", "idle", "exited"}]
  BY DEF IInv, LocksTypeOK
<1>2. \A h \in Goroutines \ {g} : op'[h] = op[h]
  BY <1>1 DEF Begins, Ends, GoesOn
<1>3. g \in Callers => op'[g] \in RequestOps \cup {"idle"}
  BY <1>1, OpsNamed, RolesAssumption DEF Begins, Ends, GoesOn, IInv, RolesOK
<1>4. g \in Closers => op'[g] \in {"Close", "idle", "exited"}
  BY <1>1, RolesAssumption DEF Begins, Ends, GoesOn, IInv, RolesOK
<1>5. QED
  BY <1>2, <1>3, <1>4 DEF IInv, RolesOK, Goroutines

\* After a step g holds what it held, or what it was granted.
LEMMA HoldsAfter ==
    ASSUME IInv, NEW g \in Goroutines, Moves(g), NEW kind, NEW l,
           Has(g, kind, l)'
    PROVE  Has(g, kind, l) \/ Instruction(g) = <<kind, l>>
<1>1. CASE at' = [at EXCEPT ![g] = 1]
  <2>1. at'[g] = 1
    BY <1>1 DEF IInv
  <2>2. ~Has(g, kind, l)'
    BY <2>1 DEF Has
  <2>3. QED
    BY <2>2
<1>2. QED
  BY <1>1, HeldOrAcquired DEF Moves

\* Only a free mutex is taken, so nobody who excludes others gets company.
LEMMA ExclusiveKept ==
    ASSUME IInv, NEW g \in Goroutines, Moves(g), Granted(g)
    PROVE  Exclusive'
<1> SUFFICES ASSUME NEW g1 \in Goroutines, NEW h1 \in Goroutines,
                    NEW l \in Locks, g1 # h1, Writer(g1, l)',
                    Writer(h1, l)' \/ Reader(h1, l)'
             PROVE  FALSE
  BY DEF Exclusive
<1>1. ~(Writer(g1, l) /\ (Writer(h1, l) \/ Reader(h1, l)))
  BY DEF IInv, Exclusive
<1>2. CASE g = g1
  <2>1. Writer(h1, l) \/ Reader(h1, l)
    BY <1>2, OthersHold DEF Writer, Reader
  <2>2. Instruction(g) = Lock(l)
    BY <1>1, <1>2, <2>1, HoldsAfter DEF Writer, Lock
  <2>3. QED
    BY <1>2, <2>1, <2>2 DEF Granted, Others
<1>3. CASE g = h1
  <2>1. Writer(g1, l)
    BY <1>3, OthersHold DEF Writer
  <2>2. Instruction(g) = Lock(l) \/ Instruction(g) = RLock(l)
    BY <1>1, <1>3, <2>1, HoldsAfter DEF Writer, Reader, Lock, RLock
  <2>3. QED
    BY <1>3, <2>1, <2>2 DEF Granted, Others
<1>4. CASE g \notin {g1, h1}
  BY <1>1, <1>4, OthersHold DEF Writer, Reader
<1>5. QED
  BY <1>2, <1>3, <1>4

\* Exited pruners stay exited, and Close comes past its wait only then.
LEMMA WaitedKept ==
    ASSUME IInv, NEW g \in Goroutines, Begins(g) \/ Ends(g) \/ GoesOn(g)
    PROVE  Waited'
<1>1. /\ op \in [Goroutines -> CallerOps \cup PrunerOps
                                \cup {"Close", "idle", "exited"}]
      /\ at \in [Goroutines -> Nat \ {0}]
  BY DEF IInv, LocksTypeOK
<1>2. \A h \in Goroutines : op[h] = "exited" => op'[h] = "exited"
  BY <1>1 DEF Begins, Ends, GoesOn
<1>3. \A h \in Goroutines \ {g} : op'[h] = op[h] /\ at'[h] = at[h]
  BY <1>1 DEF Begins, Ends, GoesOn, Advance
<1>4. ASSUME NEW c \in Closers,
             op'[c] = "exited" \/ (op'[c] = "Close" /\ at'[c] > 3)
      PROVE  \A h \in Pruners : op[h] = "exited"
  <2>1. c \in Goroutines /\ op[c] \in {"Close", "idle", "exited"}
    BY DEF Goroutines, IInv, RolesOK
  <2>2. CASE op[c] = "exited" \/ (op[c] = "Close" /\ at[c] > 3)
    BY <2>2 DEF IInv, Waited
  <2>3. CASE c = g
    <3>1. CASE Begins(g)
      <4>1. at'[c] = 1 /\ op'[c] = "Close"
        BY <2>3, <3>1, IdleInstructions, RolesAssumption DEF Begins
      <4>2. QED
        BY <1>4, <4>1
    <3>2. CASE Ends(g)
      BY <2>1, <2>2, <2>3, <3>2 DEF Ends
    <3>3. CASE GoesOn(g)
      <4>1. op'[c] = op[c] /\ at'[c] = at[c] + 1 /\ at[c] \in Nat
        BY <1>1, <2>1, <2>3, <3>3 DEF GoesOn, Advance
      <4>2. CASE op[c] = "Close" /\ at[c] = 3
        BY <2>3, <3>3, <4>2 DEF GoesOn
      <4>3. QED
        BY <1>4, <2>2, <4>1, <4>2
    <3>4. QED
      BY <3>1, <3>2, <3>3
  <2>4. QED
    BY <1>3, <1>4, <2>1, <2>2, <2>3
<1>5. QED
  BY <1>2, <1>4 DEF Waited, Goroutines

LEMMA InitHolds == Init => IInv
<1> SUFFICES ASSUME Init PROVE IInv
  OBVIOUS
<1>1. \A g \in Goroutines : op[g] = "idle" /\ at[g] = 1
  BY DEF Init
<1>2. \A g \in Goroutines : at[g] \in 1..(Len(Program(op[g])) + 1)
  BY <1>1, PrunersPrograms
<1>3. LocksTypeOK /\ at \in [Goroutines -> Nat \ {0}]
  <2>1. op \in [Goroutines -> CallerOps \cup PrunerOps
                               \cup {"Close", "idle", "exited"}]
    BY DEF Init
  <2>2. at \in [Goroutines -> Nat \ {0}]
    BY DEF Init
  <2>3. announced \in SUBSET Goroutines /\ cancelled \in BOOLEAN
    BY DEF Init
  <2>4. QED
    BY <1>2, <2>1, <2>2, <2>3 DEF LocksTypeOK
<1>4. \A g \in Goroutines : \A kind, l : ~Has(g, kind, l)
  BY <1>1, NothingAtFirst
<1>5. Exclusive
  BY <1>4 DEF Exclusive, Writer
<1>6. RolesOK /\ Waited
  BY <1>1 DEF RolesOK, Waited, Goroutines
<1>7. QED
  BY <1>3, <1>5, <1>6 DEF IInv

LEMMA StepKeeps == IInv /\ [Next]_vars => IInv'
<1> SUFFICES ASSUME IInv, [Next]_vars PROVE IInv'
  OBVIOUS
<1>1. announced' \in SUBSET Goroutines /\ cancelled' \in BOOLEAN
  <2>1. announced \in SUBSET Goroutines /\ cancelled \in BOOLEAN
    BY DEF IInv, LocksTypeOK
  <2>2. ASSUME NEW g \in Goroutines, Run(g)
        PROVE  announced' \in SUBSET Goroutines /\ cancelled' \in BOOLEAN
    BY <2>1, <2>2 DEF Run, Announce, AcquireWrite, AcquireRead, Proceed,
       Cancel, Await, Finish
  <2>3. ASSUME NEW g, NEW o, Begin(g, o) \/ TakeDone(g)
        PROVE  UNCHANGED <<announced, cancelled>>
    BY <2>3 DEF Begin, TakeDone
  <2>4. QED
    BY <2>1, <2>2, <2>3 DEF Next, TakeTick, vars
<1>2. CASE op' = op /\ at' = at
  <2>1. LocksTypeOK' /\ (at \in [Goroutines -> Nat \ {0}])'
    BY <1>1, <1>2 DEF IInv, LocksTypeOK
  <2>2. RolesOK' /\ Waited'
    BY <1>2 DEF IInv, RolesOK, Waited
  <2>3. Exclusive'
    BY <1>2 DEF IInv, Exclusive, Writer, Reader, Has
  <2>4. QED
    BY <2>1, <2>2, <2>3 DEF IInv
<1>3. ASSUME NEW g \in Goroutines, Granted(g), Begins(g) \/ Ends(g) \/ GoesOn(g)
      PROVE  IInv'
  <2>1. LocksTypeOK' /\ (at \in [Goroutines -> Nat \ {0}])' /\ Moves(g)
    BY <1>1, <1>3, PlacesKept DEF LocksTypeOK
  <2>2. QED
    BY <1>3, <2>1, RolesKept, ExclusiveKept, WaitedKept DEF IInv
<1>4. QED
  BY <1>2, <1>3, StepKinds

LEMMA Inductive == Spec => []IInv
  BY InitHolds, StepKeeps, PTL DEF Spec

-----------------------------------------------------------------------------
(* What the mutexes are for                                                *)

\* Every goroutine is at a place of its operation's list, or just past it.
THEOREM LocksTypeCorrect == Spec => []LocksTypeOK
<1>1. IInv => LocksTypeOK
  BY DEF IInv
<1>2. QED
  BY <1>1, Inductive, PTL

\* No two goroutines, requests or pruners, are ever at a map of cached data
\* with one of them changing it.
THEOREM CachedMapsAreNotRaced == Spec => []CachedMapsNeverRace
<1>1. ASSUME IInv, NEW g \in Goroutines, NEW h \in Goroutines,
             NEW m \in CachedMaps, Conflict(g, h, m)
      PROVE  FALSE
  <2>1. Touches(g, m) /\ Touches(h, m) /\ g # h /\ Instruction(g) = Write(m)
    BY <1>1 DEF Conflict, Touches
  <2>2. /\ op[g] \in Ops /\ at[g] \in Nat \ {0}
        /\ op[h] \in Ops /\ at[h] \in Nat \ {0}
    BY <1>1, Places
  <2>3. Writer(g, "cache") /\ (Writer(h, "cache") \/ Reader(h, "cache"))
    BY <2>1, <2>2, CachedMapsAreHeld
  <2>4. QED
    BY <1>1, <2>1, <2>3 DEF IInv, Exclusive, Locks
<1>2. IInv => CachedMapsNeverRace
  BY <1>1 DEF CachedMapsNeverRace
<1>3. QED
  BY <1>2, Inductive, PTL

\* Two requests are never at any map, of data or of flags, with one of them
\* changing it, although readers change flags and writers delete them without
\* their mutex.
THEOREM RequestsAreNotRaced == Spec => []CallersNeverRace
<1>1. ASSUME IInv, NEW g \in Callers, NEW h \in Callers, NEW m, Conflict(g, h, m)
      PROVE  FALSE
  <2>1. Touches(g, m) /\ Touches(h, m) /\ g # h /\ Instruction(g) = Write(m)
    BY <1>1 DEF Conflict, Touches
  <2>2. g \in Goroutines /\ h \in Goroutines
    BY DEF Goroutines
  <2>3. op[g] \in RequestOps /\ op[h] \in RequestOps
    <3>1. ASSUME NEW x \in Callers, Touches(x, m)
          PROVE  op[x] # "idle"
      <4>1. Instruction(x)[1] \in {"read", "write"}
        BY <3>1 DEF Touches, Read, Write
      <4>2. QED
        BY <1>1, <4>1, IdleInstructions DEF Goroutines
    <3>2. QED
      BY <1>1, <2>1, <3>1 DEF IInv, RolesOK
  <2>4. at[g] \in Nat \ {0} /\ at[h] \in Nat \ {0}
    BY <1>1, <2>2, Places
  <2>5. \A l \in Locks : /\ Writer(g, l) => ~Writer(h, l) /\ ~Reader(h, l)
                         /\ Writer(h, l) => ~Reader(g, l)
    BY <1>1, <2>1, <2>2 DEF IInv, Exclusive
  <2>6. Writer(h, "cache") \/ Reader(h, "cache")
    BY <2>1, <2>3, <2>4, RequestsHold
  <2>7. ~Writer(g, "cache")
    BY <2>5, <2>6 DEF Locks
  <2>8. Reader(g, "cache") /\ m \in ProgressMaps /\ Writer(g, "inProgress")
    BY <2>1, <2>3, <2>4, <2>7, RequestsHold
  <2>9. ~Writer(h, "cache") /\ ~Writer(h, "inProgress")
    BY <2>5, <2>8 DEF Locks
  <2>10. QED
    BY <2>1, <2>3, <2>4, <2>8, <2>9, RequestsHold DEF Touches
<1>2. IInv => CallersNeverRace
  BY <1>1 DEF CallersNeverRace
<1>3. QED
  BY <1>2, Inductive, PTL

\* When Close has returned every pruner has left its loop.
THEOREM CloseStopsPruners == Spec => []ClosedMeansStopped
<1>1. IInv => ClosedMeansStopped
  BY DEF IInv, Waited, ClosedMeansStopped
<1>2. QED
  BY <1>1, Inductive, PTL
-----------------------------------------------------------------------------
(* Nobody is deadlocked                                                    *)

(* A goroutine that waits for another is of a higher rank, and ranks end.  *)
(* The ranks follow the mutexes from the inside out; where the inner ones  *)
(* are taken in either order, by a reader and by a writer of the cache,    *)
(* these two are apart because of its mutex (Exclusive).                   *)

Asked(i) == i[1] \in {"lock", "rlock"}
Wants(g) == Asked(Instruction(g))
Holds(g, l) == Writer(g, l) \/ Reader(g, l)

\* What the mutexes are that a request asks for once it holds the cache's, and
\* which of them it asks for while it holds the other.
Inner(P) ==
    IF P[1] = RLock("cache") THEN {RLock("notFound"), Lock("inProgress")}
                             ELSE {Lock("inProgress"), Lock("notFound")}

InTurn(P, held, wanted) ==
    IF P[1] = RLock("cache")
    THEN held = RLock("notFound") /\ wanted = Lock("inProgress")
    ELSE held = Lock("inProgress") /\ wanted = Lock("notFound")

IsOrdered(P) ==
    /\ \A i \in 2..Len(P) : Asked(P[i]) => P[i] \in Inner(P)
    /\ \A i \in 2..Len(P), j \in 2..Len(P) :
          i < j /\ Asked(P[i]) /\ Asked(P[j]) => InTurn(P, P[i], P[j])

LEMMA RequestsAreOrdered ==
    ASSUME NEW o \in RequestOps
    PROVE  IsOrdered(Program(o))
<1>1. /\ IsOrdered(EmployeeRead) /\ IsOrdered(EmployeesRead)
      /\ IsOrdered(EmployeesWrite) /\ IsOrdered(EmployeesDelete)
  BY DEF IsOrdered, Asked, Inner, InTurn, EmployeeRead, EmployeesRead, EmployeesWrite,
         EmployeesDelete, RLock, Lock, Read, Write
<1>2. /\ IsOrdered(EmployeesNotFoundWrite) /\ IsOrdered(SleepRead)
      /\ IsOrdered(SleepWrite) /\ IsOrdered(SleepsDelete) /\ IsOrdered(Clear)
  BY DEF IsOrdered, Asked, Inner, InTurn, EmployeesNotFoundWrite, SleepRead, SleepWrite,
         SleepsDelete, Clear, RLock, Lock, Read, Write
<1>3. Program(o) \in {EmployeeRead, EmployeesRead, EmployeesWrite,
                      EmployeesDelete, EmployeesNotFoundWrite, SleepRead,
                      SleepWrite, SleepsDelete, Clear}
  BY DEF RequestOps, Program
<1>4. QED
  BY <1>1, <1>2, <1>3

\* A request that waits has only the cache's mutex, or one of the others too.
LEMMA RequestsWait ==
    ASSUME IInv, NEW g \in Goroutines, op[g] \in RequestOps, Wants(g)
    PROVE  \/ /\ Instruction(g) \in {RLock("cache"), Lock("cache")}
              /\ \A l : ~Holds(g, l)
           \/ /\ Reader(g, "cache")
              /\ Instruction(g) \in {RLock("notFound"), Lock("inProgress")}
              /\ Holds(g, "notFound") => Instruction(g) = Lock("inProgress")
              /\ ~Holds(g, "inProgress")
           \/ /\ Writer(g, "cache")
              /\ Instruction(g) \in {Lock("inProgress"), Lock("notFound")}
              /\ Holds(g, "inProgress") => Instruction(g) = Lock("notFound")
              /\ ~Holds(g, "notFound")
<1> PICK P : P = Program(op[g])
  OBVIOUS
<1> PICK a \in Nat \ {0} : a = at[g]
  BY DEF IInv
<1>1. IsRequest(P) /\ IsOrdered(P)
  BY RequestsAreRequests, RequestsAreOrdered
<1>2. a \in 1..Len(P) /\ Instruction(g) = P[a]
  <2>1. Instruction(g)[1] # "return"
    BY DEF Wants, Asked
  <2>2. a <= Len(P) /\ Instruction(g) = P[a]
    BY <2>1, Instructions
  <2>3. QED
    BY <1>1, <2>2 DEF IsRequest
<1>3. ASSUME NEW l, Holds(g, l)
      PROVE  \E i \in 1..(a - 1) : P[i] \in {Lock(l), RLock(l)}
  BY <1>3 DEF Holds, Writer, Reader, Has, Lock, RLock
<1>4. CASE a = 1
  <2>1. \A l : ~Holds(g, l)
    BY <1>3, <1>4
  <2>2. QED
    BY <1>1, <1>2, <1>4, <2>1 DEF IsRequest
<1>5. CASE a # 1
  <2>1. a \in 2..Len(P) /\ 1 \in 1..(a - 1) /\ Asked(P[a]) /\ P[a] \in Inner(P)
    BY <1>1, <1>2, <1>5 DEF IsOrdered, IsRequest, Wants
  <2>2. \A j \in 1..(a - 1) : P[j] # Unlock("cache")
    <3>1. \A j \in 1..(a - 1) : j \in 1..Len(P)
      BY <1>1, <1>2 DEF IsRequest
    <3>2. QED
      BY <1>1, <3>1 DEF IsRequest, Unlock
  <2>3. /\ P[1] = RLock("cache") => Reader(g, "cache")
        /\ P[1] = Lock("cache") => Writer(g, "cache")
    BY <2>1, <2>2 DEF Reader, Writer, Has, RLock, Lock
  <2>4. ASSUME NEW l \in {"inProgress", "notFound"}, Holds(g, l)
        PROVE  \E held \in {Lock(l), RLock(l)} : InTurn(P, held, P[a])
    <3>1. PICK i \in 1..(a - 1) : P[i] \in {Lock(l), RLock(l)}
      BY <1>3, <2>4
    <3>2. i # 1 /\ Asked(P[i])
      BY <1>1, <3>1 DEF IsRequest, Asked, Lock, RLock
    <3>3. i \in 2..Len(P) /\ i < a
      BY <1>1, <1>2, <3>2 DEF IsRequest
    <3>4. InTurn(P, P[i], P[a])
      BY <1>1, <2>1, <3>2, <3>3 DEF IsOrdered
    <3>5. QED
      BY <3>1, <3>4
  <2>5. CASE P[1] = RLock("cache")
    <3>1. P[a] \in {RLock("notFound"), Lock("inProgress")}
      BY <2>1, <2>5 DEF Inner
    <3>2. Holds(g, "notFound") => P[a] = Lock("inProgress")
      BY <2>4, <2>5 DEF InTurn
    <3>3. ~Holds(g, "inProgress")
      BY <2>4, <2>5 DEF InTurn, Lock, RLock
    <3>4. QED
      BY <1>2, <2>3, <2>5, <3>1, <3>2, <3>3
  <2>6. CASE P[1] = Lock("cache")
    <3>1. P[1] # RLock("cache")
      BY <2>6 DEF Lock, RLock
    <3>2. P[a] \in {Lock("inProgress"), Lock("notFound")}
      BY <2>1, <3>1 DEF Inner
    <3>3. Holds(g, "inProgress") => P[a] = Lock("notFound")
      BY <2>4, <3>1 DEF InTurn
    <3>4. ~Holds(g, "notFound")
      BY <2>4, <3>1 DEF InTurn, Lock, RLock
    <3>5. QED
      BY <1>2, <2>3, <2>6, <3>2, <3>3, <3>4
  <2>7. QED
    BY <1>1, <2>5, <2>6 DEF IsRequest
<1>6. QED
  BY <1>4, <1>5

\* A pruner or a Close that waits has no mutex.
LEMMA PrunersWait ==
    ASSUME IInv, NEW g \in Goroutines, op[g] \in PrunerOps \cup {"Close"}, Wants(g)
    PROVE  /\ \A l : ~Holds(g, l)
           /\ \E l \in Locks : Instruction(g) = Lock(l)
           /\ op[g] = "Close" => Instruction(g) = Lock("cache")
<1> PICK P : P = Program(op[g])
  OBVIOUS
<1> PICK a \in Nat \ {0} : a = at[g]
  BY DEF IInv
<1>1. Instruction(g)[1] # "return"
  BY DEF Wants, Asked
<1>2. CASE op[g] \in PrunerOps
  <2> PICK lock \in Locks : \E maps : IsTick(P, lock, maps)
    BY <1>2, PrunersPrograms, PruneCacheIsTick, PruneSetReadIsTick,
       PruneNotFoundIsTick DEF PrunerOps, Locks
  <2>1. PICK maps : IsTick(P, lock, maps)
    OBVIOUS
  <2>2. a \in 1..Len(P) /\ Instruction(g) = P[a]
    <3>1. a <= Len(P) /\ Instruction(g) = P[a]
      BY <1>1, Instructions
    <3>2. QED
      BY <2>1, <3>1 DEF IsTick
  <2>3. P[a] # Unlock(lock) /\ \A m : P[a] # Write(m)
    BY <2>2 DEF Wants, Asked, Unlock, Write
  <2>4. /\ P[a] = Lock(lock)
        /\ \A j \in 1..(a - 1) :
              P[j] = Lock(lock) => \E k \in j..(a - 1) : P[k] = Unlock(lock)
    BY <2>1, <2>2, <2>3 DEF IsTick
  <2>5. ASSUME NEW l, Holds(g, l)
        PROVE  FALSE
    <3>1. PICK j \in 1..(a - 1) : /\ P[j] \in {Lock(l), RLock(l)}
                                  /\ \A k \in j..(a - 1) : P[k] # Unlock(l)
      BY <2>5 DEF Holds, Writer, Reader, Has, Lock, RLock
    <3>2. j \in 1..Len(P)
      BY <2>1, <2>2 DEF IsTick
    <3>3. P[j] # Unlock(lock) /\ \A m : P[j] # Write(m)
      BY <3>1 DEF Lock, RLock, Unlock, Write
    <3>4. P[j] = Lock(lock)
      BY <2>1, <3>2, <3>3 DEF IsTick
    <3>5. l = lock
      BY <3>1, <3>4 DEF Lock, RLock
    <3>6. QED
      BY <2>4, <3>1, <3>4, <3>5
  <2>6. op[g] # "Close"
    BY <1>2 DEF PrunerOps
  <2>7. QED
    BY <2>2, <2>4, <2>5, <2>6
<1>3. CASE op[g] = "Close"
  <2>1. a = 1
    BY <1>3, CloseInstructions DEF Wants, Asked
  <2>2. Instruction(g) = Lock("cache")
    <3>1. P = Close /\ Close[1] = Lock("cache") /\ Len(Close) = 3
      BY <1>3, PrunersPrograms DEF Close
    <3>2. Instruction(g) = P[a]
      BY <1>1, Instructions
    <3>3. QED
      BY <2>1, <3>1, <3>2
  <2>3. \A l : ~Holds(g, l)
    BY <2>1, NothingAtFirst DEF Holds, Writer, Reader
  <2>4. QED
    BY <2>2, <2>3 DEF Locks
<1>4. QED
  BY <1>2, <1>3

\* The rank of a goroutine.
Rank(g) ==
    IF ~Wants(g) THEN 0
    ELSE IF Instruction(g) = RLock("cache") THEN 5
    ELSE IF Instruction(g) = Lock("cache") THEN 4
    ELSE IF Instruction(g) = RLock("notFound") THEN 3
    ELSE IF op[g] \in PrunerOps THEN 2
    ELSE 1

LEMMA Waiters ==
    ASSUME IInv, NEW g \in Goroutines, Wants(g)
    PROVE  op[g] \in RequestOps \/ op[g] \in PrunerOps \cup {"Close"}
<1>1. op[g] \notin {"idle", "exited"}
  BY IdleInstructions DEF Wants, Asked
<1>2. QED
  BY <1>1, Places DEF Ops

\* Whoever waits for a mutex while it holds one is a request; it does not wait
\* for the cache's, nor for both the others.
LEMMA HoldersRank ==
    ASSUME IInv, NEW h \in Goroutines, NEW l \in Locks, Holds(h, l)
    PROVE  /\ Rank(h) \in {0, 1, 3}
           /\ l # "cache" => Rank(h) # 3
           /\ Wants(h) /\ l = "notFound"
                => Reader(h, "cache") /\ Instruction(h) = Lock("inProgress")
           /\ Wants(h) /\ l = "inProgress"
                => Writer(h, "cache") /\ Instruction(h) = Lock("notFound")
<1>1. CASE ~Wants(h)
  BY <1>1 DEF Rank
<1>2. CASE Wants(h)
  <2>1. op[h] \in RequestOps
    BY <1>2, Waiters, PrunersWait
  <2>2. op[h] \notin PrunerOps
    BY <2>1 DEF RequestOps, PrunerOps
  <2>3. \/ /\ Reader(h, "cache")
           /\ Instruction(h) \in {RLock("notFound"), Lock("inProgress")}
           /\ Holds(h, "notFound") => Instruction(h) = Lock("inProgress")
           /\ ~Holds(h, "inProgress")
        \/ /\ Writer(h, "cache")
           /\ Instruction(h) \in {Lock("inProgress"), Lock("notFound")}
           /\ Holds(h, "inProgress") => Instruction(h) = Lock("notFound")
           /\ ~Holds(h, "notFound")
    BY <1>2, <2>1, RequestsWait
  <2>4. /\ RLock("notFound") \notin {Lock("inProgress"), Lock("notFound"), Lock("cache"), RLock("cache")}
        /\ Lock("cache") \notin {Lock("inProgress"), Lock("notFound")}
        /\ RLock("cache") \notin {Lock("inProgress"), Lock("notFound")}
    BY DEF Lock, RLock
  <2>5. Rank(h) = IF Instruction(h) = RLock("notFound") THEN 3 ELSE 1
    BY <1>2, <2>2, <2>3, <2>4 DEF Rank
  <2>6. l \in {"cache", "inProgress", "notFound"}
    BY DEF Locks
  <2>7. QED
    BY <2>3, <2>4, <2>5, <2>6
<1>3. QED
  BY <1>1, <1>2

\* Who is waited for is of a lower rank.
LEMMA RanksFall ==
    ASSUME IInv, NEW g \in Goroutines, NEW h \in Goroutines, WaitsFor(g, h)
    PROVE  Rank(h) < Rank(g)
<1>1. /\ \A l : Lock(l)[1] = "lock" /\ Lock(l)[2] = l
      /\ \A l : RLock(l)[1] = "rlock" /\ RLock(l)[2] = l
  BY DEF Lock, RLock
<1>2. Wants(g)
  BY DEF WaitsFor, Wants, Asked
<1>3. PICK l \in Locks : Instruction(g) \in {Lock(l), RLock(l)}
  <2>1. CASE op[g] \in RequestOps
    BY <1>2, <2>1, RequestsWait DEF Locks
  <2>2. CASE op[g] \in PrunerOps \cup {"Close"}
    BY <1>2, <2>2, PrunersWait
  <2>3. QED
    BY <1>2, <2>1, <2>2, Waiters
<1>4. \/ Holds(h, l)
      \/ Instruction(g) = RLock(l) /\ Instruction(h) = Lock(l)
  BY <1>1, <1>3 DEF WaitsFor, Holds
<1>5. CASE Instruction(g) = RLock(l) /\ Instruction(h) = Lock(l)
  <2>1. /\ Wants(h) /\ op[g] \notin PrunerOps \cup {"Close"}
        /\ op[g] \in RequestOps
    BY <1>1, <1>2, <1>5, PrunersWait, Waiters DEF Wants, Asked
  <2>2. l \in {"cache", "notFound"}
    BY <1>1, <1>2, <1>5, <2>1, RequestsWait
  <2>3. /\ Rank(g) = IF l = "cache" THEN 5 ELSE 3
        /\ Rank(h) \in IF l = "cache" THEN {4} ELSE {1, 2}
    BY <1>1, <1>2, <1>5, <2>1, <2>2 DEF Rank
  <2>4. QED
    BY <2>2, <2>3
<1>6. CASE Holds(h, l)
  <2>1. /\ Rank(h) \in {0, 1, 3}
        /\ l # "cache" => Rank(h) # 3
        /\ Wants(h) /\ l = "notFound" => Reader(h, "cache") /\ Instruction(h) = Lock("inProgress")
        /\ Wants(h) /\ l = "inProgress" => Writer(h, "cache") /\ Instruction(h) = Lock("notFound")
    BY <1>6, HoldersRank
  <2>2. CASE l = "cache"
    <3>1. Rank(g) \in {4, 5}
      BY <1>2, <1>3, <2>2 DEF Rank
    <3>2. QED
      BY <2>1, <3>1
  <2>3. CASE l # "cache"
    <3>1. Rank(g) \in {1, 2, 3} /\ Rank(h) \in {0, 1}
      BY <1>1, <1>2, <1>3, <2>1, <2>3 DEF Rank
    <3>2. CASE Rank(g) # 1 \/ Rank(h) = 0
      BY <3>1, <3>2
    <3>3. CASE Rank(g) = 1 /\ Rank(h) = 1
      <4>1. Wants(h)
        BY <3>3 DEF Rank
      <4>2. op[g] \in RequestOps /\ Instruction(g) = Lock(l)
        <5>1. op[g] \notin PrunerOps
          BY <1>1, <1>2, <1>3, <2>3, <3>3 DEF Rank
        <5>2. op[g] # "Close"
          BY <1>1, <1>2, <1>3, <2>3, PrunersWait
        <5>3. Instruction(g) # RLock(l)
          BY <1>1, <1>2, <2>3, <3>3, <5>1, <5>2, Waiters, RequestsWait DEF Rank
        <5>4. QED
          BY <1>2, <1>3, <5>1, <5>2, <5>3, Waiters
      <4>3. l \in {"inProgress", "notFound"}
        BY <2>3 DEF Locks
      <4>4. g # h
        BY <1>1, <2>1, <4>1, <4>2, <4>3
      <4>5. CASE l = "notFound"
        <5>1. Reader(h, "cache")
          BY <2>1, <4>1, <4>5
        <5>2. Writer(g, "cache")
          BY <1>1, <1>2, <4>2, <4>5, RequestsWait
        <5>3. QED
          BY <4>4, <5>1, <5>2 DEF IInv, Exclusive, Locks
      <4>6. CASE l = "inProgress"
        <5>1. Writer(h, "cache")
          BY <2>1, <4>1, <4>6
        <5>2. Writer(g, "cache") \/ Reader(g, "cache")
          BY <1>1, <1>2, <4>2, <4>6, RequestsWait
        <5>3. QED
          BY <4>4, <5>1, <5>2 DEF IInv, Exclusive, Locks
      <4>7. QED
        BY <4>3, <4>5, <4>6
    <3>4. QED
      BY <3>1, <3>2, <3>3
  <2>4. QED
    BY <2>2, <2>3
<1>7. QED
  BY <1>4, <1>5, <1>6

\* Goroutines of an operation of the cache never wait for each other's mutexes
\* in a circle (memory.go:310-424): the first in rank of any set waits for
\* nobody in it.
THEOREM NobodyDeadlocks == Spec => []NobodyIsDeadlocked
<1>1. ASSUME IInv, NEW S \in (SUBSET Goroutines) \ {{}}
      PROVE  \E g \in S : \A h \in S : ~WaitsFor(g, h)
  <2>1. \A g \in S : Rank(g) \in 0..5
    BY DEF Rank
  <2>2. \E g \in S : \A h \in S : Rank(g) <= Rank(h)
    <3>1. ASSUME NEW g \in S, \A x \in S : \E h \in S : Rank(h) < Rank(x)
          PROVE  FALSE
      <4>1. PICK a \in S : Rank(a) <= 4
        BY <2>1, <3>1
      <4>2. PICK b \in S : Rank(b) <= 3
        BY <2>1, <3>1, <4>1
      <4>3. PICK c \in S : Rank(c) <= 2
        BY <2>1, <3>1, <4>2
      <4>4. PICK d \in S : Rank(d) <= 1
        BY <2>1, <3>1, <4>3
      <4>5. PICK e \in S : Rank(e) <= 0
        BY <2>1, <3>1, <4>4
      <4>6. QED
        BY <2>1, <3>1, <4>5
    <3>2. PICK s : s \in S
      <4>1. S # {}
        OBVIOUS
      <4>2. QED
        BY <4>1, Zenon
    <3>3. CASE \A x \in S : \E h \in S : Rank(h) < Rank(x)
      BY <3>1, <3>2, <3>3
    <3>4. CASE \E x \in S : \A h \in S : ~(Rank(h) < Rank(x))
      BY <2>1, <3>4
    <3>5. QED
      BY <3>3, <3>4
  <2>3. PICK g \in S : \A h \in S : Rank(g) <= Rank(h)
    BY <2>2
  <2>4. \A h \in S : ~WaitsFor(g, h)
    <3>1. ASSUME NEW h \in S, WaitsFor(g, h)
          PROVE  FALSE
      <4>1. Rank(h) < Rank(g)
        BY <1>1, <3>1, RanksFall
      <4>2. QED
        BY <2>1, <2>3, <4>1
    <3>2. QED
      BY <3>1
  <2>5. QED
    BY <2>4
<1>2. IInv => NobodyIsDeadlocked
  BY <1>1 DEF NobodyIsDeadlocked
<1>3. QED
  BY <1>2, Inductive, PTL
=============================================================================
