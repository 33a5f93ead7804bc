---------------------------- MODULE UvServerProofs ----------------------------
(***************************************************************************)
(* Proofs about UvServer, for every set of connections and every stream:   *)
(* its types, that no callback of libuv touches freed memory, who frees    *)
(* what, and that a client that waits for its responses gets them all.     *)
(***************************************************************************)
EXTENDS UvServer, TLAPS

\* The life of one connection: which objects, requests and close callback go
\* with each state of its handle.
LifeInv ==
  \A c \in Conns :
    /\ handle[c] = "absent" => heap[c] = {}
    /\ handle[c] \in {"open", "closing"} => heap[c] = Objects
    /\ handle[c] \in {"absent", "open", "freed"} => closeCB[c] = "none"
    /\ handle[c] \in {"closing", "closed"} => closeCB[c] \in {"uvCloseCB", "nullptr"}
    /\ handle[c] = "closed" => heap[c] = IF closeCB[c] = "uvCloseCB" THEN {} ELSE Objects
    /\ closeCB[c] = "nullptr" => stopping
    /\ reading[c] => handle[c] = "open"
    /\ writes[c] > 0 \/ shut[c] => handle[c] \in {"open", "closing"}

\* uv_run() has returned only when no handle was left to close.
ExitInv == outcome = "exited" => \A c \in Conns : handle[c] \notin {"open", "closing"}

\* The last request answered asked to close.
LastAsksToClose(c) == pos[c] > 0 /\ AsksToClose(c, Complete(pos[c]))

\* The parser of a waiting client stands between two requests whenever a
\* response is being written or the connection shuts down.
LockStepInv ==
  \A c \in Conns \ Pipelining :
    /\ writes[c] > 0 => pos[c] > 0 /\ pos[c] % Phases = 0
    /\ shut[c] => LastAsksToClose(c) /\ pos[c] % Phases = 0
    /\ refused[c] = 0
-------------------------------------------------------------------------------
(***************************************************************************)
(* Arithmetic of the parser position.                                      *)
(***************************************************************************)

\* Reading on never un-completes a request.
LEMMA CompleteMonotonic ==
  ASSUME NEW p \in Nat, NEW q \in Nat, p <= q
  PROVE  Complete(q) - Complete(p) \in Nat
  BY DEF Complete, Phases

\* If the last event completes a request the parser stands at a boundary.
LEMMA CompleteAtBoundary ==
  ASSUME NEW p \in Nat, Complete(p + 1) # Complete(p)
  PROVE  (p + 1) % Phases = 0
  BY DEF Complete, Phases

\* At a boundary the last event is the completion of the last request.
LEMMA BoundaryIsComplete ==
  ASSUME NEW p \in Nat, p > 0, p % Phases = 0
  PROVE  Phase(p) = 4 /\ Index(p) = Complete(p)
  BY DEF Complete, Phases, Phase, Index

\* At a boundary connection_should_close() answers for the last request.
LEMMA ShouldCloseAtBoundary ==
  ASSUME NEW c \in Conns, pos[c] \in Nat, pos[c] > 0, pos[c] % Phases = 0,
         ConnectionShouldClose(c)
  PROVE  LastAsksToClose(c)
  BY BoundaryIsComplete DEF ConnectionShouldClose, Version, Flag, LastAsksToClose, AsksToClose
-------------------------------------------------------------------------------
\* The initial values have their types.
LEMMA InitTypes == Init => TypeOK
<1> SUFFICES ASSUME Init PROVE TypeOK
  OBVIOUS
<1>1. outcome \in Outcomes /\ stopping \in BOOLEAN /\ async \in BOOLEAN
  BY DEF Init, Outcomes
<1>2. stops \in 0 .. MaxStops
  BY MaxStopsAssumption DEF Init
<1>3. /\ handle \in [Conns -> HandleStates] /\ closeCB \in [Conns -> {"none", "uvCloseCB", "nullptr"}]
      /\ reading \in [Conns -> BOOLEAN] /\ shut \in [Conns -> BOOLEAN]
      /\ heap \in [Conns -> SUBSET Objects]
  BY DEF Init, HandleStates
<1>4. writes \in [Conns -> Nat] /\ refused \in [Conns -> Nat] /\ pos \in [Conns -> Nat]
  BY DEF Init
<1>5. stream \in [Conns -> Streams]
  BY DEF Init
<1> QED BY <1>1, <1>2, <1>3, <1>4, <1>5 DEF TypeOK

\* Every step keeps every variable in its type.
LEMMA TypeInductive == TypeOK /\ [Next]_vars => TypeOK'
<1> SUFFICES ASSUME TypeOK, [Next]_vars PROVE TypeOK'
  OBVIOUS
<1> USE DEF TypeOK
<1>1. ASSUME NEW c \in Conns, uvConnectCB(c) PROVE TypeOK'
  BY <1>1, AcceptAssumption DEF uvConnectCB, StartsReading, process, HandleStates, Objects
<1>2. ASSUME NEW c \in Conns, uvReadCBData(c) PROVE TypeOK'
  <2>1. PICK n \in 1 .. StreamEnd(c) :
          LET thrown    == Throws(c, pos[c] + n)
              answered  == IF thrown THEN pos[c] + n - 1 ELSE pos[c] + n
              responses == Complete(answered) - Complete(pos[c])
          IN  /\ pos' = [pos EXCEPT ![c] = @ + n]
              /\ outcome' = IF thrown THEN "exception" ELSE outcome
              /\ IF shut[c]
                   THEN /\ refused' = [refused EXCEPT ![c] = @ + responses]
                        /\ UNCHANGED writes
                   ELSE /\ writes' = [writes EXCEPT ![c] = @ + responses]
                        /\ UNCHANGED refused
    BY <1>2 DEF uvReadCBData, Responses
  <2> DEFINE thrown    == Throws(c, pos[c] + n)
             answered  == IF thrown THEN pos[c] + n - 1 ELSE pos[c] + n
             responses == Complete(answered) - Complete(pos[c])
  <2>2. pos[c] \in Nat /\ n \in Nat /\ n >= 1
    <3>1. stream[c] \in Seq(Request)
      BY StreamsAssumption
    <3>2. StreamEnd(c) \in Nat
      BY <3>1 DEF StreamEnd, Phases
    <3> QED BY <3>2
  <2>3. answered \in Nat /\ pos[c] <= answered
    BY <2>2
  <2>4. responses \in Nat
    BY <2>2, <2>3, CompleteMonotonic
  <2>5. pos' \in [Conns -> Nat] /\ outcome' \in Outcomes
    BY <2>1, <2>2 DEF Outcomes, Crashes
  <2>6. writes' \in [Conns -> Nat] /\ refused' \in [Conns -> Nat]
    <3> HIDE DEF thrown, answered, responses
    <3>1. CASE shut[c]
      BY <2>1, <2>4, <3>1 DEF thrown, answered, responses
    <3>2. CASE ~shut[c]
      BY <2>1, <2>4, <3>2 DEF thrown, answered, responses
    <3> QED BY <3>1, <3>2
  <2> QED BY <1>2, <2>5, <2>6 DEF uvReadCBData
<1>3. ASSUME NEW c \in Conns, uvReadCBError(c) PROVE TypeOK'
  BY <1>3 DEF uvReadCBError, uvClose, process, HandleStates
<1>4. ASSUME NEW c \in Conns, writeCB(c) PROVE TypeOK'
  BY <1>4 DEF writeCB, WriteEnds, process
<1>5. ASSUME NEW c \in Conns, shutdownCB(c) PROVE TypeOK'
  BY <1>5 DEF shutdownCB, uvClose, HandleStates, Outcomes, Crashes
<1>6. ASSUME NEW c \in Conns, uvCloseCB(c) PROVE TypeOK'
  BY <1>6 DEF uvCloseCB, process, HandleStates, Deleted, Objects
<1>7. CASE stop
  BY <1>7, MaxStopsAssumption DEF stop
<1>8. CASE uvAsyncStopCB
  BY <1>8 DEF uvAsyncStopCB, WalkCloses, HandleStates
<1>9. CASE uvAsyncStopCBFails
  BY <1>9 DEF uvAsyncStopCBFails, Outcomes, Crashes
<1>10. CASE touchFreedHandle
  BY <1>10 DEF touchFreedHandle, Outcomes, Crashes
<1>11. CASE startReturns
  BY <1>11 DEF startReturns, Outcomes
<1>12. CASE UNCHANGED vars
  BY <1>12 DEF vars, process
<1> QED
  BY <1>1, <1>2, <1>3, <1>4, <1>5, <1>6, <1>7, <1>8, <1>9, <1>10, <1>11, <1>12
  DEF Next, ConnNext

\* The variables of the server keep their types in every behaviour.
THEOREM TypeCorrect == Spec => []TypeOK
<1> QED BY InitTypes, TypeInductive, PTL DEF Spec
-------------------------------------------------------------------------------
\* Every step keeps the objects of a connection allocated as long as a request
\* of its handle is outstanding.
LEMMA LifeInductive == TypeOK /\ LifeInv /\ ExitInv /\ [Next]_vars => LifeInv' /\ ExitInv'
<1> SUFFICES ASSUME TypeOK, LifeInv, ExitInv, [Next]_vars PROVE LifeInv' /\ ExitInv'
  OBVIOUS
<1> USE DEF TypeOK, LifeInv, ExitInv
<1>1. ASSUME NEW c \in Conns, uvConnectCB(c) PROVE LifeInv' /\ ExitInv'
  BY <1>1, AcceptAssumption DEF uvConnectCB, StartsReading, process, Objects
<1>2. ASSUME NEW c \in Conns, uvReadCBData(c) PROVE LifeInv' /\ ExitInv'
  <2>1. /\ handle[c] = "open" /\ outcome' # "exited"
        /\ UNCHANGED <<stopping, handle, closeCB, reading, shut, heap>>
        /\ \A d \in Conns \ {c} : writes'[d] = writes[d]
    BY <1>2 DEF uvReadCBData
  <2> QED BY <2>1
<1>3. ASSUME NEW c \in Conns, uvReadCBError(c) PROVE LifeInv' /\ ExitInv'
  BY <1>3 DEF uvReadCBError, uvClose, process
<1>4. ASSUME NEW c \in Conns, writeCB(c) PROVE LifeInv' /\ ExitInv'
  BY <1>4 DEF writeCB, WriteEnds, process
<1>5. ASSUME NEW c \in Conns, shutdownCB(c) PROVE LifeInv' /\ ExitInv'
  BY <1>5 DEF shutdownCB, uvClose
<1>6. ASSUME NEW c \in Conns, uvCloseCB(c) PROVE LifeInv' /\ ExitInv'
  <2>1. Objects \ Deleted = {}
    BY DEF Objects, Deleted
  <2>2. heap[c] = Objects
    BY <1>6 DEF uvCloseCB
  <2>3. heap' = [heap EXCEPT ![c] = IF closeCB[c] = "uvCloseCB" THEN {} ELSE @]
    BY <1>6, <2>1, <2>2 DEF uvCloseCB
  <2> QED BY <1>6, <2>3, SMTT(60) DEF uvCloseCB, process
<1>7. CASE stop
  BY <1>7 DEF stop
<1>8. CASE uvAsyncStopCB
  BY <1>8 DEF uvAsyncStopCB, WalkCloses
<1>9. CASE uvAsyncStopCBFails
  BY <1>9 DEF uvAsyncStopCBFails
<1>10. CASE touchFreedHandle
  BY <1>10 DEF touchFreedHandle
<1>11. CASE startReturns
  BY <1>11 DEF startReturns
<1>12. CASE UNCHANGED vars
  BY <1>12 DEF vars, process
<1> QED
  BY <1>1, <1>2, <1>3, <1>4, <1>5, <1>6, <1>7, <1>8, <1>9, <1>10, <1>11, <1>12
  DEF Next, ConnNext

\* The invariants hold in every behaviour.
LEMMA LifeInvariant == Spec => [](TypeOK /\ LifeInv /\ ExitInv)
<1>1. Init => TypeOK /\ LifeInv /\ ExitInv
  <2>1. Init => TypeOK
    BY InitTypes
  <2>2. Init => LifeInv /\ ExitInv
    BY DEF Init, LifeInv, ExitInv
  <2> QED BY <2>1, <2>2
<1> QED BY <1>1, TypeInductive, LifeInductive, PTL DEF Spec

\* No callback that libuv can still run for a connection reaches freed memory.
THEOREM MemorySafe == Spec => []CallbacksSeeLiveMemory
<1>1. TypeOK /\ LifeInv => CallbacksSeeLiveMemory
  BY DEF TypeOK, LifeInv, CallbacksSeeLiveMemory
<1> QED BY <1>1, LifeInvariant, PTL

\* A connection closed by the server or by its peer is freed completely; what
\* is left when start() returns was closed by stop_uv() or never accepted.
THEOREM MemoryAccounted == Spec => []HeapAccounting
<1>1. TypeOK /\ LifeInv /\ ExitInv => HeapAccounting
  BY DEF TypeOK, LifeInv, ExitInv, HeapAccounting, HandleStates
<1> QED BY <1>1, LifeInvariant, PTL
-------------------------------------------------------------------------------
\* A read on the connection of a waiting client, and what it finds: nothing is
\* being written or shut down, and it answers at most the request it completes.
LEMMA LockStepRead ==
  ASSUME TypeOK, LockStepInv, NEW c \in Conns \ Pipelining,
         NEW n \in Nat \ {0}, Readable(c, n),
         NEW answered \in {pos[c] + n - 1, pos[c] + n}
  PROVE  /\ ~shut[c] /\ writes[c] = 0
         /\ Complete(answered) # Complete(pos[c]) =>
              answered = pos[c] + n /\ (pos[c] + n) % Phases = 0
<1>1. pos[c] \in Nat /\ writes[c] \in Nat
  BY DEF TypeOK
<1>2. /\ Complete(pos[c] + n - 1) = Complete(pos[c])
      /\ pos[c] > 0 /\ pos[c] % Phases = 0 => writes[c] = 0 /\ ~AsksToClose(c, Complete(pos[c]))
  BY DEF Readable
<1>3. ~shut[c] /\ writes[c] = 0
  BY <1>1, <1>2 DEF LockStepInv, LastAsksToClose
<1>4. ASSUME Complete(answered) # Complete(pos[c])
      PROVE  answered = pos[c] + n /\ (pos[c] + n) % Phases = 0
  <2>1. answered = pos[c] + n
    BY <1>2, <1>4
  <2>2. Complete((pos[c] + n - 1) + 1) # Complete(pos[c] + n - 1)
    BY <1>1, <1>2, <1>4, <2>1
  <2>3. ((pos[c] + n - 1) + 1) % Phases = 0
    BY <1>1, <2>2, CompleteAtBoundary
  <2> QED BY <1>1, <2>1, <2>3
<1> QED BY <1>3, <1>4

\* Every step keeps a waiting client's connection in lock step.
LEMMA LockStepInductive == TypeOK /\ LockStepInv /\ [Next]_vars => LockStepInv'
<1> SUFFICES ASSUME TypeOK, LockStepInv, [Next]_vars, NEW d \in Conns \ Pipelining
             PROVE  /\ writes'[d] > 0 => pos'[d] > 0 /\ pos'[d] % Phases = 0
                    /\ shut'[d] => LastAsksToClose(d)' /\ pos'[d] % Phases = 0
                    /\ refused'[d] = 0
  BY DEF LockStepInv
<1> DEFINE Goal == /\ writes'[d] > 0 => pos'[d] > 0 /\ pos'[d] % Phases = 0
                   /\ shut'[d] => LastAsksToClose(d)' /\ pos'[d] % Phases = 0
                   /\ refused'[d] = 0
<1>a. /\ pos[d] \in Nat /\ writes[d] \in Nat /\ refused[d] = 0
      /\ writes[d] > 0 => pos[d] > 0 /\ pos[d] % Phases = 0
      /\ shut[d] => LastAsksToClose(d) /\ pos[d] % Phases = 0
  BY DEF TypeOK, LockStepInv
<1>b. ASSUME writes'[d] <= writes[d], writes'[d] \in Nat, shut'[d] => shut[d],
             UNCHANGED <<pos[d], refused[d], stream>>
      PROVE  Goal
  BY <1>a, <1>b DEF LastAsksToClose, AsksToClose
<1>1. ASSUME NEW c \in Conns, uvConnectCB(c) PROVE Goal
  BY <1>1, <1>a, <1>b DEF uvConnectCB
<1>2. ASSUME NEW c \in Conns, uvReadCBData(c) PROVE Goal
  <2>1. CASE c # d
    BY <1>2, <1>a, <1>b, <2>1 DEF uvReadCBData, TypeOK
  <2>2. CASE c = d
    <3>0. PICK n \in 1 .. StreamEnd(d) :
            \E answered \in {pos[d] + n - 1, pos[d] + n} :
              /\ Readable(d, n)
              /\ pos' = [pos EXCEPT ![d] = @ + n]
              /\ ~shut[d] =>
                   /\ writes' = [writes EXCEPT ![d] = @ + (Complete(answered) - Complete(pos[d]))]
                   /\ UNCHANGED refused
      BY <1>2, <2>2 DEF uvReadCBData, Responses
    <3>1. PICK answered \in {pos[d] + n - 1, pos[d] + n} :
            /\ Readable(d, n)
            /\ pos' = [pos EXCEPT ![d] = @ + n]
            /\ ~shut[d] =>
                 /\ writes' = [writes EXCEPT ![d] = @ + (Complete(answered) - Complete(pos[d]))]
                 /\ UNCHANGED refused
      BY <3>0
    <3>2. n \in Nat \ {0}
      <4>1. stream[d] \in Seq(Request)
        BY StreamsAssumption DEF TypeOK
      <4> QED BY <4>1 DEF StreamEnd, Phases
    <3>3. /\ ~shut[d] /\ writes[d] = 0
          /\ Complete(answered) # Complete(pos[d]) =>
               answered = pos[d] + n /\ (pos[d] + n) % Phases = 0
      BY <3>1, <3>2, LockStepRead
    <3>4. pos'[d] = pos[d] + n /\ ~shut'[d] /\ refused'[d] = 0
      BY <1>2, <1>a, <2>2, <3>1, <3>3 DEF uvReadCBData, TypeOK
    <3>5. writes'[d] > 0 => Complete(answered) # Complete(pos[d])
      <4>1. writes'[d] = Complete(answered) - Complete(pos[d])
        <5>1. Complete(answered) - Complete(pos[d]) \in Int
          BY <1>a, <3>2 DEF Complete, Phases
        <5> QED BY <3>1, <3>3, <5>1 DEF TypeOK
      <4> QED BY <4>1, <1>a DEF Complete, Phases
    <3> QED BY <1>a, <3>2, <3>3, <3>4, <3>5
  <2> QED BY <2>1, <2>2
<1>3. ASSUME NEW c \in Conns, uvReadCBError(c) PROVE Goal
  BY <1>3, <1>a, <1>b DEF uvReadCBError
<1>4. ASSUME NEW c \in Conns, writeCB(c) PROVE Goal
  <2>1. CASE shut'[d] => shut[d]
    BY <1>4, <1>a, <1>b, <2>1 DEF writeCB, WriteEnds, TypeOK
  <2>2. CASE ~(shut'[d] => shut[d])
    <3>1. c = d /\ ConnectionShouldClose(d) /\ writes[d] > 0
      BY <1>4, <2>2 DEF writeCB, WriteEnds, TypeOK
    <3>2. LastAsksToClose(d)
      BY <1>a, <3>1, ShouldCloseAtBoundary
    <3>3. LastAsksToClose(d)'
      BY <1>4, <3>2 DEF writeCB, LastAsksToClose, AsksToClose
    <3> QED BY <1>4, <1>a, <3>1, <3>3 DEF writeCB, WriteEnds
  <2> QED BY <2>1, <2>2
<1>5. ASSUME NEW c \in Conns, shutdownCB(c) PROVE Goal
  BY <1>5, <1>a, <1>b DEF shutdownCB, TypeOK
<1>6. ASSUME NEW c \in Conns, uvCloseCB(c) PROVE Goal
  BY <1>6, <1>a, <1>b DEF uvCloseCB
<1>7. CASE stop
  BY <1>7, <1>a, <1>b DEF stop
<1>8. CASE uvAsyncStopCB
  BY <1>8, <1>a, <1>b DEF uvAsyncStopCB
<1>9. CASE uvAsyncStopCBFails
  BY <1>9, <1>a, <1>b DEF uvAsyncStopCBFails
<1>10. CASE touchFreedHandle
  BY <1>10, <1>a, <1>b DEF touchFreedHandle
<1>11. CASE startReturns
  BY <1>11, <1>a, <1>b DEF startReturns
<1>12. CASE UNCHANGED vars
  BY <1>12, <1>a, <1>b DEF vars
<1> QED
  BY <1>1, <1>2, <1>3, <1>4, <1>5, <1>6, <1>7, <1>8, <1>9, <1>10, <1>11, <1>12
  DEF Next, ConnNext

\* The invariants hold in every behaviour.
LEMMA LockStepInvariant == Spec => [](TypeOK /\ LockStepInv)
<1>1. Init => LockStepInv
  <2>1. ASSUME Init, NEW c \in Conns \ Pipelining
        PROVE  ~(writes[c] > 0) /\ ~shut[c] /\ refused[c] = 0
    <3>1. writes[c] = 0 /\ shut[c] = FALSE /\ refused[c] = 0
      BY <2>1 DEF Init
    <3> QED BY <3>1
  <2> QED BY <2>1 DEF LockStepInv
<1> QED BY <1>1, LockStepInductive, TypeCorrect, PTL DEF Spec

\* A client that waits for each response never loses one to a shutdown.
THEOREM WaitingClientAnswered == Spec => []LockStepAnswered
<1>1. LockStepInv => LockStepAnswered
  BY DEF LockStepInv, LockStepAnswered
<1> QED BY <1>1, LockStepInvariant, PTL

\* A waiting client's connection shuts down only between two requests.
THEOREM ShutdownAtBoundary == Spec => []ShutdownBetweenRequests
<1>1. LockStepInv => ShutdownBetweenRequests
  BY DEF LockStepInv, ShutdownBetweenRequests
<1> QED BY <1>1, LockStepInvariant, PTL

\* ... and only when the last request answered asked for it.
THEOREM ShutdownWhenAsked == Spec => ShutsDownOnlyWhenAsked
<1> DEFINE Step == \A c \in Conns \ Pipelining :
                     ~shut[c] /\ shut'[c] =>
                       Complete(pos[c]) > 0 /\ AsksToClose(c, Complete(pos[c]))
<1>1. TypeOK /\ LockStepInv /\ [Next]_vars => [Step]_vars
  <2> SUFFICES ASSUME TypeOK, LockStepInv, Next,
                      NEW c \in Conns \ Pipelining, ~shut[c], shut'[c]
               PROVE  Complete(pos[c]) > 0 /\ AsksToClose(c, Complete(pos[c]))
    OBVIOUS
  <2>1. writeCB(c)
    BY DEF Next, ConnNext, uvConnectCB, uvReadCBData, uvReadCBError, writeCB,
           shutdownCB, uvCloseCB, stop, uvAsyncStopCB, uvAsyncStopCBFails,
           touchFreedHandle, startReturns, TypeOK
  <2>2. /\ pos[c] \in Nat /\ pos[c] > 0 /\ pos[c] % Phases = 0
        /\ ConnectionShouldClose(c)
    BY <2>1 DEF writeCB, WriteEnds, LockStepInv, TypeOK
  <2>3. LastAsksToClose(c)
    BY <2>2, ShouldCloseAtBoundary
  <2>4. Complete(pos[c]) > 0
    BY <2>2 DEF Complete, Phases
  <2> QED BY <2>3, <2>4 DEF LastAsksToClose
<1> QED BY <1>1, LockStepInvariant, PTL DEF Spec, ShutsDownOnlyWhenAsked
-------------------------------------------------------------------------------
(***************************************************************************)
(* A double uv_close() without stop() needs the race.                      *)
(***************************************************************************)

\* Without a call of stop() uvAsyncStopCB has nothing to do.
StopInv == stops = 0 => ~async /\ ~stopping

\* A write or a shutdown is outstanding only where a request has completed.
AnswersInv == \A c \in Conns : writes[c] > 0 \/ shut[c] => Complete(pos[c]) > 0

\* A read on c, as what it does to the counts.
LEMMA ReadCounts ==
  ASSUME TypeOK, NEW c \in Conns, uvReadCBData(c)
  PROVE  /\ pos'[c] \in Nat
         /\ writes'[c] > writes[c] => Complete(pos'[c]) > 0
         /\ Complete(pos'[c]) >= Complete(pos[c])
<1>0. PICK n \in 1 .. StreamEnd(c) :
        \E answered \in {pos[c] + n - 1, pos[c] + n} :
          /\ pos' = [pos EXCEPT ![c] = @ + n]
          /\ \/ UNCHANGED writes
             \/ writes' = [writes EXCEPT ![c] = @ + (Complete(answered) - Complete(pos[c]))]
  BY DEF uvReadCBData, Responses
<1>1. PICK answered \in {pos[c] + n - 1, pos[c] + n} :
        /\ pos' = [pos EXCEPT ![c] = @ + n]
        /\ \/ UNCHANGED writes
           \/ writes' = [writes EXCEPT ![c] = @ + (Complete(answered) - Complete(pos[c]))]
  BY <1>0
<1>2. pos[c] \in Nat /\ writes[c] \in Nat /\ n \in Nat /\ n >= 1
  <2>1. stream[c] \in Seq(Request)
    BY StreamsAssumption DEF TypeOK
  <2>2. StreamEnd(c) \in Nat
    BY <2>1 DEF StreamEnd, Phases
  <2> QED BY <2>2 DEF TypeOK
<1>3. pos'[c] = pos[c] + n
  BY <1>1 DEF TypeOK
<1> DEFINE old == Complete(pos[c])
           new == Complete(pos[c] + n)
           told == Complete(answered)
<1>4. old \in Nat /\ new \in Nat /\ told \in Nat /\ old <= told /\ told <= new
  BY <1>2 DEF Complete, Phases
<1>5. writes'[c] = writes[c] \/ writes'[c] = writes[c] + (told - old)
  BY <1>1 DEF TypeOK
<1> HIDE DEF old, new, told
<1>6. writes'[c] > writes[c] => new > 0
  BY <1>2, <1>4, <1>5
<1>7. new >= old /\ pos'[c] \in Nat
  BY <1>2, <1>3, <1>4
<1> QED BY <1>3, <1>6, <1>7 DEF old, new

\* Every step keeps answers behind completed requests.
LEMMA AnswersInductive == TypeOK /\ AnswersInv /\ [Next]_vars => AnswersInv'
<1> SUFFICES ASSUME TypeOK, AnswersInv, [Next]_vars, NEW d \in Conns,
                    writes'[d] > 0 \/ shut'[d]
             PROVE  Complete(pos'[d]) > 0
  BY DEF AnswersInv
<1>a. writes[d] > 0 \/ shut[d] => Complete(pos[d]) > 0
  BY DEF AnswersInv
<1>b. ASSUME pos'[d] = pos[d], writes'[d] > 0 \/ shut'[d] => writes[d] > 0 \/ shut[d]
      PROVE  Complete(pos'[d]) > 0
  BY <1>a, <1>b
<1>1. ASSUME NEW c \in Conns, uvConnectCB(c) PROVE Complete(pos'[d]) > 0
  BY <1>1, <1>b DEF uvConnectCB
<1>2. ASSUME NEW c \in Conns, uvReadCBData(c) PROVE Complete(pos'[d]) > 0
  <2>1. CASE c # d
    BY <1>2, <1>b, <2>1 DEF uvReadCBData, TypeOK
  <2>2. CASE c = d
    <3>1. /\ pos'[d] \in Nat
          /\ writes'[d] > writes[d] => Complete(pos'[d]) > 0
          /\ Complete(pos'[d]) >= Complete(pos[d])
      BY <1>2, <2>2, ReadCounts
    <3>2. shut'[d] = shut[d] /\ writes[d] \in Nat /\ writes'[d] \in Nat
      BY <1>2, TypeInductive DEF uvReadCBData, TypeOK
    <3>3. Complete(pos'[d]) \in Int /\ Complete(pos[d]) \in Int
      BY <3>1 DEF Complete, Phases, TypeOK
    <3>4. writes'[d] > 0 => writes'[d] > writes[d] \/ writes[d] > 0
      BY <3>2
    <3> QED BY <1>a, <3>1, <3>2, <3>3, <3>4
  <2> QED BY <2>1, <2>2
<1>3. ASSUME NEW c \in Conns, uvReadCBError(c) PROVE Complete(pos'[d]) > 0
  BY <1>3, <1>b DEF uvReadCBError
<1>4. ASSUME NEW c \in Conns, writeCB(c) PROVE Complete(pos'[d]) > 0
  BY <1>4, <1>b DEF writeCB, WriteEnds, TypeOK
<1>5. ASSUME NEW c \in Conns, shutdownCB(c) PROVE Complete(pos'[d]) > 0
  BY <1>5, <1>b DEF shutdownCB, TypeOK
<1>6. ASSUME NEW c \in Conns, uvCloseCB(c) PROVE Complete(pos'[d]) > 0
  BY <1>6, <1>b DEF uvCloseCB
<1>7. CASE stop
  BY <1>7, <1>b DEF stop
<1>8. CASE uvAsyncStopCB
  BY <1>8, <1>b DEF uvAsyncStopCB
<1>9. CASE uvAsyncStopCBFails
  BY <1>9, <1>b DEF uvAsyncStopCBFails
<1>10. CASE touchFreedHandle
  BY <1>10, <1>b DEF touchFreedHandle
<1>11. CASE startReturns
  BY <1>11, <1>b DEF startReturns
<1>12. CASE UNCHANGED vars
  BY <1>12, <1>b DEF vars
<1> QED
  BY <1>1, <1>2, <1>3, <1>4, <1>5, <1>6, <1>7, <1>8, <1>9, <1>10, <1>11, <1>12
  DEF Next, ConnNext

\* Only a call of stop() gives uvAsyncStopCB something to do.
LEMMA StopInductive == TypeOK /\ StopInv /\ [Next]_vars => StopInv'
<1> SUFFICES ASSUME TypeOK, StopInv, [Next]_vars PROVE StopInv'
  OBVIOUS
<1>1. \/ stops' = stops + 1
      \/ UNCHANGED <<stops, async, stopping>>
      \/ async /\ UNCHANGED stops
  BY DEF Next, ConnNext, uvConnectCB, uvReadCBData, uvReadCBError, writeCB,
         shutdownCB, uvCloseCB, stop, uvAsyncStopCB, uvAsyncStopCBFails,
         touchFreedHandle, startReturns, process, vars
<1> QED BY <1>1, MaxStopsAssumption DEF StopInv, TypeOK

\* The step that ends the process with a double uv_close() while nobody has
\* called stop() is the shutdown callback of the race.
LEMMA RaceStep ==
  TypeOK /\ LifeInv /\ LockStepInv /\ StopInv /\ AnswersInv /\ CloseTwiceNeedsRace /\ [Next]_vars
    => CloseTwiceNeedsRace'
<1> SUFFICES ASSUME TypeOK, LifeInv, LockStepInv, StopInv, AnswersInv,
                    CloseTwiceNeedsRace, [Next]_vars,
                    outcome' = "closeTwice", stops' = 0
             PROVE  \E c \in Conns :
                      /\ handle'[c] = "closing"
                      /\ Complete(pos'[c]) > 0
                      /\ c \notin Pipelining =>
                           pos'[c] % Phases = 0 /\ AsksToClose(c, Complete(pos[c]))'
  BY DEF CloseTwiceNeedsRace
<1>1. \/ \E c \in Conns : shutdownCB(c)
      \/ uvAsyncStopCBFails
      \/ UNCHANGED vars
  BY DEF Next, ConnNext, uvConnectCB, uvReadCBData, uvReadCBError, writeCB,
         uvCloseCB, stop, uvAsyncStopCB, touchFreedHandle, startReturns, process
<1>2. ASSUME NEW c \in Conns, shutdownCB(c)
      PROVE  /\ handle'[c] = "closing"
             /\ Complete(pos'[c]) > 0
             /\ c \notin Pipelining =>
                  pos'[c] % Phases = 0 /\ AsksToClose(c, Complete(pos[c]))'
  <2>1. shut[c] /\ handle[c] # "open" /\ UNCHANGED <<handle, pos, stream>>
    BY <1>2 DEF shutdownCB
  <2>2. handle[c] = "closing"
    BY <2>1 DEF LifeInv
  <2>3. Complete(pos[c]) > 0
    BY <2>1 DEF AnswersInv
  <2>4. c \notin Pipelining => pos[c] % Phases = 0 /\ AsksToClose(c, Complete(pos[c]))
    BY <2>1 DEF LockStepInv, LastAsksToClose
  <2> QED BY <2>1, <2>2, <2>3, <2>4 DEF AsksToClose
<1>3. ~uvAsyncStopCBFails
  BY DEF uvAsyncStopCBFails, StopInv
<1>4. CASE UNCHANGED vars
  BY <1>4 DEF vars, CloseTwiceNeedsRace, AsksToClose
<1> QED BY <1>1, <1>2, <1>3, <1>4

\* As long as nobody calls stop(), the process dies of a double uv_close() only
\* when the peer closes a connection the server has begun to shut down, after
\* an answered request (and a waiting client's only if that request asked).
THEOREM CloseTwiceCorrect == Spec => []CloseTwiceNeedsRace
<1>1. Init => StopInv /\ AnswersInv /\ CloseTwiceNeedsRace
  <2> SUFFICES ASSUME Init PROVE StopInv /\ AnswersInv /\ CloseTwiceNeedsRace
    OBVIOUS
  <2>1. ASSUME NEW c \in Conns PROVE ~(writes[c] > 0) /\ ~shut[c]
    <3>1. writes[c] = 0 /\ shut[c] = FALSE
      BY DEF Init
    <3> QED BY <3>1
  <2>2. AnswersInv
    BY <2>1 DEF AnswersInv
  <2>3. StopInv /\ CloseTwiceNeedsRace
    BY DEF Init, StopInv, CloseTwiceNeedsRace
  <2> QED BY <2>2, <2>3
<1> QED
  BY <1>1, AnswersInductive, StopInductive, RaceStep, LifeInvariant, LockStepInvariant, PTL
  DEF Spec
-------------------------------------------------------------------------------
(***************************************************************************)
(* UvServer implements Connections.                                        *)
(***************************************************************************)

\* The variables of Connections have their types.
LEMMA ContractTypes == TypeOK => Contract!TypeOK
<1> SUFFICES ASSUME TypeOK PROVE Contract!TypeOK
  OBVIOUS
<1>1. Process \in {"running", "stopped", "dead"}
  BY DEF Process
<1>2. \A c \in Conns : StateOf(c) \in Contract!States
  BY DEF TypeOK, HandleStates, StateOf, Contract!States
<1>3. ConnStates \in [Conns -> Contract!States]
  BY <1>2 DEF ConnStates
<1>4. Arrived \in [Conns -> Nat]
  <2>1. \A c \in Conns : Complete(pos[c]) \in Nat
    BY DEF TypeOK, Complete, Phases
  <2> QED BY <2>1 DEF Arrived
<1> QED BY <1>1, <1>3, <1>4 DEF TypeOK, Contract!TypeOK

\* A connection none of whose variables changes stays.
LEMMA ContractStays ==
  ASSUME NEW d \in Conns,
         UNCHANGED <<handle[d], shut[d], pos[d], writes[d], refused[d]>>
  PROVE  Contract!Stays(d)
<1>1. ConnStates'[d] = ConnStates[d]
  BY DEF ConnStates, StateOf
<1>2. Arrived'[d] = Arrived[d]
  BY DEF Arrived, Complete
<1> QED BY <1>1, <1>2 DEF Contract!Stays, Contract!SameCounts

\* What remains to be shown of a step of the running server.
LEMMA ContractNext ==
  ASSUME TypeOK', outcome = "running", outcome' # "exited",
         \A d \in Conns : Contract!Step(d)
  PROVE  Contract!Next
<1>1. Process = "running" /\ Process' # "stopped"
  BY DEF Process
<1>2. Contract!TypeOK'
  BY ContractTypes, PTL
<1> QED BY <1>1, <1>2 DEF Contract!Next

\* The responses a read makes are owed, or refused on a connection that shuts
\* down, and only the request that ends the process has none.
LEMMA ContractRead ==
  ASSUME TypeOK, LifeInv, NEW c \in Conns, uvReadCBData(c)
  PROVE  Contract!Step(c)
<1>0. PICK n \in 1 .. StreamEnd(c) :
        \E answered \in {pos[c] + n - 1, pos[c] + n} :
          /\ pos' = [pos EXCEPT ![c] = @ + n]
          /\ answered = pos[c] + n \/ outcome' = "exception"
          /\ IF shut[c]
               THEN /\ refused' = [refused EXCEPT ![c] = @ + (Complete(answered) - Complete(pos[c]))]
                    /\ UNCHANGED writes
               ELSE /\ writes' = [writes EXCEPT ![c] = @ + (Complete(answered) - Complete(pos[c]))]
                    /\ UNCHANGED refused
  BY DEF uvReadCBData, Responses
<1>1. PICK answered \in {pos[c] + n - 1, pos[c] + n} :
        /\ pos' = [pos EXCEPT ![c] = @ + n]
        /\ answered = pos[c] + n \/ outcome' = "exception"
        /\ IF shut[c]
             THEN /\ refused' = [refused EXCEPT ![c] = @ + (Complete(answered) - Complete(pos[c]))]
                  /\ UNCHANGED writes
             ELSE /\ writes' = [writes EXCEPT ![c] = @ + (Complete(answered) - Complete(pos[c]))]
                  /\ UNCHANGED refused
  BY <1>0
<1>2. pos[c] \in Nat /\ n \in Nat /\ n >= 1
  <2>1. stream[c] \in Seq(Request)
    BY StreamsAssumption DEF TypeOK
  <2>2. StreamEnd(c) \in Nat
    BY <2>1 DEF StreamEnd, Phases
  <2> QED BY <2>2 DEF TypeOK
<1>3. handle[c] = "open" /\ UNCHANGED <<handle, shut>>
  BY DEF uvReadCBData, LifeInv
<1>4. /\ ConnStates[c] = IF shut[c] THEN "shutting" ELSE "open"
      /\ ConnStates'[c] = ConnStates[c]
  BY <1>3 DEF ConnStates, StateOf
<1> DEFINE old == Complete(pos[c])
           new == Complete(pos[c] + n)
           made == Complete(answered) - old
           u == new - Complete(answered)
<1>5. /\ old \in Nat /\ new \in Nat /\ new >= old /\ made \in Nat
      /\ u \in {0, 1} /\ made = new - old - u
      /\ answered = pos[c] + n => u = 0
  BY <1>2 DEF Complete, Phases
<1>6. Arrived[c] = old /\ Arrived'[c] = new
  <2>1. pos'[c] = pos[c] + n
    BY <1>1 DEF TypeOK
  <2> QED BY <2>1 DEF Arrived
<1>7. IF shut[c] THEN refused'[c] = refused[c] + made /\ writes'[c] = writes[c]
                 ELSE writes'[c] = writes[c] + made /\ refused'[c] = refused[c]
  BY <1>1 DEF TypeOK
<1>8. u \in Contract!Unanswered
  <2>1. answered = pos[c] + n => u = 0
    BY <1>5
  <2>2. outcome' = "exception" => Process' = "dead"
    BY DEF Process
  <2> QED BY <1>1, <1>5, <2>1, <2>2 DEF Contract!Unanswered
<1> HIDE DEF old, new, made, u
<1>9. CASE new = old
  <2>1. made = 0
    BY <1>5, <1>9
  <2>2. writes'[c] = writes[c] /\ refused'[c] = refused[c]
    BY <1>7, <2>1 DEF TypeOK
  <2> QED BY <1>4, <1>6, <1>9, <2>2 DEF Contract!Step, Contract!Stays, Contract!SameCounts
<1>10. CASE new # old
  <2>1. Arrived'[c] > Arrived[c]
    <3>1. new > old
      BY <1>5, <1>10
    <3> QED BY <1>6, <3>1
  <2>2. made = Arrived'[c] - Arrived[c] - u
    BY <1>5, <1>6
  <2>3. Contract!Receives(c)
    BY <1>4, <1>7, <1>8, <2>1, <2>2 DEF Contract!Receives
  <2> QED BY <2>3 DEF Contract!Step
<1> QED BY <1>9, <1>10

\* Every callback is a step of Connections.
LEMMA ContractStep ==
  TypeOK /\ TypeOK' /\ LifeInv /\ [Next]_vars => [Contract!Next]_Contract!vars
<1> SUFFICES ASSUME TypeOK, TypeOK', LifeInv, Next PROVE Contract!Next \/ UNCHANGED Contract!vars
  <2>1. UNCHANGED vars => UNCHANGED Contract!vars
    BY DEF vars, Contract!vars, Process, ConnStates, StateOf, Arrived, Complete
  <2> QED BY <2>1
<1>a. ASSUME NEW d \in Conns, UNCHANGED <<handle[d], shut[d], pos[d], writes[d], refused[d]>>
      PROVE  Contract!Step(d)
  BY <1>a, ContractStays DEF Contract!Step
<1>1. ASSUME NEW c \in Conns, uvConnectCB(c) PROVE Contract!Next
  <2>1. \A d \in Conns \ {c} : Contract!Step(d)
    BY <1>1, <1>a DEF uvConnectCB, TypeOK
  <2>2. /\ UNCHANGED <<shut, pos, writes, refused>>
        /\ handle[c] = "absent" /\ handle'[c] \in {"open", "freed"} /\ ~shut[c]
    BY <1>1 DEF uvConnectCB, TypeOK, LifeInv
  <2>3. ConnStates[c] = "none" /\ ConnStates'[c] \in {"open", "rejected"}
    BY <2>2 DEF ConnStates, StateOf
  <2>4. Arrived'[c] = Arrived[c]
    BY <2>2 DEF Arrived, Complete
  <2>5. Contract!Step(c)
    BY <2>2, <2>3, <2>4
    DEF Contract!Step, Contract!Offered, Contract!Moves, Contract!SameCounts
  <2> QED BY <1>1, <2>1, <2>5, ContractNext DEF uvConnectCB, process
<1>2. ASSUME NEW c \in Conns, uvReadCBData(c) PROVE Contract!Next
  <2>1. \A d \in Conns \ {c} : Contract!Step(d)
    BY <1>2, <1>a DEF uvReadCBData, TypeOK
  <2>2. Contract!Step(c)
    BY <1>2, ContractRead
  <2>3. outcome = "running" /\ outcome' # "exited"
    BY <1>2 DEF uvReadCBData
  <2> QED BY <2>1, <2>2, <2>3, ContractNext
<1>3. ASSUME NEW c \in Conns, uvReadCBError(c) PROVE Contract!Next
  <2>1. \A d \in Conns \ {c} : Contract!Step(d)
    BY <1>3, <1>a DEF uvReadCBError, uvClose, TypeOK
  <2>2. handle[c] = "open" /\ handle'[c] = "closing" /\ UNCHANGED <<shut, pos, writes, refused>>
    BY <1>3 DEF uvReadCBError, uvClose, TypeOK, LifeInv
  <2>3. ConnStates[c] \in {"open", "shutting"} /\ ConnStates'[c] = "closing"
    BY <2>2 DEF ConnStates, StateOf
  <2>4. Arrived'[c] = Arrived[c]
    BY <2>2 DEF Arrived, Complete
  <2>5. Contract!Step(c)
    BY <2>2, <2>3, <2>4
    DEF Contract!Step, Contract!Closes, Contract!Moves, Contract!SameCounts
  <2> QED BY <1>3, <2>1, <2>5, ContractNext DEF uvReadCBError, process
<1>4. ASSUME NEW c \in Conns, writeCB(c) PROVE Contract!Next
  <2>1. \A d \in Conns \ {c} : Contract!Step(d)
    BY <1>4, <1>a DEF writeCB, TypeOK
  <2>2. /\ writes[c] > 0 /\ writes'[c] = writes[c] - 1
        /\ UNCHANGED <<handle, pos, refused>>
        /\ shut'[c] = shut[c] \/ (handle[c] = "open" /\ ~shut[c] /\ shut'[c])
    BY <1>4 DEF writeCB, WriteEnds, TypeOK
  <2>3. ConnStates'[c] = ConnStates[c] \/ (ConnStates[c] = "open" /\ ConnStates'[c] = "shutting")
    BY <2>2 DEF ConnStates, StateOf
  <2>4. Arrived'[c] = Arrived[c]
    BY <2>2 DEF Arrived, Complete
  <2>5. Contract!Step(c)
    BY <2>2, <2>3, <2>4 DEF Contract!Step, Contract!Answers, Contract!Moves
  <2> QED BY <1>4, <2>1, <2>5, ContractNext DEF writeCB, process
<1>5. ASSUME NEW c \in Conns, shutdownCB(c) PROVE Contract!Next
  <2>1. \A d \in Conns \ {c} : Contract!Step(d)
    BY <1>5, <1>a, ZenonT(60) DEF shutdownCB, uvClose, TypeOK
  <2>2. /\ UNCHANGED <<pos, writes, refused>>
        /\ shut[c] /\ ~shut'[c]
        /\ \/ handle[c] = "open" /\ handle'[c] = "closing"
           \/ handle[c] = "closing" /\ handle'[c] = "closing"
    BY <1>5 DEF shutdownCB, uvClose, TypeOK, LifeInv
  <2>3. \/ ConnStates[c] = "shutting" /\ ConnStates'[c] = "closing"
        \/ ConnStates[c] = "closing" /\ ConnStates'[c] = "closing"
    BY <2>2 DEF ConnStates, StateOf
  <2>4. Arrived'[c] = Arrived[c]
    BY <2>2 DEF Arrived, Complete
  <2>5. Contract!Step(c)
    BY <2>2, <2>3, <2>4
    DEF Contract!Step, Contract!Closes, Contract!Stays, Contract!Moves, Contract!SameCounts
  <2>6. outcome = "running" /\ outcome' # "exited"
    BY <1>5 DEF shutdownCB
  <2> QED BY <2>1, <2>5, <2>6, ContractNext
<1>6. ASSUME NEW c \in Conns, uvCloseCB(c) PROVE Contract!Next
  <2>1. \A d \in Conns \ {c} : Contract!Step(d)
    BY <1>6, <1>a DEF uvCloseCB, TypeOK
  <2>2. /\ UNCHANGED <<shut, pos, writes, refused>>
        /\ handle[c] = "closing" /\ handle'[c] = "closed" /\ writes[c] = 0
    BY <1>6 DEF uvCloseCB, TypeOK
  <2>3. ConnStates[c] = "closing" /\ ConnStates'[c] = "over"
    BY <2>2 DEF ConnStates, StateOf
  <2>4. Arrived'[c] = Arrived[c]
    BY <2>2 DEF Arrived, Complete
  <2>5. Contract!Step(c)
    BY <2>2, <2>3, <2>4 DEF Contract!Step, Contract!Ends, Contract!Moves, Contract!SameCounts
  <2> QED BY <1>6, <2>1, <2>5, ContractNext DEF uvCloseCB, process
<1>7. CASE stop
  <2>1. \A d \in Conns : Contract!Step(d)
    BY <1>7, <1>a DEF stop
  <2> QED BY <1>7, <2>1, ContractNext DEF stop
<1>8. CASE uvAsyncStopCB
  <2>1. ASSUME NEW d \in Conns PROVE Contract!Step(d)
    <3>1. /\ UNCHANGED <<shut, pos, writes, refused>>
          /\ handle'[d] = IF handle[d] = "open" THEN "closing" ELSE handle[d]
      BY <1>8 DEF uvAsyncStopCB, WalkCloses
    <3>2. CASE handle[d] = "open"
      <4>1. ConnStates[d] \in {"open", "shutting"} /\ ConnStates'[d] = "closing"
        BY <3>1, <3>2 DEF ConnStates, StateOf
      <4>2. Arrived'[d] = Arrived[d]
        BY <3>1 DEF Arrived, Complete
      <4> QED BY <3>1, <4>1, <4>2
              DEF Contract!Step, Contract!Closes, Contract!Moves, Contract!SameCounts
    <3>3. CASE handle[d] # "open"
      BY <3>1, <3>3, <1>a
    <3> QED BY <3>2, <3>3
  <2> QED BY <1>8, <2>1, ContractNext DEF uvAsyncStopCB
<1>9. CASE uvAsyncStopCBFails
  <2>1. \A d \in Conns : Contract!Step(d)
    BY <1>9, <1>a DEF uvAsyncStopCBFails
  <2> QED BY <1>9, <2>1, ContractNext DEF uvAsyncStopCBFails
<1>10. CASE touchFreedHandle
  <2>1. \A d \in Conns : Contract!Step(d)
    BY <1>10, <1>a DEF touchFreedHandle
  <2> QED BY <1>10, <2>1, ContractNext DEF touchFreedHandle
<1>11. CASE startReturns
  <2>1. \A d \in Conns : Contract!Step(d)
    BY <1>11, <1>a DEF startReturns
  <2>2. Process = "running"
    BY <1>11 DEF startReturns, Process
  <2>3. \A d \in Conns : ConnStates[d] \in {"none", "rejected", "over"}
    BY <1>11 DEF startReturns, ConnStates, StateOf, TypeOK, HandleStates
  <2>4. Contract!TypeOK'
    BY ContractTypes, PTL
  <2> QED BY <2>1, <2>2, <2>3, <2>4 DEF Contract!Next
<1> QED
  BY <1>1, <1>2, <1>3, <1>4, <1>5, <1>6, <1>7, <1>8, <1>9, <1>10, <1>11 DEF Next, ConnNext

\* The libuv front end keeps the contract of its connections: requests are
\* answered or refused one for one, nothing is owed when a connection is over.
THEOREM ConnectionsImplemented == Spec => ImplementsConnections
<1>1. Init => Contract!Init
  <2> SUFFICES ASSUME Init PROVE Contract!Init
    OBVIOUS
  <2>1. Process = "running"
    BY DEF Init, Process
  <2>2. ConnStates = [c \in Conns |-> "none"]
    BY DEF Init, ConnStates, StateOf
  <2>3. Arrived = [c \in Conns |-> 0]
    BY DEF Init, Arrived, Complete, Phases
  <2> QED BY <2>1, <2>2, <2>3 DEF Init, Contract!Init
<1> QED
  BY <1>1, ContractStep, TypeInductive, LifeInvariant, PTL
  DEF Spec, ImplementsConnections, Contract!Spec

-----------------------------------------------------------------------------
(* What follows from the contract alone: the balance of requests and responses. *)

Balanced(c) ==
  /\ writes[c] + refused[c] <= Arrived[c]
  /\ ConnStates[c] \in {"none", "rejected", "open"} => refused[c] = 0
  /\ ConnStates[c] \in {"none", "rejected", "over"} => writes[c] = 0
  /\ ConnStates[c] \in {"none", "rejected"} => Arrived[c] = 0

\* Every step of a connection keeps its balance.
LEMMA StepBalanced ==
  ASSUME Contract!TypeOK, Contract!TypeOK', NEW c \in Conns, Balanced(c), Contract!Step(c)
  PROVE  Balanced(c)'
<1>1. /\ {Arrived[c], writes[c], refused[c], Arrived'[c], writes'[c], refused'[c]} \subseteq Nat
      /\ ConnStates[c] \in Contract!States
  BY DEF Contract!TypeOK
<1>2. CASE Contract!Stays(c)
  BY <1>2 DEF Balanced, Contract!Stays, Contract!SameCounts
<1>3. CASE Contract!Offered(c)
  BY <1>1, <1>3 DEF Balanced, Contract!Offered, Contract!Moves, Contract!SameCounts
<1>4. CASE Contract!Receives(c)
  <2>1. PICK u \in Contract!Unanswered :
          LET n == Arrived'[c] - Arrived[c] - u
          IN IF ConnStates[c] = "open"
             THEN writes'[c] = writes[c] + n /\ refused'[c] = refused[c]
             ELSE refused'[c] = refused[c] + n /\ writes'[c] = writes[c]
    BY <1>4 DEF Contract!Receives
  <2>2. u \in {0, 1} /\ ConnStates[c] \in {"open", "shutting"} /\ ConnStates'[c] = ConnStates[c]
    BY <1>4 DEF Contract!Receives, Contract!Unanswered
  <2>3. writes'[c] + refused'[c] <= Arrived'[c]
    BY <1>1, <2>1, <2>2 DEF Balanced
  <2>4. ConnStates'[c] = "open" => refused'[c] = 0
    BY <2>1, <2>2 DEF Balanced
  <2> QED BY <2>2, <2>3, <2>4 DEF Balanced
<1>5. CASE Contract!Answers(c)
  BY <1>1, <1>5 DEF Balanced, Contract!Answers, Contract!Moves
<1>6. CASE Contract!Closes(c)
  BY <1>6 DEF Balanced, Contract!Closes, Contract!Moves, Contract!SameCounts
<1>7. CASE Contract!Ends(c)
  BY <1>7 DEF Balanced, Contract!Ends, Contract!Moves, Contract!SameCounts
<1> QED BY <1>2, <1>3, <1>4, <1>5, <1>6, <1>7 DEF Contract!Step

\* Of connections that keep the contract, whatever the callbacks do: each request
\* received is answered, owed or refused; none is refused before the last
\* response, and at the end nothing is owed.
THEOREM AlwaysSettled == Contract!Spec => []Contract!Settled
<1> DEFINE IInv == Contract!TypeOK /\ \A c \in Conns : Balanced(c)
<1>1. Contract!Init => IInv
  <2>1. ASSUME Contract!Init PROVE Contract!TypeOK
    BY <2>1 DEF Contract!Init, Contract!TypeOK, Contract!States
  <2>2. ASSUME Contract!Init, NEW c \in Conns PROVE Balanced(c)
    BY <2>2 DEF Contract!Init, Balanced
  <2> QED BY <2>1, <2>2
<1>2. IInv /\ [Contract!Next]_Contract!vars => IInv'
  <2>1. ASSUME IInv, Contract!Next PROVE IInv'
    <3>1. Contract!TypeOK' /\ \A c \in Conns : Contract!Step(c)
      BY <2>1 DEF Contract!Next
    <3>2. \A c \in Conns : Balanced(c)'
      BY <2>1, <3>1, StepBalanced
    <3> QED BY <3>1, <3>2
  <2>2. ASSUME IInv, UNCHANGED Contract!vars PROVE IInv'
    BY <2>2 DEF Contract!vars, Contract!TypeOK, Balanced
  <2> QED BY <2>1, <2>2
<1>3. IInv => Contract!Settled
  BY DEF Contract!Settled, Balanced
<1> QED BY <1>1, <1>2, <1>3, PTL DEF Contract!Spec

\* On every connection of the server each complete request is answered, being
\* written or refused; and a connection that is over has no write outstanding.
THEOREM ConnectionsSettled == Spec => []Contract!Settled
BY AlwaysSettled, ConnectionsImplemented, PTL DEF ImplementsConnections
===============================================================================
