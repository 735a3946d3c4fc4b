---------------------------- MODULE AloneProofs ----------------------------
(***************************************************************************)
(* Proofs about the alone executor, for every value of its constants.      *)
(***************************************************************************)
EXTENDS Alone, FiniteSetTheorems, TLAPS

\* MutualExclusion, by kind of holder.
LockInv ==
  /\ \A t \in Tasks : call[t] = "incr" =>
       /\ locker
       /\ \A u \in Tasks : call[u] = "incr" => u = t
       /\ \A c \in Closers : closer[c] \notin {"wait", "poll"}
  /\ \A c \in Closers : closer[c] \in {"wait", "poll"} =>
       /\ locker
       /\ \A d \in Closers : closer[d] \in {"wait", "poll"} => d = c
  /\ locker => \/ \E t \in Tasks : call[t] = "incr"
               \/ \E c \in Closers : closer[c] \in {"wait", "poll"}

Live == {t \in Tasks : runner[t] \in {"spawned", "handle", "decr"}}

\* A goroutine is started for an accepted task and for no other.
SpawnInv ==
  \A t \in Tasks : call[t] # "ok" => runner[t] = "none"

LimitInv ==
  /\ goroutines <= MaxGoroutines
  /\ \A t \in Tasks : call[t] = "incr" => goroutines < MaxGoroutines

\* Close leaves nobody under way to the go statement, and nobody gets there
\* after it.
ClosedInv ==
  /\ \A c \in Closers : closer[c] # "start" =>
       ~running /\ \A t \in Tasks : call[t] # "incr"
  /\ \A c \in Closers : closer[c] = "ok" => goroutines = 0

IInv ==
  /\ TypeOK /\ LockInv /\ SpawnInv /\ CountExact /\ LimitInv /\ ClosedInv
-----------------------------------------------------------------------------

\* One element makes a difference of one.
LEMMA CountOne ==
  ASSUME NEW T \in SUBSET Tasks, NEW t
  PROVE  /\ Cardinality(T) \in Nat
         /\ t \notin T => Cardinality(T \cup {t}) = Cardinality(T) + 1
         /\ t \in T => Cardinality(T) > 0
                         /\ Cardinality(T \ {t}) = Cardinality(T) - 1
PROOF
  <1>1. IsFiniteSet(T)
    BY AloneAssumption, FS_Subset
  <1>2. IsFiniteSet(T \ {t}) /\ Cardinality(T \ {t}) \in Nat
    BY <1>1, FS_RemoveElement, FS_CardinalityType
  <1>3. Cardinality(T) \in Nat
    BY <1>1, FS_CardinalityType
  <1>4. t \in T => Cardinality(T \ {t}) = Cardinality(T) - 1
    BY <1>1, FS_RemoveElement
  <1>5. t \notin T => Cardinality(T \cup {t}) = Cardinality(T) + 1
    BY <1>1, FS_AddElement
  <1> QED BY <1>2, <1>3, <1>4, <1>5

LEMMA LiveFacts ==
  /\ Live \subseteq Tasks
  /\ CountExact <=> goroutines = Cardinality(Live)
PROOF
  BY DEF Live, CountExact

-----------------------------------------------------------------------------
(* The goroutines and their counter.                                       *)

LEMMA CountStep ==
  ASSUME TypeOK, SpawnInv, CountExact, [Next]_vars
  PROVE  CountExact' /\ SpawnInv' /\ goroutines' \in Nat
PROOF
  <1>a. Live \subseteq Tasks /\ goroutines = Cardinality(Live)
    BY LiveFacts
  <1>b. goroutines \in Nat
    BY DEF TypeOK
  <1>c. ASSUME Live' = Live, goroutines' = goroutines
        PROVE  CountExact' /\ goroutines' \in Nat
    BY <1>a, <1>b, <1>c DEF Live, CountExact
  <1>d. ASSUME UNCHANGED <<goroutines, runner>>,
               \A t \in Tasks : call[t] = "ok" => call'[t] = "ok"
        PROVE  CountExact' /\ SpawnInv' /\ goroutines' \in Nat
    BY <1>c, <1>d DEF Live, SpawnInv
  <1>1. ASSUME NEW t \in Tasks, Call(t) \/ CallStep(t), ~Spawn(t)
        PROVE  CountExact' /\ SpawnInv' /\ goroutines' \in Nat
    BY <1>1, <1>d DEF Call, CallStep, AskRunning, Refuse, Busy, FindRoom, At,
                      TypeOK
  <1>2. ASSUME NEW t \in Tasks, Spawn(t)
        PROVE  CountExact' /\ SpawnInv' /\ goroutines' \in Nat
    <2>1. runner[t] = "none"
      BY <1>2 DEF Spawn, At, SpawnInv
    <2>2. Live' = Live \cup {t} /\ t \notin Live
      BY <1>2, <2>1 DEF Spawn, Live, TypeOK
    <2>3. Cardinality(Live') = Cardinality(Live) + 1
      BY <2>2, <1>a, CountOne
    <2>4. goroutines' = goroutines + 1
      BY <1>2 DEF Spawn
    <2>5. goroutines' = Cardinality(Live')
      BY <2>3, <2>4, <1>a
    <2>6. SpawnInv'
      BY <1>2 DEF Spawn, At, SpawnInv, TypeOK
    <2> QED BY <2>4, <2>5, <2>6, <1>b DEF Live, CountExact
  <1>3. ASSUME NEW t \in Tasks, Handle(t) \/ Handled(t)
        PROVE  CountExact' /\ SpawnInv' /\ goroutines' \in Nat
    <2>1. Live' = Live /\ goroutines' = goroutines
      BY <1>3 DEF Handle, Handled, Goto, Live, TypeOK
    <2>2. SpawnInv'
      BY <1>3 DEF Handle, Handled, Goto, SpawnInv, TypeOK
    <2> QED BY <1>c, <2>1, <2>2
  <1>4. ASSUME NEW t \in Tasks, CountOut(t)
        PROVE  CountExact' /\ SpawnInv' /\ goroutines' \in Nat
    <2>1. Live' = Live \ {t} /\ t \in Live
      BY <1>4 DEF CountOut, Goto, Live, TypeOK
    <2>2. Cardinality(Live) > 0 /\ Cardinality(Live') = Cardinality(Live) - 1
      BY <2>1, <1>a, CountOne
    <2>3. goroutines' = goroutines - 1
      BY <1>4 DEF CountOut
    <2>4. goroutines' = Cardinality(Live') /\ goroutines' \in Nat
      BY <2>2, <2>3, <1>a, <1>b
    <2>5. SpawnInv'
      BY <1>4 DEF CountOut, Goto, SpawnInv, TypeOK
    <2> QED BY <2>4, <2>5 DEF Live, CountExact
  <1>5. ASSUME NEW c \in Closers, CloseStep(c)
        PROVE  CountExact' /\ SpawnInv' /\ goroutines' \in Nat
    BY <1>5, <1>d DEF CloseStep, CloseLock, CloseEnd, CloseWait, ClosePoll,
                      CloseGiveUp
  <1>6. CASE UNCHANGED vars
    BY <1>6, <1>d DEF vars
  <1> QED BY <1>1, <1>2, <1>3, <1>4, <1>5, <1>6
          DEF Next, RunnerStep, Terminated

-----------------------------------------------------------------------------
(* Types, with the counter taken from the lemma above.                     *)

LEMMA TypeStep ==
  ASSUME TypeOK, goroutines' \in Nat, [Next]_vars
  PROVE  TypeOK'
PROOF
  <1> USE DEF TypeOK, At, Goto, Returned, Modes, options
  <1>1. ASSUME NEW t \in Tasks, Call(t) \/ CallStep(t) PROVE TypeOK'
    <2>1. CASE Call(t) BY <2>1 DEF Call
    <2>2. CASE AskRunning(t) BY <2>2 DEF AskRunning
    <2>3. CASE Refuse(t) BY <2>3 DEF Refuse
    <2>4. CASE Busy(t) BY <2>4 DEF Busy
    <2>5. CASE FindRoom(t) BY <2>5 DEF FindRoom
    <2>6. CASE Spawn(t) BY <2>6 DEF Spawn
    <2> QED BY <1>1, <2>1, <2>2, <2>3, <2>4, <2>5, <2>6 DEF CallStep
  <1>2. ASSUME NEW t \in Tasks, RunnerStep(t) PROVE TypeOK'
    BY <1>2 DEF RunnerStep, Handle, Handled, CountOut
  <1>3. ASSUME NEW c \in Closers, CloseStep(c) PROVE TypeOK'
    <2>1. CASE CloseLock(c)
      BY <2>1 DEF CloseLock, Unfinished, AcceptedTasks
    <2>2. CASE CloseEnd(c) BY <2>2 DEF CloseEnd
    <2>3. CASE CloseWait(c) BY <2>3 DEF CloseWait
    <2>4. CASE ClosePoll(c) BY <2>4 DEF ClosePoll
    <2>5. CASE CloseGiveUp(c) BY <2>5 DEF CloseGiveUp
    <2> QED BY <1>3, <2>1, <2>2, <2>3, <2>4, <2>5 DEF CloseStep
  <1>4. CASE UNCHANGED vars BY <1>4 DEF vars
  <1> QED BY <1>1, <1>2, <1>3, <1>4 DEF Next, Terminated

-----------------------------------------------------------------------------
(* The locker.                                                             *)

LEMMA LockStep ==
  ASSUME TypeOK, LockInv, [Next]_vars
  PROVE  LockInv'
PROOF
  <1> USE DEF LockInv, TypeOK, LockFree, At, Goto
  <1>1. ASSUME NEW t \in Tasks, Call(t) \/ CallStep(t) PROVE LockInv'
    <2>1. CASE Call(t) BY <2>1 DEF Call
    <2>2. CASE AskRunning(t) BY <2>2 DEF AskRunning
    <2>3. CASE Refuse(t) BY <2>3 DEF Refuse
    <2>4. CASE Busy(t) BY <2>4 DEF Busy
    <2>5. CASE FindRoom(t) BY <2>5 DEF FindRoom
    <2>6. CASE Spawn(t) BY <2>6 DEF Spawn
    <2> QED BY <1>1, <2>1, <2>2, <2>3, <2>4, <2>5, <2>6 DEF CallStep
  <1>2. ASSUME NEW t \in Tasks, RunnerStep(t) PROVE LockInv'
    BY <1>2 DEF RunnerStep, Handle, Handled, CountOut
  <1>3. ASSUME NEW c \in Closers, CloseStep(c) PROVE LockInv'
    <2>1. CASE CloseLock(c) BY <2>1 DEF CloseLock
    <2>2. CASE CloseEnd(c) BY <2>2 DEF CloseEnd
    <2>3. CASE CloseWait(c) BY <2>3 DEF CloseWait
    <2>4. CASE ClosePoll(c) BY <2>4 DEF ClosePoll
    <2>5. CASE CloseGiveUp(c) BY <2>5 DEF CloseGiveUp
    <2> QED BY <1>3, <2>1, <2>2, <2>3, <2>4, <2>5 DEF CloseStep
  <1>4. CASE UNCHANGED vars BY <1>4 DEF vars
  <1> QED BY <1>1, <1>2, <1>3, <1>4 DEF Next, Terminated

LEMMA LockInvExcludes ==
  ASSUME LockInv
  PROVE  MutualExclusion
PROOF
  BY AloneAssumption DEF LockInv, MutualExclusion

-----------------------------------------------------------------------------
(* The limit.                                                              *)

LEMMA LimitStep ==
  ASSUME TypeOK, LockInv, LimitInv, [Next]_vars
  PROVE  LimitInv'
PROOF
  <1> USE AloneAssumption DEF LimitInv
  <1>1. ASSUME NEW t \in Tasks, FindRoom(t) PROVE LimitInv'
    BY <1>1 DEF FindRoom, Saturated, At, TypeOK
  <1>2. ASSUME NEW t \in Tasks, Spawn(t) PROVE LimitInv'
    <2>1. goroutines' = goroutines + 1 /\ goroutines < MaxGoroutines
      BY <1>2 DEF Spawn, At
    <2>2. goroutines' <= MaxGoroutines
      BY <2>1 DEF TypeOK
    <2>3. \A u \in Tasks : call'[u] # "incr"
      BY <1>2 DEF Spawn, At, LockInv, TypeOK
    <2> QED BY <2>2, <2>3
  <1>3. ASSUME NEW t \in Tasks, Call(t) \/ CallStep(t),
               ~FindRoom(t), ~Spawn(t)
        PROVE  LimitInv'
    BY <1>3 DEF Call, CallStep, AskRunning, Refuse, Busy, At, TypeOK
  <1>4. ASSUME NEW t \in Tasks, Handle(t) \/ Handled(t) PROVE LimitInv'
    BY <1>4 DEF Handle, Handled
  <1>5. ASSUME NEW t \in Tasks, CountOut(t) PROVE LimitInv'
    <2>1. goroutines' = goroutines - 1 /\ call' = call
      BY <1>5 DEF CountOut
    <2> QED BY <2>1 DEF TypeOK
  <1>6. ASSUME NEW c \in Closers, CloseStep(c) PROVE LimitInv'
    BY <1>6 DEF CloseStep, CloseLock, CloseEnd, CloseWait, ClosePoll,
                CloseGiveUp
  <1>7. CASE UNCHANGED vars BY <1>7 DEF vars
  <1> QED BY <1>1, <1>2, <1>3, <1>4, <1>5, <1>6, <1>7
          DEF Next, RunnerStep, Terminated

-----------------------------------------------------------------------------
(* Close.                                                                  *)

LEMMA ClosedStep ==
  ASSUME TypeOK, LockInv, SpawnInv, CountExact, ClosedInv, [Next]_vars
  PROVE  ClosedInv'
PROOF
  <1> USE DEF ClosedInv
  <1>1. ASSUME NEW t \in Tasks, Call(t) \/ CallStep(t) PROVE ClosedInv'
    <2>1. CASE Spawn(t)
      <3>1. \A c \in Closers : closer[c] = "start"
        BY <2>1 DEF Spawn, At
      <3> QED BY <2>1, <3>1 DEF Spawn
    <2>2. CASE FindRoom(t)
      <3>1. \A c \in Closers : closer[c] = "start"
        BY <2>2 DEF FindRoom
      <3> QED BY <2>2, <3>1 DEF FindRoom
    <2>3. CASE ~Spawn(t) /\ ~FindRoom(t)
      BY <1>1, <2>3 DEF Call, CallStep, AskRunning, Refuse, Busy, At, TypeOK
    <2> QED BY <2>1, <2>2, <2>3
  <1>2. ASSUME NEW t \in Tasks, Handle(t) \/ Handled(t) PROVE ClosedInv'
    BY <1>2 DEF Handle, Handled
  <1>3. ASSUME NEW t \in Tasks, CountOut(t) PROVE ClosedInv'
    <2>1. t \in Live
      BY <1>3 DEF CountOut, Goto, Live
    <2>2. Cardinality(Live) > 0 /\ goroutines = Cardinality(Live)
      BY <2>1, LiveFacts, CountOne
    <2>3. \A c \in Closers : closer[c] # "ok"
      BY <2>2
    <2> QED BY <1>3, <2>3 DEF CountOut
  <1>4. ASSUME NEW c \in Closers, CloseStep(c) PROVE ClosedInv'
    <2>1. CASE CloseLock(c)
      BY <2>1 DEF CloseLock, LockFree, LockInv, TypeOK
    <2>2. CASE CloseEnd(c)
      <3>1. goroutines = 0
        BY <2>2 DEF CloseEnd, TypeOK
      <3> QED BY <2>2, <3>1 DEF CloseEnd, TypeOK
    <2>3. CASE CloseWait(c) BY <2>3 DEF CloseWait, TypeOK
    <2>4. CASE ClosePoll(c) BY <2>4 DEF ClosePoll, TypeOK
    <2>5. CASE CloseGiveUp(c) BY <2>5 DEF CloseGiveUp, TypeOK
    <2> QED BY <1>4, <2>1, <2>2, <2>3, <2>4, <2>5 DEF CloseStep
  <1>5. CASE UNCHANGED vars BY <1>5 DEF vars
  <1> QED BY <1>1, <1>2, <1>3, <1>4, <1>5 DEF Next, RunnerStep, Terminated

LEMMA ClosedInvForGood ==
  ASSUME CountExact, ClosedInv
  PROVE  ClosedForGood
PROOF
  <1> SUFFICES ASSUME NEW c \in Closers, closer[c] = "ok"
               PROVE  Unfinished = {} /\ goroutines = 0
    BY DEF ClosedForGood
  <1>1. goroutines = 0
    BY DEF ClosedInv
  <1>2. Live = {}
    <2>1. Cardinality(Live) = 0
      BY <1>1, LiveFacts
    <2>2. IsFiniteSet(Live)
      BY LiveFacts, AloneAssumption, FS_Subset
    <2> QED BY <2>1, <2>2, FS_EmptySet
  <1> QED BY <1>1, <1>2 DEF Live, Unfinished, AcceptedTasks

-----------------------------------------------------------------------------
(* The inductive invariant, and what follows from it.                      *)

LEMMA InitIInv ==
  ASSUME Init
  PROVE  IInv
PROOF
  <1> USE AloneAssumption DEF Init
  <1>1. TypeOK
    BY DEF TypeOK, Modes, Returned
  <1>2. LockInv /\ SpawnInv /\ ClosedInv /\ LimitInv
    BY DEF LockInv, SpawnInv, ClosedInv, LimitInv
  <1>3. CountExact
    <2>1. Live = {}
      BY DEF Live
    <2> QED BY <2>1, LiveFacts, FS_EmptySet
  <1> QED BY <1>1, <1>2, <1>3 DEF IInv

\* Every reachable state satisfies the inductive invariant.
THEOREM Invariance == Spec => []IInv
PROOF
  <1>1. Init => IInv
    BY InitIInv
  <1>2. IInv /\ [Next]_vars => IInv'
    BY CountStep, TypeStep, LockStep, LimitStep, ClosedStep DEF IInv
  <1> QED BY <1>1, <1>2, PTL DEF Spec

\* The variables keep their types.
THEOREM TypeCorrect == Spec => []TypeOK
PROOF
  <1>1. IInv => TypeOK
    BY DEF IInv
  <1> QED BY <1>1, Invariance, PTL

\* The locker of alone.go excludes, a waiting Close included.
THEOREM Exclusion == Spec => []MutualExclusion
PROOF
  <1>1. IInv => MutualExclusion
    BY LockInvExcludes DEF IInv
  <1> QED BY <1>1, Invariance, PTL

\* There are never more than MaxGoroutines goroutines.
THEOREM Limit == Spec => []LimitRespected
PROOF
  <1>1. IInv => LimitRespected
    BY DEF IInv, LimitInv, LimitRespected
  <1> QED BY <1>1, Invariance, PTL

\* A Close that returned no error left nothing running, for good.
THEOREM Closed == Spec => []ClosedForGood
PROOF
  <1>1. IInv => ClosedForGood
    BY ClosedInvForGood DEF IInv
  <1> QED BY <1>1, Invariance, PTL

-----------------------------------------------------------------------------
(* What alone.go promises: every step is one of Executors, or none.        *)

\* Close owes only tasks whose goroutine was started.
OwedInv == \A t \in owed : runner[t] # "none"

LEMMA OwedStep ==
  ASSUME TypeOK, OwedInv, [Next]_vars
  PROVE  OwedInv'
PROOF
  <1> USE DEF OwedInv, TypeOK
  <1>1. ASSUME NEW t \in Tasks, Call(t) \/ CallStep(t) PROVE OwedInv'
    BY <1>1 DEF Call, CallStep, AskRunning, Refuse, Busy, FindRoom, Spawn
  <1>2. ASSUME NEW t \in Tasks, RunnerStep(t) PROVE OwedInv'
    BY <1>2 DEF RunnerStep, Handle, Handled, CountOut, Goto
  <1>3. ASSUME NEW c \in Closers, CloseStep(c) PROVE OwedInv'
    <2>1. \A t \in Unfinished : runner[t] # "none"
      BY DEF Unfinished
    <2> QED BY <1>3, <2>1 DEF CloseStep, CloseLock, CloseEnd, CloseWait,
                              ClosePoll, CloseGiveUp
  <1>4. CASE UNCHANGED vars BY <1>4 DEF vars
  <1> QED BY <1>1, <1>2, <1>3, <1>4 DEF Next, Terminated

\* The status of one task follows from its call and its goroutine.
LEMMA StatusOne ==
  ASSUME NEW t \in Tasks,
         \A u \in Tasks : u # t => call'[u] = call[u] /\ runner'[u] = runner[u]
  PROVE  TaskStatus' = [TaskStatus EXCEPT ![t] = TaskStatus'[t]]
PROOF
  <1>1. \A u \in Tasks : u # t => TaskStatus'[u] = TaskStatus[u]
    BY DEF TaskStatus
  <1>2. /\ TaskStatus = [u \in Tasks |-> TaskStatus[u]]
        /\ TaskStatus' = [u \in Tasks |-> TaskStatus'[u]]
    BY DEF TaskStatus
  <1> HIDE DEF TaskStatus
  <1> QED BY <1>1, <1>2

\* Likewise for Close.
LEMMA ClosingOne ==
  ASSUME NEW c \in Closers, NEW to, TypeOK,
         closer' = [closer EXCEPT ![c] = to]
  PROVE  CloseStatus' = [CloseStatus EXCEPT ![c] = CloseStatus'[c]]
PROOF
  <1>1. \A d \in Closers : d # c => closer'[d] = closer[d]
    BY DEF TypeOK
  <1>2. \A d \in Closers : d # c => CloseStatus'[d] = CloseStatus[d]
    BY <1>1 DEF CloseStatus
  <1>3. /\ CloseStatus = [d \in Closers |-> CloseStatus[d]]
        /\ CloseStatus' = [d \in Closers |-> CloseStatus'[d]]
    BY DEF CloseStatus
  <1> HIDE DEF CloseStatus
  <1> QED BY <1>2, <1>3

\* What a status says of the variables.
LEMMA StatusFacts ==
  ASSUME TypeOK, SpawnInv
  PROVE  /\ Abstract!WithStatus("accepted") \cup Abstract!WithStatus("running")
              = Unfinished
         /\ Abstract!WithStatus("running") = {t \in Tasks : runner[t] = "handle"}
         /\ Abstract!WithStatus("finished") =
              {t \in Tasks : runner[t] \in {"decr", "gone"}}
PROOF
  <1>1. ASSUME NEW t \in Tasks
        PROVE  /\ TaskStatus[t] = "accepted" <=> runner[t] = "spawned"
               /\ TaskStatus[t] = "running" <=> runner[t] = "handle"
               /\ TaskStatus[t] = "finished" <=> runner[t] \in {"decr", "gone"}
    BY DEF TaskStatus, TypeOK, Returned
  <1>2. \A t \in Tasks : runner[t] \in {"spawned", "handle"} => call[t] = "ok"
    BY DEF SpawnInv
  <1> HIDE DEF TaskStatus
  <1> QED BY <1>1, <1>2 DEF Abstract!WithStatus, Unfinished, AcceptedTasks

\* Executors counts the way this module does.
LEMMA SameCardinality ==
  ASSUME NEW S
  PROVE  Abstract!Cardinality(S) = Cardinality(S)
PROOF
  BY DEF Cardinality, Abstract!Cardinality

LEMMA ImplementsInit ==
  ASSUME Init
  PROVE  Abstract!Init
PROOF
  BY DEF Init, Abstract!Init, TaskStatus, CloseStatus

\* A call takes the steps Admit, Accept, RefuseBusy and RefuseClosed.
LEMMA ImplementsCall ==
  ASSUME IInv, NEW t \in Tasks, Call(t) \/ CallStep(t)
  PROVE  [Abstract!Next]_(Abstract!vars)
PROOF
  <1> USE DEF IInv
  <1>1. CloseStatus' = CloseStatus /\ running' = running /\ owed' = owed
    BY DEF Call, CallStep, AskRunning, Refuse, Busy, FindRoom, Spawn, CloseStatus
  <1>2. \A u \in Tasks : u # t => call'[u] = call[u] /\ runner'[u] = runner[u]
    BY DEF Call, CallStep, AskRunning, Refuse, Busy, FindRoom, Spawn, At, TypeOK
  <1>3. TaskStatus' = [TaskStatus EXCEPT ![t] = TaskStatus'[t]]
    BY <1>2, StatusOne
  <1>4. CASE Call(t) \/ AskRunning(t)
    <2>1. TaskStatus'[t] = TaskStatus[t]
      BY <1>4 DEF Call, AskRunning, At, TaskStatus, TypeOK
    <2>2. TaskStatus' = TaskStatus
      BY <1>3, <2>1 DEF TaskStatus
    <2> QED BY <1>1, <2>2 DEF Abstract!vars
  <1>5. CASE Refuse(t)
    <2>1. TaskStatus[t] = "idle" /\ TaskStatus'[t] = "closed" /\ ~running
      BY <1>5 DEF Refuse, At, TaskStatus, TypeOK, SpawnInv
    <2>2. Abstract!RefuseClosed(t)
      BY <1>1, <1>3, <2>1 DEF Abstract!RefuseClosed, Abstract!Move
    <2> QED BY <2>2 DEF Abstract!Next
  <1>6. CASE Busy(t)
    <2>1. TaskStatus[t] = "idle" /\ TaskStatus'[t] \in {"idle", "busy"} /\ running
      BY <1>6 DEF Busy, At, TaskStatus, TypeOK, SpawnInv
    <2>2. CASE TaskStatus'[t] = "busy"
      <3>1. Abstract!RefuseBusy(t)
        BY <1>1, <1>3, <2>1, <2>2 DEF Abstract!RefuseBusy, Abstract!Move
      <3> QED BY <3>1 DEF Abstract!Next
    <2>3. CASE TaskStatus'[t] = "idle"
      <3>1. TaskStatus' = TaskStatus
        BY <1>3, <2>1, <2>3 DEF TaskStatus
      <3> QED BY <1>1, <3>1 DEF Abstract!vars
    <2> QED BY <2>1, <2>2, <2>3
  <1>7. CASE FindRoom(t)
    <2>1. TaskStatus[t] = "idle" /\ TaskStatus'[t] = "admitted" /\ running
      BY <1>7 DEF FindRoom, At, TaskStatus, TypeOK, SpawnInv
    <2>2. Abstract!Admit(t)
      BY <1>1, <1>3, <2>1 DEF Abstract!Admit, Abstract!Move
    <2> QED BY <2>2 DEF Abstract!Next
  <1>8. CASE Spawn(t)
    <2>1. TaskStatus[t] = "admitted" /\ TaskStatus'[t] = "accepted"
      BY <1>8 DEF Spawn, At, TaskStatus, TypeOK, SpawnInv
    <2>2. Abstract!Accept(t)
      BY <1>1, <1>3, <2>1 DEF Abstract!Accept, Abstract!Move
    <2> QED BY <2>2 DEF Abstract!Next
  <1> QED BY <1>4, <1>5, <1>6, <1>7, <1>8 DEF CallStep

\* A goroutine takes the steps Start and Finish.
LEMMA ImplementsRunner ==
  ASSUME IInv, NEW t \in Tasks, RunnerStep(t)
  PROVE  [Abstract!Next]_(Abstract!vars)
PROOF
  <1> USE DEF IInv
  <1>1. CloseStatus' = CloseStatus /\ running' = running /\ owed' = owed
    BY DEF RunnerStep, Handle, Handled, CountOut, CloseStatus
  <1>2. \A u \in Tasks : u # t => call'[u] = call[u] /\ runner'[u] = runner[u]
    BY DEF RunnerStep, Handle, Handled, CountOut, Goto, TypeOK
  <1>3. TaskStatus' = [TaskStatus EXCEPT ![t] = TaskStatus'[t]]
    BY <1>2, StatusOne
  <1>4. CASE Handle(t)
    <2>1. TaskStatus[t] = "accepted" /\ TaskStatus'[t] = "running"
      BY <1>4 DEF Handle, Goto, TaskStatus, TypeOK
    <2>2. Cardinality(Abstract!WithStatus("running")) < MaxGoroutines
      <3> DEFINE busy == Abstract!WithStatus("running")
      <3>1. busy \subseteq Live \ {t} /\ t \in Live
        BY <1>4, StatusFacts DEF Handle, Goto, Live
      <3>2. /\ Cardinality(Live) \in Nat /\ Cardinality(Live) > 0
            /\ Cardinality(Live \ {t}) = Cardinality(Live) - 1
        BY <3>1, LiveFacts, CountOne
      <3>3. IsFiniteSet(Live \ {t})
        BY LiveFacts, AloneAssumption, FS_Subset
      <3> HIDE DEF busy
      <3>4. Cardinality(busy) \in Nat /\ Cardinality(busy) <= Cardinality(Live \ {t})
        BY <3>1, <3>3, FS_Subset, FS_CardinalityType
      <3>5. Cardinality(Live) <= MaxGoroutines
        BY LiveFacts DEF LimitInv
      <3>6. Cardinality(busy) < MaxGoroutines
        BY <3>2, <3>4, <3>5, AloneAssumption
      <3> QED BY <3>6 DEF busy
    <2>3. Abstract!Start(t)
      BY <1>1, <1>3, <2>1, <2>2, SameCardinality
      DEF Abstract!Start, Abstract!Move
    <2> QED BY <2>3 DEF Abstract!Next
  <1>5. CASE Handled(t)
    <2>1. TaskStatus[t] = "running" /\ TaskStatus'[t] = "finished"
      BY <1>5 DEF Handled, Goto, TaskStatus, TypeOK
    <2>2. Abstract!Finish(t)
      BY <1>1, <1>3, <2>1 DEF Abstract!Finish, Abstract!Move
    <2> QED BY <2>2 DEF Abstract!Next
  <1>6. CASE CountOut(t)
    <2>1. TaskStatus'[t] = TaskStatus[t]
      BY <1>6 DEF CountOut, Goto, TaskStatus, TypeOK
    <2>2. TaskStatus' = TaskStatus
      BY <1>3, <2>1 DEF TaskStatus
    <2> QED BY <1>1, <2>2 DEF Abstract!vars
  <1> QED BY <1>4, <1>5, <1>6 DEF RunnerStep

\* Close takes the steps CloseBegin, CloseAlready, CloseEnd and CloseFail.
LEMMA ImplementsClose ==
  ASSUME IInv, OwedInv, NEW c \in Closers, CloseStep(c)
  PROVE  [Abstract!Next]_(Abstract!vars)
PROOF
  <1> USE DEF IInv
  <1>1. TaskStatus' = TaskStatus
    BY DEF CloseStep, CloseLock, CloseEnd, CloseWait, ClosePoll, CloseGiveUp,
           TaskStatus
  <1>2. PICK to : closer' = [closer EXCEPT ![c] = to]
    BY DEF CloseStep, CloseLock, CloseEnd, CloseWait, ClosePoll, CloseGiveUp
  <1>3. CloseStatus' = [CloseStatus EXCEPT ![c] = CloseStatus'[c]]
    BY <1>2, ClosingOne
  <1>4. CASE CloseLock(c) /\ running
    <2>1. CloseStatus[c] = "none" /\ CloseStatus'[c] = "closing" /\ ~running'
      BY <1>4 DEF CloseLock, CloseStatus, TypeOK
    <2>2. owed' = Abstract!WithStatus("accepted")
                    \cup Abstract!WithStatus("running")
      BY <1>4, StatusFacts DEF CloseLock
    <2>3. Abstract!CloseBegin(c)
      BY <1>1, <1>3, <1>4, <2>1, <2>2 DEF Abstract!CloseBegin, TypeOK, CloseLock
    <2> QED BY <2>3 DEF Abstract!Next
  <1>5. CASE CloseLock(c) /\ ~running
    <2>1. CloseStatus[c] = "none" /\ CloseStatus'[c] = "already"
      BY <1>5 DEF CloseLock, CloseStatus, TypeOK
    <2>2. running' = running /\ owed' = owed
      BY <1>5 DEF CloseLock, TypeOK
    <2>3. Abstract!CloseAlready(c)
      BY <1>1, <1>3, <1>5, <2>1, <2>2 DEF Abstract!CloseAlready
    <2> QED BY <2>3 DEF Abstract!Next
  <1>6. CASE CloseEnd(c)
    <2>1. CloseStatus[c] = "closing" /\ CloseStatus'[c] = "ok"
      BY <1>6 DEF CloseEnd, CloseStatus, TypeOK
    <2>2. Live = {}
      <3>1. goroutines = 0
        BY <1>6 DEF CloseEnd, TypeOK
      <3>2. IsFiniteSet(Live)
        BY LiveFacts, AloneAssumption, FS_Subset
      <3> QED BY <3>1, <3>2, LiveFacts, FS_EmptySet
    <2>3. owed \subseteq Abstract!WithStatus("finished")
      BY <2>2, StatusFacts DEF OwedInv, Live, TypeOK
    <2>4. Abstract!CloseEnd(c)
      BY <1>1, <1>3, <1>6, <2>1, <2>3 DEF Abstract!CloseEnd, CloseEnd
    <2> QED BY <2>4 DEF Abstract!Next
  <1>7. CASE CloseWait(c) \/ ClosePoll(c)
    <2>1. CloseStatus'[c] = CloseStatus[c]
      BY <1>7 DEF CloseWait, ClosePoll, CloseStatus, TypeOK
    <2>2. CloseStatus' = CloseStatus
      BY <1>3, <2>1 DEF CloseStatus
    <2> QED BY <1>1, <1>7, <2>2 DEF Abstract!vars, CloseWait, ClosePoll
  <1>8. CASE CloseGiveUp(c)
    <2>1. CloseStatus[c] = "closing" /\ CloseStatus'[c] = "failed"
      BY <1>8 DEF CloseGiveUp, CloseStatus, TypeOK
    <2>2. Abstract!CloseFail(c)
      BY <1>1, <1>3, <1>8, <2>1 DEF Abstract!CloseFail, CloseGiveUp
    <2> QED BY <2>2 DEF Abstract!Next
  <1> QED BY <1>4, <1>5, <1>6, <1>7, <1>8 DEF CloseStep

\* The alone executor implements the Executors interface: callers see a task
\* accepted before it runs and run by at most MaxGoroutines goroutines, and a
\* Close without an error only after the tasks it found submitted are done.
THEOREM Implements == Spec => ImplementsExecutors
PROOF
  <1>1. Init => OwedInv /\ Abstract!Init
    BY ImplementsInit DEF Init, OwedInv
  <1>2. IInv /\ OwedInv /\ [Next]_vars => OwedInv'
    BY OwedStep DEF IInv
  <1>3. IInv /\ OwedInv /\ [Next]_vars => [Abstract!Next]_(Abstract!vars)
    <2> SUFFICES ASSUME IInv, OwedInv, [Next]_vars
                 PROVE  [Abstract!Next]_(Abstract!vars)
      OBVIOUS
    <2>1. ASSUME UNCHANGED vars PROVE UNCHANGED Abstract!vars
      BY <2>1 DEF vars, Abstract!vars, TaskStatus, CloseStatus
    <2> QED BY <2>1, ImplementsCall, ImplementsRunner, ImplementsClose
            DEF Next, Terminated
  <1> QED BY <1>1, <1>2, <1>3, Invariance, PTL
          DEF Spec, ImplementsExecutors, Abstract!Spec
=============================================================================
