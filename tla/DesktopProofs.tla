--------------------------- MODULE DesktopProofs ---------------------------
(***************************************************************************)
(* Proofs about Backend and Desktop, for any chargers, settings and number *)
(* of commands, connections, tasks and readings: first the charger thread  *)
(* under any window; then the window over it, which is one of the windows  *)
(* Backend allows, so all that is proved of Backend holds of the program,  *)
(* and which shows what the tasks last said.                               *)
(***************************************************************************)
EXTENDS Desktop, TLAPS, SequenceTheorems, WellFoundedInduction
-----------------------------------------------------------------------------
(* The charger thread, under any window                                    *)

\* What is known of a command from what it does.
LEMMA CommandParts ==
  ASSUME NEW c \in CommandType
  PROVE  c.n \in Numbers /\ (c.op # "Scan" => c.id \in Chargers)
  BY DEF CommandType

\* The messages the backend sends are updates.
LEMMA Messages ==
  ASSUME NEW id \in Chargers
  PROVE  /\ \A s \in LinkStatus \union {"Closed"} : Status(id, s) \in UpdateType
         /\ Notice(id) \in UpdateType
         /\ \A r \in Settings \union {None} : Reading(id, r) \in UpdateType
  BY DEF Status, Notice, Reading, UpdateType

\* A task that is stopped, or spawned, is a task.
LEMMA TaskParts ==
  ASSUME NEW t \in TaskType
  PROVE  /\ t.id \in Chargers /\ t.queue \in Seq(Numbers) /\ t.job \in Nat
         /\ Gone(t) \in TaskType /\ Gone(t).id = t.id /\ Gone(t).at = "aborted"
<1>1. <<>> \in Seq(Numbers) /\ None \in Nat
  BY DEF None
<1> QED
  BY <1>1 DEF TaskType, Gone

LEMMA NewTaskParts ==
  ASSUME NEW id \in Chargers
  PROVE  /\ NewTask(id) \in TaskType /\ NewTask(id).id = id /\ NewTask(id).at = "new"
         /\ NewTask(id).queue = <<>>
<1>1. <<>> \in Seq(Numbers) /\ None \in Nat
  BY DEF None
<1> QED
  BY <1>1 DEF TaskType, NewTask

\* The command that is taken, and those left.
LEMMA TakesKeeps ==
  ASSUME BackendTypeOK, NEW op, Takes(op)
  PROVE  /\ commands # <<>> /\ commands' = Tail(commands) /\ given' = given
         /\ commands' \in Seq(CommandType)
         /\ Head(commands) \in CommandType /\ Head(commands).n \in Numbers
         /\ op # "Scan" => Head(commands).id \in Chargers
<1>1. commands \in Seq(CommandType) /\ commands # <<>> /\ Head(commands).op = op
      /\ commands' = Tail(commands) /\ given' = given
  BY DEF BackendTypeOK, Takes
<1>2. Head(commands) \in CommandType /\ Tail(commands) \in Seq(CommandType)
  BY <1>1
<1> QED
  BY <1>1, <1>2, CommandParts

\* Stopping the task of a charger touches no other task.
LEMMA StopTaskKeeps ==
  ASSUME BackendTypeOK, NEW id \in Chargers
  PROVE  /\ StopTask(id) \in Seq(TaskType) /\ DOMAIN StopTask(id) = DOMAIN tasks
         /\ Len(StopTask(id)) = Len(tasks)
         /\ \A g \in DOMAIN tasks :
              StopTask(id)[g] = IF g = live[id] THEN Gone(tasks[g]) ELSE tasks[g]
<1>1. tasks \in Seq(TaskType)
  BY DEF BackendTypeOK
<1>2. \A g \in DOMAIN tasks : tasks[g] \in TaskType /\ Gone(tasks[g]) \in TaskType
  BY <1>1, TaskParts
<1>3. /\ DOMAIN tasks = 1..Len(tasks) /\ Len(tasks) \in Nat
  BY <1>1
<1>4. StopTask(id) \in [1..Len(tasks) -> TaskType]
  BY <1>2, <1>3 DEF StopTask
<1>5. StopTask(id) \in Seq(TaskType) /\ Len(StopTask(id)) = Len(tasks)
  BY <1>3, <1>4
<1> QED
  BY <1>3, <1>5 DEF StopTask

\* The new task of a charger stands behind the others.
LEMMA FollowKeeps ==
  ASSUME BackendTypeOK, NEW id \in Chargers, Follow(id)
  PROVE  /\ tasks' \in Seq(TaskType) /\ Len(tasks) \in Nat
         /\ Len(tasks') = Len(tasks) + 1 /\ DOMAIN tasks = 1..Len(tasks)
         /\ DOMAIN tasks' = 1..(Len(tasks) + 1)
         /\ tasks'[Len(tasks) + 1] = NewTask(id)
         /\ \A g \in DOMAIN tasks :
              tasks'[g] = IF g = live[id] THEN Gone(tasks[g]) ELSE tasks[g]
         /\ live' = [live EXCEPT ![id] = Len(tasks) + 1]
         /\ live' \in [Chargers -> {None} \union DOMAIN tasks']
<1>1. tasks \in Seq(TaskType) /\ live \in [Chargers -> {None} \union DOMAIN tasks]
  BY DEF BackendTypeOK
<1>2. DOMAIN tasks = 1..Len(tasks) /\ Len(tasks) \in Nat
  BY <1>1
<1>3. tasks' = Append(StopTask(id), NewTask(id)) /\ live' = [live EXCEPT ![id] = Len(tasks')]
  BY DEF Follow
<1>4. /\ tasks' \in Seq(TaskType) /\ Len(tasks') = Len(tasks) + 1
      /\ tasks'[Len(tasks) + 1] = NewTask(id)
      /\ \A g \in DOMAIN tasks : tasks'[g] = StopTask(id)[g]
  BY <1>2, <1>3, StopTaskKeeps, NewTaskParts
<1>5. DOMAIN tasks' = 1..(Len(tasks) + 1)
  BY <1>4
<1>6. live' \in [Chargers -> {None} \union DOMAIN tasks']
  BY <1>1, <1>2, <1>3, <1>4, <1>5
<1> QED
  BY <1>2, <1>3, <1>4, <1>5, <1>6, StopTaskKeeps

\* One task moves on; the others stay as they are.
LEMMA ChangeKeeps ==
  ASSUME BackendTypeOK, NEW g \in DOMAIN tasks, NEW t \in TaskType,
         tasks' = [tasks EXCEPT ![g] = t]
  PROVE  /\ tasks' \in Seq(TaskType) /\ DOMAIN tasks' = DOMAIN tasks
         /\ tasks'[g] = t /\ \A h \in DOMAIN tasks : h # g => tasks'[h] = tasks[h]
<1>1. tasks \in Seq(TaskType)
  BY DEF BackendTypeOK
<1> QED
  BY <1>1
-----------------------------------------------------------------------------
\* What a step of a task can do to the tasks: it moves on within one of them,
\* which is not aborted, and keeps its queue unless it begins a command.
LEMMA RunDeviceKeeps ==
  ASSUME BackendTypeOK, NEW g \in DOMAIN tasks, RunDevice(g)
  PROVE  /\ tasks' \in Seq(TaskType) /\ DOMAIN tasks' = DOMAIN tasks
         /\ \A h \in DOMAIN tasks : h # g => tasks'[h] = tasks[h]
         /\ tasks[g].at # "aborted" /\ tasks'[g].at # "aborted"
         /\ tasks'[g].id = tasks[g].id
         /\ \/ /\ tasks'[g].queue = tasks[g].queue /\ tasks'[g].at # "applying"
               /\ begun' = begun
            \/ ApplyStarts(g)
<1> DEFINE Good(t) == t \in TaskType /\ t.id = tasks[g].id /\ t.at # "aborted"
           Kept(t) == Good(t) /\ t.queue = tasks[g].queue /\ t.at # "applying"
<1>t. tasks[g] \in TaskType /\ tasks[g].queue \in Seq(Numbers) /\ None \in Nat
  BY TaskParts DEF BackendTypeOK, None
<1>1. ASSUME NEW at \in {"connecting", "polling", "waiting"}, Moves(g, at)
      PROVE  \E t : Kept(t) /\ tasks' = [tasks EXCEPT ![g] = t]
  <2>1. Kept([tasks[g] EXCEPT !.at = at])
    BY <1>t DEF TaskType
  <2>2. tasks' = [tasks EXCEPT ![g] = [tasks[g] EXCEPT !.at = at]]
    BY <1>1, <1>t DEF Moves
  <2> QED
    BY <2>1, <2>2
<1>2. ASSUME NEW t, Kept(t), tasks' = [tasks EXCEPT ![g] = t], begun' = begun,
             tasks[g].at # "aborted"
      PROVE  /\ tasks' \in Seq(TaskType) /\ DOMAIN tasks' = DOMAIN tasks
             /\ \A h \in DOMAIN tasks : h # g => tasks'[h] = tasks[h]
             /\ tasks[g].at # "aborted" /\ tasks'[g].at # "aborted"
             /\ tasks'[g].id = tasks[g].id
             /\ tasks'[g].queue = tasks[g].queue /\ tasks'[g].at # "applying"
             /\ begun' = begun
  BY <1>2, ChangeKeeps
<1>3. CASE Try(g)
  BY <1>1, <1>2, <1>3 DEF Try
<1>4. CASE TryEnds(g)
  BY <1>1, <1>2, <1>4 DEF TryEnds
<1>5. CASE PollFails(g)
  BY <1>1, <1>2, <1>5 DEF PollFails
<1>6. CASE PollReads(g)
  BY <1>t, <1>6 DEF PollReads, BackendTypeOK
<1>7. CASE ApplyStarts(g)
  <2> DEFINE t == [tasks[g] EXCEPT !.at = "applying", !.job = Head(tasks[g].queue),
                                   !.queue = Tail(tasks[g].queue)]
  <2>1. tasks[g].queue # <<>> /\ tasks[g].at = "polling" /\ tasks' = [tasks EXCEPT ![g] = t]
    BY <1>t, <1>7 DEF ApplyStarts
  <2>2. Head(tasks[g].queue) \in Nat /\ Tail(tasks[g].queue) \in Seq(Numbers)
    BY <1>t, <2>1 DEF Numbers
  <2>3. Good(t)
    BY <1>t, <2>2 DEF TaskType
  <2> QED
    BY <1>7, <2>1, <2>3, ChangeKeeps
<1>8. CASE ApplyEnds(g)
  <2>1. PICK at \in {"polling", "waiting"} :
          tasks' = [tasks EXCEPT ![g].at = at, ![g].job = None]
    BY <1>8 DEF ApplyEnds
  <2>2. Kept([tasks[g] EXCEPT !.at = at, !.job = None])
    BY <1>t DEF TaskType
  <2>3. tasks' = [tasks EXCEPT ![g] = [tasks[g] EXCEPT !.at = at, !.job = None]]
    BY <1>t, <2>1
  <2>4. begun' = begun /\ tasks[g].at # "aborted"
    BY <1>8 DEF ApplyEnds
  <2> QED
    BY <1>2, <2>2, <2>3, <2>4
<1> QED
  BY <1>3, <1>4, <1>5, <1>6, <1>7, <1>8 DEF RunDevice
-----------------------------------------------------------------------------
(* The type invariant                                                      *)

\* What a task says to the window, and what it counts.
LEMMA RunDeviceSays ==
  ASSUME BackendTypeOK, NEW g \in DOMAIN tasks, RunDevice(g)
  PROVE  /\ updates' \in Seq(UpdateType)
         /\ tries' \in 0..MaxTries /\ readings' \in 0..MaxReadings
         /\ begun' \in [Chargers -> Nat]
         /\ UNCHANGED <<given, commands, busy, seen, store, live, dropped>>
<1> DEFINE id == tasks[g].id
<1>1. /\ tasks[g] \in TaskType /\ id \in Chargers /\ tasks[g].queue \in Seq(Numbers)
      /\ updates \in Seq(UpdateType)
      /\ tries \in 0..MaxTries /\ readings \in 0..MaxReadings
      /\ begun \in [Chargers -> Nat]
  BY TaskParts DEF BackendTypeOK
<1>2. /\ Notice(id) \in UpdateType
      /\ \A s \in LinkStatus : Status(id, s) \in UpdateType
      /\ \A r \in Settings \union {None} : Reading(id, r) \in UpdateType
  BY <1>1, Messages
<1>3. ASSUME NEW m \in UpdateType, Says(g, <<m>>) PROVE updates' \in Seq(UpdateType)
  BY <1>1, <1>3 DEF Says
<1>4. ASSUME NEW m \in UpdateType, NEW n \in UpdateType, Says(g, <<m, n>>)
      PROVE  updates' \in Seq(UpdateType)
  BY <1>1, <1>4 DEF Says
<1>5. {"Connecting", "Connected", "Lost"} = LinkStatus
  BY DEF LinkStatus
<1>6. CASE Try(g)
  BY <1>1, <1>2, <1>3, <1>5, <1>6, LimitsAssumption DEF Try, UnchangedByTasks
<1>7. CASE TryEnds(g)
  BY <1>1, <1>2, <1>3, <1>5, <1>7 DEF TryEnds, UnchangedByTasks
<1>8. CASE PollReads(g)
  BY <1>1, <1>2, <1>3, <1>8, LimitsAssumption DEF PollReads, UnchangedByTasks
<1>9. CASE PollFails(g)
  BY <1>1, <1>2, <1>3, <1>5, <1>9 DEF PollFails, UnchangedByTasks
<1>10. CASE ApplyStarts(g)
  <2>1. Head(tasks[g].queue) \in Nat
    BY <1>1, <1>10 DEF ApplyStarts, Numbers
  <2> QED
    BY <1>1, <1>10, <2>1 DEF ApplyStarts, UnchangedByTasks
<1>11. CASE ApplyEnds(g)
  BY <1>1, <1>2, <1>3, <1>4, <1>5, <1>11 DEF ApplyEnds, UnchangedByTasks
<1> QED
  BY <1>6, <1>7, <1>8, <1>9, <1>10, <1>11 DEF RunDevice

\* What the window may do keeps the types.
LEMMA AnyWindowTypes ==
  ASSUME BackendTypeOK, AnyWindow PROVE BackendTypeOK'
<1>1. ASSUME NEW c \in CommandType, Give(c) PROVE BackendTypeOK'
  <2>1. given' \in 1..MaxCommands /\ commands' \in Seq(CommandType)
    BY <1>1, LimitsAssumption DEF Give, BackendTypeOK
  <2> QED
    BY <1>1, <2>1 DEF Give, BackendTypeOK
<1>2. given + 1 \in Numbers
  BY LimitsAssumption DEF BackendTypeOK, Numbers, None
<1>3. CASE Give([op |-> "Scan", n |-> given'])
  <2>1. given' \in Numbers
    BY <1>2, <1>3 DEF Give
  <2> QED
    BY <1>1, <1>3, <2>1 DEF CommandType
<1>4. CASE \E op \in {"Bind", "Connect", "Disconnect", "Task"}, id \in Chargers :
             Give([op |-> op, id |-> id, n |-> given'])
  <2>1. PICK op \in {"Bind", "Connect", "Disconnect", "Task"}, id \in Chargers :
             Give([op |-> op, id |-> id, n |-> given'])
    BY <1>4
  <2>2. given' \in Numbers
    BY <1>2, <2>1 DEF Give
  <2>3. [op |-> op, id |-> id, n |-> given'] \in CommandType
    BY <2>2 DEF CommandType
  <2> QED
    BY <1>1, <2>1, <2>3
<1>5. CASE TakeUpdate
  <2>1. updates' \in Seq(UpdateType)
    BY <1>5 DEF TakeUpdate, BackendTypeOK
  <2> QED
    BY <1>5, <2>1 DEF TakeUpdate, BackendTypeOK
<1> QED
  BY <1>3, <1>4, <1>5 DEF AnyWindow

\* What the supervisor does keeps the types.
LEMMA SuperviseTypes ==
  ASSUME BackendTypeOK, Supervise PROVE BackendTypeOK'
<1> USE DEF BackendTypeOK
<1>1. CASE ScanStarts
  BY <1>1, TakesKeeps DEF ScanStarts
<1>2. CASE ScanEnds
  <2> DEFINE Rows(inRange, waiting) ==
               { [id |-> id, waiting |-> id \in waiting, known |-> id \in store,
                  connected |-> live[id] # None] : id \in inRange }
  <2>1. ASSUME NEW inRange \in SUBSET Chargers, NEW waiting \in SUBSET inRange
        PROVE  Found(Rows(inRange, waiting)) \in UpdateType
    <3>1. \A id \in inRange : [id |-> id, waiting |-> id \in waiting, known |-> id \in store,
                               connected |-> live[id] # None] \in RowType
      BY DEF RowType
    <3>2. Rows(inRange, waiting) \in SUBSET RowType
      BY <3>1
    <3> HIDE DEF Rows
    <3> QED
      BY <3>2 DEF Found, UpdateType
  <2>2. updates' \in Seq(UpdateType) /\ seen' \subseteq Chargers
    <3>1. CASE UNCHANGED <<seen, updates>>
      BY <3>1
    <3>2. CASE \E inRange \in SUBSET Chargers : \E waiting \in SUBSET inRange :
                 seen' = inRange /\ updates' = Append(updates, Found(Rows(inRange, waiting)))
      <4> HIDE DEF Rows
      <4>1. PICK inRange \in SUBSET Chargers : \E waiting \in SUBSET inRange :
                 seen' = inRange /\ updates' = Append(updates, Found(Rows(inRange, waiting)))
        BY <3>2
      <4>2. PICK waiting \in SUBSET inRange :
                 seen' = inRange /\ updates' = Append(updates, Found(Rows(inRange, waiting)))
        BY <4>1
      <4>3. Found(Rows(inRange, waiting)) \in UpdateType
        BY <2>1
      <4> QED
        BY <4>2, <4>3
    <3> QED
      BY <1>2, <3>1, <3>2 DEF ScanEnds
  <2> QED
    BY <1>2, <2>2 DEF ScanEnds
<1>3. CASE BindStarts
  BY <1>3, TakesKeeps DEF BindStarts
<1>4. CASE BindEnds
  <2>1. busy.id \in Chargers
    BY <1>4 DEF BindEnds, CommandType, Idle
  <2>2. updates' \in Seq(UpdateType)
    BY <1>4, <2>1, Messages DEF BindEnds
  <2>3. /\ tasks' \in Seq(TaskType) /\ live' \in [Chargers -> {None} \union DOMAIN tasks']
        /\ store' \subseteq Chargers
    BY <1>4, <2>1, FollowKeeps DEF BindEnds
  <2> QED
    BY <1>4, <2>2, <2>3 DEF BindEnds
<1>5. CASE Connect
  <2> DEFINE id == Head(commands).id
  <2>1. id \in Chargers /\ commands' \in Seq(CommandType) /\ given' = given
    BY <1>5, TakesKeeps DEF Connect
  <2>2. updates' \in Seq(UpdateType)
    <3>1. Notice(id) \in UpdateType
      BY <2>1, Messages
    <3>2. updates' = updates \/ updates' = Append(updates, Notice(id))
      BY <1>5 DEF Connect
    <3>3. updates \in Seq(UpdateType)
      OBVIOUS
    <3> HIDE DEF BackendTypeOK
    <3> QED
      BY <3>1, <3>2, <3>3
  <2>3. tasks' \in Seq(TaskType) /\ live' \in [Chargers -> {None} \union DOMAIN tasks']
    BY <1>5, <2>1, FollowKeeps DEF Connect
  <2> QED
    BY <1>5, <2>1, <2>2, <2>3 DEF Connect
<1>6. CASE Disconnect
  <2> DEFINE id == Head(commands).id
  <2>1. /\ id \in Chargers /\ commands' \in Seq(CommandType) /\ given' = given
        /\ Head(commands).n \in Nat
    BY <1>6, TakesKeeps DEF Disconnect, Numbers
  <2>2. updates' \in Seq(UpdateType) /\ dropped' \in [Chargers -> Nat]
    BY <1>6, <2>1, Messages DEF Disconnect
  <2>3. tasks' \in Seq(TaskType) /\ live' \in [Chargers -> {None} \union DOMAIN tasks']
    BY <1>6, <2>1, StopTaskKeeps DEF Disconnect
  <2> QED
    BY <1>6, <2>1, <2>2, <2>3 DEF Disconnect
<1>7. CASE Task
  <2> DEFINE g == live[Head(commands).id]
             t == [tasks[g] EXCEPT !.queue = Append(tasks[g].queue, Head(commands).n)]
  <2>1. /\ Head(commands).id \in Chargers /\ commands' \in Seq(CommandType) /\ given' = given
        /\ Head(commands).n \in Numbers
    <3>1. Takes("Task")
      BY <1>7 DEF Task
    <3>2. "Task" # "Scan"
      OBVIOUS
    <3> QED
      BY <3>1, <3>2, TakesKeeps
  <2>2. CASE g = None
    BY <1>7, <2>1, <2>2 DEF Task
  <2>3. CASE g # None
    <3>1. g \in DOMAIN tasks /\ tasks[g] \in TaskType
      BY <2>1, <2>3
    <3>2. t \in TaskType
      <4>1. Append(tasks[g].queue, Head(commands).n) \in Seq(Numbers)
        BY <2>1, <3>1, TaskParts
      <4> QED
        BY <3>1, <4>1 DEF TaskType
    <3>3. tasks' = [tasks EXCEPT ![g] = t]
      BY <1>7, <2>3, <3>1 DEF Task
    <3> QED
      BY <1>7, <2>1, <3>1, <3>2, <3>3, ChangeKeeps DEF Task
  <2> QED
    BY <2>2, <2>3
<1> QED
  BY <1>1, <1>2, <1>3, <1>4, <1>5, <1>6, <1>7 DEF Supervise

LEMMA TypesStep ==
  ASSUME BackendTypeOK, [BackendNext]_backend PROVE BackendTypeOK'
<1>1. CASE Supervise
  BY <1>1, SuperviseTypes
<1>2. ASSUME NEW g \in DOMAIN tasks, RunDevice(g) PROVE BackendTypeOK'
  BY <1>2, RunDeviceKeeps, RunDeviceSays DEF BackendTypeOK
<1>3. CASE AnyWindow
  BY <1>3, AnyWindowTypes
<1>4. CASE UNCHANGED backend
  BY <1>4 DEF backend, BackendTypeOK
<1> QED
  BY <1>1, <1>2, <1>3, <1>4 DEF BackendNext

LEMMA TypesInit ==
  ASSUME InitBackend PROVE BackendTypeOK
<1>1. [op |-> "Scan", n |-> 1] \in CommandType
  BY DEF CommandType, Numbers, None
<1> QED
  BY <1>1, StoredAssumption, LimitsAssumption DEF InitBackend, BackendTypeOK, None

\* The charger thread keeps its types, whatever the window does.
THEOREM BackendTypeCorrect == BackendSpec => []BackendTypeOK
<1> QED
  BY TypesInit, TypesStep, PTL DEF BackendSpec
-----------------------------------------------------------------------------
(* Order                                                                   *)

\* A charger is followed by a task of its own.
LiveFollows == \A id \in Chargers : live[id] # None => tasks[live[id]].id = id

\* The commands wait in the order they were given, and no charger was told to
\* disconnect, or began a task command, by one that still waits.
CommandsRise ==
  /\ \A i, j \in DOMAIN commands : i < j => commands[i].n < commands[j].n
  /\ \A i \in DOMAIN commands :
       /\ commands[i].n <= given
       /\ \A id \in Chargers : dropped[id] < commands[i].n /\ begun[id] < commands[i].n
  /\ \A id \in Chargers : dropped[id] <= given /\ begun[id] <= given

\* So do the commands a task was passed, before all that are not passed on yet.
InOrder(t) ==
  /\ \A k \in DOMAIN t.queue :
       /\ dropped[t.id] < t.queue[k] /\ begun[t.id] < t.queue[k] /\ t.queue[k] <= given
       /\ \A i \in DOMAIN commands : t.queue[k] < commands[i].n
  /\ \A k, l \in DOMAIN t.queue : k < l => t.queue[k] < t.queue[l]
  /\ t.at = "applying" => dropped[t.id] < t.job

WorkInOrder == \A g \in DOMAIN tasks : tasks[g].at # "aborted" => InOrder(tasks[g])

OrderInv == OneTaskPerCharger /\ LiveFollows /\ CommandsRise /\ WorkInOrder

\* What the variables hold, in the form the steps below need.
LEMMA Held ==
  ASSUME BackendTypeOK
  PROVE  /\ commands \in Seq(CommandType) /\ given \in Nat
         /\ \A i \in DOMAIN commands : commands[i].n \in Nat
         /\ DOMAIN tasks = 1..Len(tasks) /\ Len(tasks) \in Nat
         /\ \A g \in DOMAIN tasks :
              /\ tasks[g] \in TaskType /\ tasks[g].id \in Chargers
              /\ tasks[g].queue \in Seq(Nat) /\ tasks[g].job \in Nat
              /\ \A k \in DOMAIN tasks[g].queue : tasks[g].queue[k] \in Nat
         /\ \A id \in Chargers :
              /\ dropped[id] \in Nat /\ begun[id] \in Nat
              /\ live[id] # None => live[id] \in DOMAIN tasks
<1>1. /\ commands \in Seq(CommandType) /\ given \in Nat /\ tasks \in Seq(TaskType)
      /\ \A id \in Chargers : /\ dropped[id] \in Nat /\ begun[id] \in Nat
                              /\ live[id] # None => live[id] \in DOMAIN tasks
  BY LimitsAssumption DEF BackendTypeOK
<1>2. \A i \in DOMAIN commands : commands[i].n \in Nat
  BY <1>1, CommandParts DEF Numbers
<1>3. Numbers \subseteq Nat
  BY DEF Numbers
<1>4. ASSUME NEW q \in Seq(Numbers) PROVE q \in Seq(Nat) /\ \A k \in DOMAIN q : q[k] \in Nat
  <2>1. q \in Seq(Nat)
    BY <1>3, SeqMonotonic
  <2> QED
    BY <2>1
<1>5. \A g \in DOMAIN tasks : tasks[g] \in TaskType
  BY <1>1
<1>6. DOMAIN tasks = 1..Len(tasks) /\ Len(tasks) \in Nat
  BY <1>1
<1> QED
  BY <1>1, <1>2, <1>4, <1>5, <1>6, TaskParts

\* The command taken precedes all that are left and follows all that were passed.
LEMMA TakenInOrder ==
  ASSUME BackendTypeOK, OrderInv, commands # <<>>, commands' = Tail(commands)
  PROVE  /\ \A i \in DOMAIN commands' : \E j \in DOMAIN commands :
              commands'[i] = commands[j] /\ Head(commands).n < commands'[i].n
         /\ \A i, j \in DOMAIN commands' : i < j => commands'[i].n < commands'[j].n
         /\ Head(commands).n \in Nat /\ Head(commands).n <= given
         /\ \A id \in Chargers : dropped[id] < Head(commands).n /\ begun[id] < Head(commands).n
         /\ \A g \in DOMAIN tasks : tasks[g].at # "aborted" =>
              \A k \in DOMAIN tasks[g].queue : tasks[g].queue[k] < Head(commands).n
<1>1. commands \in Seq(CommandType)
  BY Held
<1>2. /\ 1 \in DOMAIN commands /\ Head(commands) = commands[1]
      /\ \A i \in DOMAIN commands' : /\ i \in Nat /\ i + 1 \in DOMAIN commands
                                     /\ commands'[i] = commands[i + 1] /\ 1 < i + 1
  BY <1>1
<1>3. \A i, j \in DOMAIN commands' : i < j => i + 1 < j + 1
  BY <1>2
<1> QED
  BY <1>2, <1>3, Held DEF OrderInv, CommandsRise, WorkInOrder, InOrder

\* Taking a command that reaches no task keeps the order.
LEMMA TakingKeepsOrder ==
  ASSUME BackendTypeOK, OrderInv, commands # <<>>, commands' = Tail(commands),
         UNCHANGED <<given, tasks, live, dropped, begun>>
  PROVE  OrderInv'
<1>1. OneTaskPerCharger' /\ LiveFollows'
  BY DEF OrderInv, OneTaskPerCharger, LiveFollows
<1>2. CommandsRise'
  BY TakenInOrder DEF OrderInv, CommandsRise
<1>3. WorkInOrder'
  BY TakenInOrder DEF OrderInv, WorkInOrder, InOrder
<1> QED
  BY <1>1, <1>2, <1>3 DEF OrderInv

\* So does a command that is given.
LEMMA GivingKeepsOrder ==
  ASSUME BackendTypeOK, OrderInv, NEW c, Give(c), c.n = given + 1
  PROVE  OrderInv'
<1>1. /\ given' = given + 1 /\ commands' = Append(commands, c)
      /\ UNCHANGED <<tasks, live, dropped, begun>>
  BY DEF Give
<1>2. commands \in Seq(CommandType) /\ given \in Nat
  BY Held
<1>3. \A i \in DOMAIN commands' : \/ i \in DOMAIN commands /\ commands'[i] = commands[i]
                                  \/ i = Len(commands) + 1 /\ commands'[i] = c
  BY <1>1, <1>2
<1>4. \A i \in DOMAIN commands : i \in Nat /\ i < Len(commands) + 1
  BY <1>2
<1>5. CommandsRise'
  BY <1>1, <1>2, <1>3, <1>4, Held DEF OrderInv, CommandsRise
<1>6. WorkInOrder'
  <2> SUFFICES ASSUME NEW g \in DOMAIN tasks, tasks[g].at # "aborted"
               PROVE  InOrder(tasks[g])'
    BY <1>1 DEF WorkInOrder
  <2>1. InOrder(tasks[g])
    BY DEF OrderInv, WorkInOrder
  <2>2. \A k \in DOMAIN tasks[g].queue : tasks[g].queue[k] \in Nat
    BY Held
  <2>3. ASSUME NEW k \in DOMAIN tasks[g].queue
        PROVE  /\ tasks[g].queue[k] <= given'
               /\ \A i \in DOMAIN commands' : tasks[g].queue[k] < commands'[i].n
    <3>1. tasks[g].queue[k] <= given /\ tasks[g].queue[k] < c.n
      BY <1>2, <2>1, <2>2 DEF InOrder
    <3>2. \A i \in DOMAIN commands : tasks[g].queue[k] < commands[i].n
      BY <2>1 DEF InOrder
    <3> QED
      BY <1>1, <1>2, <1>3, <2>2, <3>1, <3>2
  <2> QED
    BY <1>1, <2>1, <2>3 DEF InOrder
<1>7. OneTaskPerCharger' /\ LiveFollows'
  BY <1>1 DEF OrderInv, OneTaskPerCharger, LiveFollows
<1> QED
  BY <1>5, <1>6, <1>7 DEF OrderInv

\* A new task starts with nothing to do, and the one before it is done with.
LEMMA FollowingKeepsOrder ==
  ASSUME BackendTypeOK, OrderInv, NEW id \in Chargers, Follow(id),
         UNCHANGED <<given, dropped, begun>>, CommandsRise',
         \A i \in DOMAIN commands' : \E j \in DOMAIN commands : commands'[i] = commands[j]
  PROVE  OrderInv'
<1>1. \A g \in DOMAIN tasks' :
        \/ g \in DOMAIN tasks /\ g # live[id] /\ tasks'[g] = tasks[g]
        \/ g \in DOMAIN tasks /\ g = live[id] /\ tasks'[g] = Gone(tasks[g])
        \/ g = Len(tasks) + 1 /\ tasks'[g] = NewTask(id)
  BY FollowKeeps
<1>a. /\ \A c \in Chargers : c # id => live'[c] = live[c]
      /\ live'[id] = Len(tasks) + 1
  BY FollowKeeps DEF BackendTypeOK
<1>b. /\ \A g \in DOMAIN tasks : g # Len(tasks) + 1 /\ g \in DOMAIN tasks'
                                 /\ tasks'[g].id = tasks[g].id /\ tasks[g].id \in Chargers
      /\ Len(tasks) + 1 \in DOMAIN tasks' /\ tasks'[Len(tasks) + 1].id = id
  <2>1. /\ DOMAIN tasks = 1..Len(tasks) /\ Len(tasks) \in Nat
        /\ DOMAIN tasks' = 1..(Len(tasks) + 1)
    BY FollowKeeps
  <2>2. \A g \in DOMAIN tasks : g # Len(tasks) + 1 /\ g \in DOMAIN tasks'
    BY <2>1
  <2>3. \A g \in DOMAIN tasks : tasks'[g].id = tasks[g].id /\ tasks[g].id \in Chargers
    BY FollowKeeps, Held, TaskParts
  <2>4. Len(tasks) + 1 \in DOMAIN tasks' /\ tasks'[Len(tasks) + 1].id = id
    BY <2>1, FollowKeeps, NewTaskParts
  <2> QED
    BY <2>2, <2>3, <2>4
<1>2. OneTaskPerCharger'
  <2>1. SUFFICES ASSUME NEW g \in DOMAIN tasks', tasks'[g].at # "aborted"
                 PROVE  live'[tasks'[g].id] = g
    BY DEF OneTaskPerCharger
  <2>2. CASE g = Len(tasks) + 1
    BY <1>a, <1>b, <2>2
  <2>3. CASE g \in DOMAIN tasks /\ g # live[id] /\ tasks'[g] = tasks[g]
    BY <1>a, <1>b, <2>1, <2>3 DEF OrderInv, OneTaskPerCharger
  <2>4. CASE g \in DOMAIN tasks /\ tasks'[g] = Gone(tasks[g])
    BY <2>1, <2>4, Held, TaskParts
  <2> QED
    BY <1>1, <2>2, <2>3, <2>4
<1>3. LiveFollows'
  BY <1>a, <1>b, Held DEF OrderInv, LiveFollows
<1>4. InOrder(NewTask(id))'
  BY NewTaskParts DEF InOrder, NewTask
<1>5. WorkInOrder'
  <2>1. SUFFICES ASSUME NEW g \in DOMAIN tasks', tasks'[g].at # "aborted"
                 PROVE  InOrder(tasks[g])'
    BY DEF WorkInOrder
  <2>2. CASE g \in DOMAIN tasks /\ g # live[id] /\ tasks'[g] = tasks[g]
    BY <2>1, <2>2 DEF OrderInv, WorkInOrder, InOrder
  <2>3. CASE g \in DOMAIN tasks /\ g = live[id] /\ tasks'[g] = Gone(tasks[g])
    BY <2>1, <2>3, Held, TaskParts
  <2>4. CASE g = Len(tasks) + 1 /\ tasks'[g] = NewTask(id)
    BY <2>4, NewTaskParts DEF InOrder, NewTask
  <2> QED
    BY <1>1, <2>2, <2>3, <2>4
<1> QED
  BY <1>2, <1>3, <1>5 DEF OrderInv

\* Once a charger is told to disconnect, no task of it has anything left to do.
LEMMA DisconnectKeepsOrder ==
  ASSUME BackendTypeOK, OrderInv, Disconnect PROVE OrderInv'
<1> DEFINE id == Head(commands).id
<1>1. /\ commands # <<>> /\ commands' = Tail(commands) /\ given' = given /\ id \in Chargers
  BY TakesKeeps DEF Disconnect
<1>2. /\ tasks' = StopTask(id) /\ live' = [live EXCEPT ![id] = None] /\ begun' = begun
      /\ dropped' = [dropped EXCEPT ![id] = Head(commands).n]
  BY DEF Disconnect
<1>3. /\ DOMAIN tasks' = DOMAIN tasks
      /\ \A g \in DOMAIN tasks :
           tasks'[g] = IF g = live[id] THEN Gone(tasks[g]) ELSE tasks[g]
  BY <1>1, <1>2, StopTaskKeeps
<1>4. \A g \in DOMAIN tasks : tasks'[g].at # "aborted" =>
        tasks'[g] = tasks[g] /\ tasks[g].id # id /\ live[tasks[g].id] = g
  BY <1>1, <1>3, Held, TaskParts DEF OrderInv, OneTaskPerCharger
<1>5. /\ \A c \in Chargers : c # id => dropped'[c] = dropped[c] /\ live'[c] = live[c]
      /\ dropped'[id] = Head(commands).n /\ live'[id] = None
  BY <1>1, <1>2 DEF BackendTypeOK
<1>6. OneTaskPerCharger'
  BY <1>3, <1>4, <1>5, Held DEF OneTaskPerCharger
<1>7. LiveFollows'
  <2>1. \A g \in DOMAIN tasks : tasks'[g].id = tasks[g].id
    BY <1>3, Held, TaskParts
  <2> QED
    BY <1>5, <2>1, Held DEF OrderInv, LiveFollows
<1>8. CommandsRise'
  BY <1>1, <1>2, <1>5, TakenInOrder DEF OrderInv, CommandsRise
<1>9. WorkInOrder'
  <2>1. SUFFICES ASSUME NEW g \in DOMAIN tasks, tasks'[g].at # "aborted"
                 PROVE  InOrder(tasks[g])'
    BY <1>3 DEF WorkInOrder
  <2>2. tasks'[g] = tasks[g] /\ dropped'[tasks[g].id] = dropped[tasks[g].id]
        /\ InOrder(tasks[g])
    BY <1>4, <1>5, <2>1, Held DEF OrderInv, WorkInOrder
  <2> QED
    BY <1>1, <1>2, <2>2, TakenInOrder DEF InOrder
<1> QED
  BY <1>6, <1>7, <1>8, <1>9 DEF OrderInv

\* A command that is passed on comes last in the queue of its charger's task.
LEMMA TaskKeepsOrder ==
  ASSUME BackendTypeOK, OrderInv, Task PROVE OrderInv'
<1> DEFINE id == Head(commands).id
           m == Head(commands).n
<1>1. /\ commands # <<>> /\ commands' = Tail(commands) /\ given' = given /\ id \in Chargers
      /\ m \in Numbers
  BY TakesKeeps DEF Task
<1>2. /\ UNCHANGED <<live, dropped, begun>>
      /\ tasks' = IF live[id] = None THEN tasks ELSE [tasks EXCEPT ![live[id]].queue = Append(@, m)]
  BY DEF Task
<1>3. CASE live[id] = None
  BY <1>1, <1>2, <1>3, TakingKeepsOrder
<1>4. CASE live[id] # None
  <2>0. PICK g : g = live[id]
    OBVIOUS
  <2> DEFINE t == [tasks[g] EXCEPT !.queue = Append(tasks[g].queue, m)]
  <2>1. /\ g \in DOMAIN tasks /\ tasks[g] \in TaskType /\ tasks[g].id = id
        /\ tasks[g].queue \in Seq(Numbers) /\ tasks[g].queue \in Seq(Nat) /\ m \in Nat
    BY <1>1, <1>4, <2>0, Held, TaskParts DEF OrderInv, LiveFollows, Numbers
  <2>2. /\ t \in TaskType /\ t.id = id /\ t.at = tasks[g].at /\ t.job = tasks[g].job
        /\ t.queue = Append(tasks[g].queue, m)
    <3>1. Append(tasks[g].queue, m) \in Seq(Numbers)
      BY <1>1, <2>1
    <3> QED
      BY <2>1, <3>1 DEF TaskType
  <2>3. tasks' = [tasks EXCEPT ![g] = t]
    BY <1>2, <1>4, <2>0, <2>1
  <2> HIDE DEF t
  <2>4. /\ DOMAIN tasks' = DOMAIN tasks /\ tasks'[g] = t
        /\ \A h \in DOMAIN tasks : h # g => tasks'[h] = tasks[h]
    BY <2>1, <2>2, <2>3, ChangeKeeps
  <2>5. OneTaskPerCharger' /\ LiveFollows'
    <3>1. \A h \in DOMAIN tasks : tasks'[h].id = tasks[h].id /\ tasks'[h].at = tasks[h].at
      BY <2>1, <2>2, <2>4
    <3> QED
      BY <1>2, <2>4, <3>1, Held DEF OrderInv, OneTaskPerCharger, LiveFollows
  <2>6. CommandsRise'
    BY <1>1, <1>2, TakenInOrder DEF OrderInv, CommandsRise
  <2>7. ASSUME tasks[g].at # "aborted" PROVE InOrder(tasks[g])'
    <3>1. /\ \A k \in DOMAIN t.queue :
               \/ k \in DOMAIN tasks[g].queue /\ t.queue[k] = tasks[g].queue[k]
                  /\ k < Len(tasks[g].queue) + 1 /\ t.queue[k] < m
               \/ k = Len(tasks[g].queue) + 1 /\ t.queue[k] = m
          /\ \A k \in DOMAIN t.queue : k \in Nat
          /\ Len(tasks[g].queue) \in Nat
      <4>1. \A k \in DOMAIN tasks[g].queue : tasks[g].queue[k] < m
        BY <1>1, <2>1, <2>7, TakenInOrder
      <4> DEFINE q == tasks[g].queue
      <4>2. q \in Seq(Nat) /\ t.queue = Append(q, m) /\ m \in Nat
        BY <2>1, <2>2
      <4>3. \A k \in DOMAIN q : q[k] < m
        BY <4>1
      <4> HIDE DEF q
      <4>4. /\ \A k \in DOMAIN t.queue :
                 \/ k \in DOMAIN q /\ t.queue[k] = q[k] /\ k < Len(q) + 1
                 \/ k = Len(q) + 1 /\ t.queue[k] = m
            /\ \A k \in DOMAIN t.queue : k \in Nat
            /\ Len(q) \in Nat
        BY <4>2
      <4> QED
        BY <4>3, <4>4 DEF q
    <3>2. InOrder(tasks[g])
      BY <2>1, <2>7 DEF OrderInv, WorkInOrder
    <3>3. \A k \in DOMAIN t.queue :
            /\ dropped[id] < t.queue[k] /\ begun[id] < t.queue[k] /\ t.queue[k] <= given
            /\ \A i \in DOMAIN commands' : t.queue[k] < commands'[i].n
      BY <1>1, <2>1, <3>1, <3>2, TakenInOrder, Held DEF InOrder
    <3>4. \A k, l \in DOMAIN t.queue : k < l => t.queue[k] < t.queue[l]
      BY <3>1, <3>2 DEF InOrder
    <3>5. t.at = "applying" => dropped[id] < t.job
      BY <2>1, <2>2, <3>2 DEF InOrder
    <3>6. tasks'[g] = t /\ t.id = id /\ UNCHANGED <<given, dropped, begun>>
      BY <1>1, <1>2, <2>2, <2>4
    <3> HIDE DEF id
    <3> QED
      BY <3>3, <3>4, <3>5, <3>6 DEF InOrder
  <2>8. ASSUME NEW h \in DOMAIN tasks, h # g, tasks[h].at # "aborted" PROVE InOrder(tasks[h])'
    <3>1. tasks'[h] = tasks[h] /\ InOrder(tasks[h])
      BY <2>4, <2>8 DEF OrderInv, WorkInOrder
    <3>2. \A i \in DOMAIN commands' : \E j \in DOMAIN commands : commands'[i] = commands[j]
      BY <1>1, TakenInOrder
    <3> QED
      BY <1>1, <1>2, <3>1, <3>2 DEF InOrder
  <2>9. WorkInOrder'
    BY <2>1, <2>2, <2>4, <2>7, <2>8 DEF WorkInOrder
  <2> QED
    BY <2>5, <2>6, <2>9 DEF OrderInv
<1> QED
  BY <1>3, <1>4

\* A task that begins a command takes the first of its queue, which is later than
\* all it began before; any other step of it leaves its queue alone.
LEMMA RunDeviceKeepsOrder ==
  ASSUME BackendTypeOK, OrderInv, NEW g \in DOMAIN tasks, RunDevice(g)
  PROVE  OrderInv'
<1> DEFINE id == tasks[g].id
           q == tasks[g].queue
<1>1. /\ DOMAIN tasks' = DOMAIN tasks
      /\ \A h \in DOMAIN tasks : h # g => tasks'[h] = tasks[h]
      /\ tasks[g].at # "aborted" /\ tasks'[g].at # "aborted" /\ tasks'[g].id = id
      /\ UNCHANGED <<given, commands, live, dropped>>
  BY RunDeviceKeeps, RunDeviceSays
<1>2. OneTaskPerCharger' /\ LiveFollows'
  BY <1>1, Held DEF OrderInv, OneTaskPerCharger, LiveFollows
<1>3. InOrder(tasks[g]) /\ id \in Chargers /\ live[id] = g
  BY <1>1, Held DEF OrderInv, WorkInOrder, OneTaskPerCharger
<1>4. CASE tasks'[g].queue = q /\ tasks'[g].at # "applying" /\ begun' = begun
  <2>1. CommandsRise'
    BY <1>1, <1>4 DEF OrderInv, CommandsRise
  <2>2. InOrder(tasks[g])'
    BY <1>1, <1>3, <1>4 DEF InOrder
  <2>3. ASSUME NEW h \in DOMAIN tasks, h # g, tasks[h].at # "aborted" PROVE InOrder(tasks[h])'
    BY <1>1, <1>4, <2>3 DEF OrderInv, WorkInOrder, InOrder
  <2>4. WorkInOrder'
    BY <1>1, <2>2, <2>3 DEF WorkInOrder
  <2> QED
    BY <1>2, <2>1, <2>4 DEF OrderInv
<1>5. CASE ApplyStarts(g)
  <2>1. /\ q # <<>> /\ q \in Seq(Nat) /\ tasks[g] \in TaskType
        /\ begun' = [begun EXCEPT ![id] = Head(q)]
        /\ tasks' = [tasks EXCEPT ![g].at = "applying", ![g].job = Head(q), ![g].queue = Tail(q)]
    BY <1>5, Held DEF ApplyStarts
  <2>2. tasks'[g].queue = Tail(q) /\ tasks'[g].job = Head(q)
    BY <2>1 DEF TaskType
  <2>3. /\ begun'[id] = Head(q)
        /\ \A c \in Chargers : c # id => begun'[c] = begun[c]
    BY <1>3, <2>1 DEF BackendTypeOK
  <2> HIDE DEF q
  <2>4. /\ 1 \in DOMAIN q /\ Head(q) = q[1] /\ Head(q) \in Nat
        /\ \A k \in DOMAIN Tail(q) : /\ k \in Nat /\ k + 1 \in DOMAIN q /\ 1 < k + 1
                                     /\ Tail(q)[k] = q[k + 1]
    BY <2>1
  <2>5. /\ \A k \in DOMAIN q : /\ dropped[id] < q[k] /\ begun[id] < q[k] /\ q[k] <= given
                               /\ \A i \in DOMAIN commands : q[k] < commands[i].n
        /\ \A k, l \in DOMAIN q : k < l => q[k] < q[l]
    BY <1>3 DEF InOrder, q
  <2>6. CommandsRise'
    BY <1>1, <1>3, <2>3, <2>4, <2>5 DEF OrderInv, CommandsRise
  <2>7. InOrder(tasks[g])'
    <3>1. \A k, l \in DOMAIN Tail(q) : k < l => k + 1 < l + 1
      BY <2>4
    <3>2. /\ \A k \in DOMAIN Tail(q) :
               /\ dropped[id] < Tail(q)[k] /\ Head(q) < Tail(q)[k] /\ Tail(q)[k] <= given
               /\ \A i \in DOMAIN commands : Tail(q)[k] < commands[i].n
          /\ \A k, l \in DOMAIN Tail(q) : k < l => Tail(q)[k] < Tail(q)[l]
          /\ dropped[id] < Head(q)
      BY <2>4, <2>5, <3>1
    <3> HIDE DEF id
    <3> QED
      BY <1>1, <2>2, <2>3, <3>2 DEF InOrder
  <2>8. ASSUME NEW h \in DOMAIN tasks, h # g, tasks[h].at # "aborted" PROVE InOrder(tasks[h])'
    <3>1. InOrder(tasks[h]) /\ tasks'[h] = tasks[h] /\ tasks[h].id # id
          /\ tasks[h].id \in Chargers
      BY <1>1, <1>3, <2>8, Held DEF OrderInv, WorkInOrder, OneTaskPerCharger
    <3> QED
      BY <1>1, <2>3, <3>1 DEF InOrder
  <2>9. WorkInOrder'
    BY <1>1, <2>7, <2>8 DEF WorkInOrder
  <2> QED
    BY <1>2, <2>6, <2>9 DEF OrderInv
<1> QED
  BY <1>4, <1>5, RunDeviceKeeps

\* Steps that touch neither the commands nor the tasks.
LEMMA RestKeepsOrder ==
  ASSUME OrderInv, UNCHANGED <<given, commands, tasks, live, dropped, begun>>
  PROVE  OrderInv'
<1>1. OneTaskPerCharger' /\ LiveFollows'
  BY DEF OrderInv, OneTaskPerCharger, LiveFollows
<1>2. CommandsRise' /\ WorkInOrder'
  BY DEF OrderInv, CommandsRise, WorkInOrder, InOrder
<1> QED
  BY <1>1, <1>2 DEF OrderInv

LEMMA SuperviseKeepsOrder ==
  ASSUME BackendTypeOK, OrderInv, Supervise PROVE OrderInv'
<1>1. CASE ScanStarts
  BY <1>1, TakesKeeps, TakingKeepsOrder DEF ScanStarts
<1>2. CASE ScanEnds
  BY <1>2, RestKeepsOrder DEF ScanEnds
<1>3. CASE BindStarts
  BY <1>3, TakesKeeps, TakingKeepsOrder DEF BindStarts
<1>4. CASE BindEnds
  <2>1. CASE Follow(busy.id)
    <3>1. busy.id \in Chargers
      BY <1>4 DEF BindEnds, BackendTypeOK, CommandType, Idle
    <3>2. UNCHANGED <<given, commands, dropped, begun>>
      BY <1>4 DEF BindEnds
    <3>3. CommandsRise'
      BY <3>2 DEF OrderInv, CommandsRise
    <3> QED
      BY <2>1, <3>1, <3>2, <3>3, FollowingKeepsOrder
  <2>2. CASE UNCHANGED <<store, live, tasks>>
    BY <1>4, <2>2, RestKeepsOrder DEF BindEnds
  <2> QED
    BY <1>4, <2>1, <2>2 DEF BindEnds
<1>5. CASE Connect
  <2> DEFINE id == Head(commands).id
  <2>1. /\ commands # <<>> /\ commands' = Tail(commands) /\ given' = given
        /\ id \in Chargers /\ UNCHANGED <<dropped, begun>>
    BY <1>5, TakesKeeps DEF Connect
  <2>2. CASE UNCHANGED <<live, tasks>>
    BY <2>1, <2>2, TakingKeepsOrder
  <2>3. CASE Follow(id)
    <3>1. CommandsRise'
      BY <2>1, TakenInOrder DEF OrderInv, CommandsRise
    <3>2. \A i \in DOMAIN commands' : \E j \in DOMAIN commands : commands'[i] = commands[j]
      BY <2>1, TakenInOrder
    <3> HIDE DEF id
    <3> QED
      BY <2>1, <2>3, <3>1, <3>2, FollowingKeepsOrder
  <2> QED
    BY <1>5, <2>2, <2>3 DEF Connect
<1>6. CASE Disconnect
  BY <1>6, DisconnectKeepsOrder
<1>7. CASE Task
  BY <1>7, TaskKeepsOrder
<1> QED
  BY <1>1, <1>2, <1>3, <1>4, <1>5, <1>6, <1>7 DEF Supervise

LEMMA OrderStep ==
  ASSUME BackendTypeOK, OrderInv, [BackendNext]_backend PROVE OrderInv'
<1>1. CASE Supervise
  BY <1>1, SuperviseKeepsOrder
<1>2. ASSUME NEW g \in DOMAIN tasks, RunDevice(g) PROVE OrderInv'
  BY <1>2, RunDeviceKeepsOrder
<1>3. CASE AnyWindow
  <2>1. CASE Give([op |-> "Scan", n |-> given'])
    <3>1. given' = given + 1
      BY <2>1 DEF Give
    <3> QED
      BY <2>1, <3>1, GivingKeepsOrder
  <2>2. CASE \E op \in {"Bind", "Connect", "Disconnect", "Task"}, id \in Chargers :
               Give([op |-> op, id |-> id, n |-> given'])
    <3>1. PICK op \in {"Bind", "Connect", "Disconnect", "Task"}, id \in Chargers :
               Give([op |-> op, id |-> id, n |-> given'])
      BY <2>2
    <3>2. given' = given + 1
      BY <3>1 DEF Give
    <3> QED
      BY <3>1, <3>2, GivingKeepsOrder
  <2>3. CASE TakeUpdate
    BY <2>3, RestKeepsOrder DEF TakeUpdate
  <2> QED
    BY <1>3, <2>1, <2>2, <2>3 DEF AnyWindow
<1>4. CASE UNCHANGED backend
  BY <1>4, RestKeepsOrder DEF backend
<1> QED
  BY <1>1, <1>2, <1>3, <1>4 DEF BackendNext

LEMMA OrderInit ==
  ASSUME InitBackend PROVE OrderInv
<1>1. /\ commands = <<[op |-> "Scan", n |-> 1]>> /\ given = 1 /\ tasks = <<>>
      /\ live = [id \in Chargers |-> None]
      /\ dropped = [id \in Chargers |-> 0] /\ begun = [id \in Chargers |-> 0]
  BY DEF InitBackend
<1>2. DOMAIN commands = {1} /\ commands[1].n = 1 /\ DOMAIN tasks = {}
  BY <1>1
<1> QED
  BY <1>1, <1>2 DEF OrderInv, OneTaskPerCharger, LiveFollows, CommandsRise, WorkInOrder

LEMMA OrderHolds == BackendSpec => [](BackendTypeOK /\ OrderInv)
<1>1. InitBackend => BackendTypeOK /\ OrderInv
  BY TypesInit, OrderInit
<1>2. BackendTypeOK /\ OrderInv /\ [BackendNext]_backend => (BackendTypeOK /\ OrderInv)'
  BY TypesStep, OrderStep
<1> QED
  BY <1>1, <1>2, PTL DEF BackendSpec

\* No charger is ever followed by two tasks, or by one that cannot be stopped.
THEOREM TasksAreFollowed == BackendSpec => []OneTaskPerCharger
<1>1. OrderInv => OneTaskPerCharger
  BY DEF OrderInv
<1> QED
  BY <1>1, OrderHolds, PTL

\* No charger carries out a command from before it was told to disconnect.
THEOREM DisconnectEndsWork == BackendSpec => []NoCommandOutlivesDisconnect
<1>1. BackendTypeOK /\ OrderInv => NoCommandOutlivesDisconnect
  BY Held DEF OrderInv, WorkInOrder, InOrder, NoCommandOutlivesDisconnect
<1> QED
  BY <1>1, OrderHolds, PTL

\* A task that begins a command begins a later one than all before.
Later == \A g \in DOMAIN tasks :
           (tasks[g].at # "applying" /\ tasks'[g].at = "applying")
             => tasks'[g].job > begun[tasks[g].id]

LEMMA LaterStep ==
  ASSUME BackendTypeOK, OrderInv, [BackendNext]_backend PROVE [Later]_backend
<1> USE DEF Later
<1>1. ASSUME NEW h \in DOMAIN tasks, RunDevice(h) PROVE Later
  <2>1. \A g \in DOMAIN tasks : g # h => tasks'[g] = tasks[g]
    BY <1>1, RunDeviceKeeps
  <2>2. CASE ApplyStarts(h)
    <3>1. /\ tasks[h].at # "aborted" /\ tasks[h].queue # <<>>
          /\ tasks[h].queue \in Seq(Nat) /\ tasks[h] \in TaskType
      BY <2>2, Held DEF ApplyStarts
    <3>2. tasks'[h].job = Head(tasks[h].queue)
      BY <2>2, <3>1 DEF ApplyStarts, TaskType
    <3>3. 1 \in DOMAIN tasks[h].queue /\ Head(tasks[h].queue) = tasks[h].queue[1]
      BY <3>1
    <3>4. begun[tasks[h].id] < tasks[h].queue[1]
      BY <3>1, <3>3 DEF OrderInv, WorkInOrder, InOrder
    <3> QED
      BY <2>1, <3>2, <3>3, <3>4
  <2>3. CASE tasks'[h].at # "applying"
    BY <2>1, <2>3
  <2> QED
    BY <1>1, <2>2, <2>3, RunDeviceKeeps
<1>2. ASSUME \A g \in DOMAIN tasks : tasks'[g].at # "applying" \/ tasks'[g].at = tasks[g].at
      PROVE  Later
  BY <1>2
<1>3. CASE Supervise
  <2>1. ASSUME NEW id \in Chargers, Follow(id) PROVE Later
    BY <2>1, FollowKeeps, Held, TaskParts
  <2>2. ASSUME UNCHANGED tasks PROVE Later
    BY <2>2
  <2>3. CASE Disconnect
    <3>1. Head(commands).id \in Chargers /\ tasks' = StopTask(Head(commands).id)
      BY <2>3, TakesKeeps DEF Disconnect
    <3>2. \A g \in DOMAIN tasks : tasks'[g] = tasks[g] \/ tasks'[g] = Gone(tasks[g])
      BY <3>1, StopTaskKeeps
    <3> QED
      BY <3>2, Held, TaskParts
  <2>4. CASE Task
    <3>1. \A g \in DOMAIN tasks : tasks'[g].at = tasks[g].at
      BY <2>4, Held DEF Task, TaskType
    <3> QED
      BY <1>2, <3>1
  <2>5. CASE Connect
    <3>1. Head(commands).id \in Chargers
      BY <2>5, TakesKeeps DEF Connect
    <3> QED
      BY <2>1, <2>2, <2>5, <3>1 DEF Connect
  <2>6. CASE BindEnds
    <3>1. busy.id \in Chargers
      BY <2>6 DEF BindEnds, BackendTypeOK, CommandType, Idle
    <3> QED
      BY <2>1, <2>2, <2>6, <3>1 DEF BindEnds
  <2> QED
    BY <1>3, <2>2, <2>3, <2>4, <2>5, <2>6 DEF Supervise, ScanStarts, ScanEnds, BindStarts
<1>4. CASE AnyWindow
  <2>1. UNCHANGED tasks
    BY <1>4 DEF AnyWindow, Give, TakeUpdate
  <2> QED
    BY <2>1
<1> QED
  BY <1>1, <1>3, <1>4 DEF BackendNext

\* Task commands are carried out in the order given, each at most once.
THEOREM WorkIsInOrder == BackendSpec => CommandsInOrderOnce
<1>1. BackendSpec => [][Later]_backend
  BY LaterStep, OrderHolds, PTL DEF BackendSpec
<1> QED
  BY <1>1 DEF CommandsInOrderOnce, Later
-----------------------------------------------------------------------------
(* Closing a tab                                                           *)

LEMMA NatLessWellFounded ==
  IsWellFoundedOn({p \in Nat \X Nat : p[1] < p[2]}, Nat)
  BY NatLessThanWellFounded, Zenon DEF OpToRel

\* Induction, for a set of numbers.
LEMMA Induction ==
  ASSUME NEW S \in SUBSET Nat, 0 \in S, \A n \in S : n + 1 \in S
  PROVE  S = Nat
<1> SUFFICES ASSUME Nat \ S # {} PROVE FALSE
  OBVIOUS
<1> DEFINE R == {p \in Nat \X Nat : p[1] < p[2]}
           T == Nat \ S
<1>1. \A x, y \in Nat : y < x => <<y, x>> \in R
  OBVIOUS
<1>2. IsWellFoundedOn(R, Nat)
  BY NatLessWellFounded
<1>3. T \subseteq Nat /\ T # {}
  OBVIOUS
<1> HIDE DEF R, T
<1>4. PICK x \in T : \A y \in T : ~ (<<y, x>> \in R)
  BY <1>2, <1>3, WFMin, Zenon
<1>5. \A y \in T : ~ (y < x)
  BY <1>1, <1>3, <1>4
<1> QED
  BY <1>3, <1>4, <1>5 DEF T

\* The recursion of Others has a solution.
OneMore(ds, id, k, n) ==
  IF n = 0 THEN <<>>
  ELSE IF ds[n].id = id THEN k[n - 1] ELSE Append(k[n - 1], ds[n])

LEMMA OthersExist ==
  ASSUME NEW ds, NEW id, NEW N \in Nat
  PROVE  \E k : k = [n \in 0 .. N |-> OneMore(ds, id, k, n)]
<1> DEFINE Next1(k, n) == OneMore(ds, id, k, n)
           K == {m \in Nat : \E k : k = [n \in 0 .. m |-> Next1(k, n)]}
<1>1. 0 \in K
  <2> DEFINE g == [n \in 0 .. 0 |-> <<>>]
  <2>1. g = [n \in 0 .. 0 |-> Next1(g, n)]
    BY DEF OneMore
  <2> HIDE DEF g, Next1
  <2> QED
    BY <2>1
<1>2. ASSUME NEW m \in K PROVE m + 1 \in K
  <2>1. PICK k : k = [n \in 0 .. m |-> Next1(k, n)]
    OBVIOUS
  <2> DEFINE g == [n \in 0 .. m + 1 |-> Next1(k, n)]
  <2>2. m \in Nat
    OBVIOUS
  <2>3. \A n \in 0 .. m : n \in 0 .. m + 1 /\ g[n] = k[n]
    <3> HIDE DEF Next1
    <3> QED
      BY <2>1, <2>2
  <2>4. ASSUME NEW n \in 0 .. m + 1 PROVE Next1(k, n) = Next1(g, n)
    <3>1. n # 0 => n - 1 \in 0 .. m
      BY <2>2
    <3> HIDE DEF g
    <3> QED
      BY <2>3, <3>1 DEF OneMore
  <2>5. g = [n \in 0 .. m + 1 |-> Next1(g, n)]
    <3> HIDE DEF Next1
    <3> QED
      BY <2>4
  <2> HIDE DEF g, Next1
  <2> QED
    BY <2>2, <2>5
<1>3. K \in SUBSET Nat
  OBVIOUS
<1> HIDE DEF K
<1>4. N \in K
  BY <1>1, <1>2, <1>3, Induction
<1> QED
  BY <1>4 DEF K

\* What is left when a tab is closed: the tabs of the others.
LEMMA OthersStay ==
  ASSUME NEW S, NEW ds \in Seq(S), NEW id
  PROVE  /\ Others(ds, id) \in Seq(S)
         /\ \A i \in DOMAIN Others(ds, id) :
              Others(ds, id)[i].id # id /\ \E j \in DOMAIN ds : Others(ds, id)[i] = ds[j]
         /\ \A j \in DOMAIN ds : ds[j].id # id =>
              \E i \in DOMAIN Others(ds, id) : Others(ds, id)[i] = ds[j]
<1> DEFINE N == Len(ds)
           Next1(k, n) == OneMore(ds, id, k, n)
           IsKept(k) == k = [n \in 0 .. N |-> Next1(k, n)]
           kept == CHOOSE k : IsKept(k)
           Right(s, n) == /\ s \in Seq(S)
                          /\ \A i \in DOMAIN s : s[i].id # id /\ \E j \in 1 .. n : s[i] = ds[j]
                          /\ \A j \in 1 .. n : ds[j].id # id => \E i \in DOMAIN s : s[i] = ds[j]
           K == {m \in Nat : m <= N => Right(kept[m], m)}
<1>1. N \in Nat /\ DOMAIN ds = 1 .. N /\ \A j \in 1 .. N : ds[j] \in S
  OBVIOUS
<1>2. Others(ds, id) = kept[N]
  BY DEF Others, OneMore
<1>3. IsKept(kept)
  <2>1. \E k : IsKept(k)
    <3> HIDE DEF N
    <3> QED
      BY <1>1, OthersExist
  <2> HIDE DEF IsKept
  <2> QED
    BY <2>1
<1>4. \A n \in 0 .. N : kept[n] = Next1(kept, n)
  <2> HIDE DEF Next1, kept
  <2> QED
    BY <1>3
<1> HIDE DEF N, IsKept, kept
<1>5. 0 \in K
  <2>1. kept[0] = <<>>
    BY <1>1, <1>4 DEF OneMore
  <2>2. Right(<<>>, 0)
    OBVIOUS
  <2> HIDE DEF Right
  <2> QED
    BY <2>1, <2>2
<1>6. ASSUME NEW m \in K PROVE m + 1 \in K
  <2> SUFFICES ASSUME m + 1 <= N PROVE Right(kept[m + 1], m + 1)
    OBVIOUS
  <2>1. m \in Nat /\ m + 1 \in 0 .. N /\ m + 1 \in 1 .. N /\ m + 1 # 0 /\ (m + 1) - 1 = m /\ m <= N
    BY <1>1
  <2>2. Right(kept[m], m) /\ ds[m + 1] \in S
    BY <1>1, <2>1
  <2>3. kept[m + 1] = IF ds[m + 1].id = id THEN kept[m] ELSE Append(kept[m], ds[m + 1])
    BY <1>4, <2>1 DEF OneMore
  <2>4. PICK s : s = kept[m]
    OBVIOUS
  <2>5. \A j \in 1 .. m + 1 : j \in 1 .. m \/ j = m + 1
    BY <2>1
  <2>6. \A j \in 1 .. m : j \in 1 .. m + 1
    BY <2>1
  <2>7. m + 1 \in 1 .. m + 1
    BY <2>1
  <2>8. CASE ds[m + 1].id = id
    BY <2>2, <2>3, <2>5, <2>6, <2>8
  <2>9. CASE ds[m + 1].id # id
    <3> DEFINE t == Append(s, ds[m + 1])
    <3>1. /\ t \in Seq(S) /\ DOMAIN t = 1 .. Len(s) + 1 /\ DOMAIN s = 1 .. Len(s) /\ Len(s) \in Nat
          /\ t[Len(s) + 1] = ds[m + 1] /\ \A i \in 1 .. Len(s) : t[i] = s[i]
      BY <2>2, <2>4
    <3> HIDE DEF t
    <3>2. \A i \in DOMAIN t : i \in DOMAIN s \/ i = Len(s) + 1
      BY <3>1
    <3>3. Len(s) + 1 \in DOMAIN t /\ \A i \in DOMAIN s : i \in DOMAIN t
      BY <3>1
    <3>4. \A i \in DOMAIN t : t[i].id # id /\ \E j \in 1 .. m + 1 : t[i] = ds[j]
      BY <2>2, <2>4, <2>6, <2>7, <2>9, <3>1, <3>2
    <3>5. ASSUME NEW j \in 1 .. m + 1, ds[j].id # id PROVE \E i \in DOMAIN t : t[i] = ds[j]
      <4>1. CASE j = m + 1
        BY <3>1, <3>3, <4>1
      <4>2. CASE j \in 1 .. m
        <5>1. PICK i \in DOMAIN s : s[i] = ds[j]
          BY <2>2, <2>4, <3>5, <4>2
        <5> QED
          BY <3>1, <3>3, <5>1
      <4> QED
        BY <2>5, <4>1, <4>2
    <3>6. kept[m + 1] = t
      BY <2>3, <2>4, <2>9 DEF t
    <3> QED
      BY <3>1, <3>4, <3>5, <3>6
  <2> QED
    BY <2>8, <2>9
<1>7. K \in SUBSET Nat
  OBVIOUS
<1>8. N \in K
  <2> HIDE DEF K
  <2> QED
    BY <1>1, <1>5, <1>6, <1>7, Induction
<1>9. Right(kept[N], N)
  BY <1>1, <1>8
<1>10. PICK s : s = kept[N]
  OBVIOUS
<1> HIDE DEF K
<1>11. Right(s, N) /\ Others(ds, id) = s
  <2> HIDE DEF Right
  <2> QED
    BY <1>2, <1>9, <1>10
<1> QED
  BY <1>1, <1>11
-----------------------------------------------------------------------------
(* Types, and the window as one that Backend allows                        *)

LEMMA Tabs ==
  ASSUME TypeOK
  PROVE  /\ devices \in Seq(DeviceType) /\ Len(devices) \in Nat
         /\ DOMAIN devices = 1 .. Len(devices) /\ selected \in Nat
         /\ devices # <<>> => Len(devices) > 0 /\ selected <= Len(devices) - 1
         /\ devices = <<>> => selected = 0
         /\ \A i \in DOMAIN devices : devices[i] \in DeviceType
<1>1. devices \in Seq(DeviceType)
  BY DEF TypeOK
<1>2. /\ Len(devices) \in Nat /\ DOMAIN devices = 1 .. Len(devices)
      /\ devices # <<>> => Len(devices) > 0
      /\ \A i \in DOMAIN devices : devices[i] \in DeviceType
  BY <1>1
<1> QED
  BY <1>1, <1>2 DEF TypeOK

\* The message the window applies.
LEMMA HeadOfUpdates ==
  ASSUME BackendTypeOK, updates # <<>>
  PROVE  /\ Head(updates) \in UpdateType
         /\ Head(updates).kind = "Found" => Head(updates).rows \subseteq RowType
         /\ Head(updates).kind \in {"Status", "Notice", "Reading"} => Head(updates).id \in Chargers
         /\ Head(updates).kind = "Status" => Head(updates).status \in LinkStatus \union {"Closed"}
         /\ Head(updates).kind = "Reading" => Head(updates).running \in Settings \union {None}
<1>1. Head(updates) \in UpdateType
  BY DEF BackendTypeOK
<1> QED
  BY <1>1 DEF UpdateType

\* device_mut finds a tab, or adds one at the end.
LEMMA WithDeviceTypes ==
  ASSUME TypeOK, NEW id \in Chargers
  PROVE  /\ WithDevice(id) \in Seq(DeviceType) /\ WithDevice(id) # <<>>
         /\ Len(WithDevice(id)) >= Len(devices)
         /\ devices = <<>> => Len(WithDevice(id)) = 1
<1>1. NewDevice(id) \in DeviceType
  BY SettingsAssumption DEF NewDevice, DeviceType, LinkStatus
<1> QED
  BY <1>1, Tabs DEF WithDevice

LEMMA SameLength ==
  ASSUME NEW T, NEW w \in Seq(T), NEW v, DOMAIN v = DOMAIN w,
         v = [i \in DOMAIN w |-> v[i]], \A i \in DOMAIN w : v[i] \in T
  PROVE  v \in Seq(T) /\ Len(v) = Len(w)
<1>1. DOMAIN w = 1 .. Len(w) /\ Len(w) \in Nat
  OBVIOUS
<1>2. v \in [1 .. Len(w) -> T]
  BY <1>1
<1> QED
  BY <1>1, <1>2

LEMMA ApplyTypes ==
  ASSUME TypeOK, BackendTypeOK', Apply PROVE TypeOK'
<1> DEFINE u == Head(updates)
<1>1. updates # <<>> /\ BackendTypeOK
  BY DEF Apply, TakeUpdate, TypeOK
<1>2. CASE ApplyFound
  BY <1>1, <1>2, HeadOfUpdates DEF ApplyFound, TypeOK
<1>3. CASE ApplyClosed
  <2>1. devices' \in Seq(DeviceType)
    BY <1>3, Tabs, OthersStay DEF ApplyClosed
  <2>2. /\ Len(devices') \in Nat /\ (devices' # <<>> => Len(devices') > 0) /\ Len(<<>>) = 0
    BY <2>1
  <2>3. selected' \in IF devices' = <<>> THEN {0} ELSE 0 .. (Len(devices') - 1)
    <3>1. selected' = IF selected < Len(devices') THEN selected
                      ELSE IF devices' = <<>> THEN 0 ELSE Len(devices') - 1
      BY <1>3 DEF ApplyClosed
    <3>2. selected \in Nat
      BY Tabs
    <3>3. CASE devices' = <<>>
      BY <2>2, <3>1, <3>2, <3>3
    <3>4. CASE devices' # <<>>
      BY <2>2, <3>1, <3>2, <3>4
    <3> QED
      BY <3>3, <3>4
  <2>4. discovering' \in BOOLEAN
    BY <1>3 DEF ApplyClosed, TypeOK
  <2> QED
    BY <1>3, <2>1, <2>3, <2>4 DEF ApplyClosed, TypeOK
<1>4. ASSUME NEW id \in Chargers, devices' \in Seq(DeviceType),
             Len(devices') = Len(WithDevice(id))
      PROVE  /\ devices' # <<>>
             /\ selected \in 0 .. (Len(devices') - 1)
  <2>1. Len(devices') >= 1 /\ Len(devices') >= Len(devices) /\ Len(devices') \in Nat
    BY <1>4, WithDeviceTypes
  <2>2. Len(<<>>) = 0
    OBVIOUS
  <2> QED
    BY <2>1, <2>2, Tabs
<1>5. CASE ApplyStatus
  <2>1. u.id \in Chargers /\ u.status \in LinkStatus
    BY <1>1, <1>5, HeadOfUpdates DEF ApplyStatus
  <2>2. devices' \in Seq(DeviceType) /\ Len(devices') = Len(WithDevice(u.id))
    <3> DEFINE w == WithDevice(u.id)
    <3>1. w \in Seq(DeviceType)
      BY <2>1, WithDeviceTypes
    <3>2. devices' = [i \in DOMAIN w |-> IF w[i].id = u.id
                                          THEN [w[i] EXCEPT !.status = u.status, !.told = TRUE]
                                          ELSE w[i]]
      BY <1>5 DEF ApplyStatus, Changed
    <3> HIDE DEF w, u
    <3>3. ASSUME NEW i \in DOMAIN w PROVE devices'[i] \in DeviceType
      <4>1. w[i] \in DeviceType
        BY <3>1
      <4>2. CASE w[i].id = u.id
        <5>1. devices'[i] = [w[i] EXCEPT !.status = u.status, !.told = TRUE]
          BY <3>2, <4>2
        <5> QED
          BY <2>1, <4>1, <5>1 DEF DeviceType
      <4>3. CASE w[i].id # u.id
        BY <3>2, <4>1, <4>3
      <4> QED
        BY <4>2, <4>3
    <3>4. DOMAIN devices' = DOMAIN w /\ devices' = [i \in DOMAIN w |-> devices'[i]]
      BY <3>2
    <3>5. devices' \in Seq(DeviceType) /\ Len(devices') = Len(w)
      BY <3>1, <3>3, <3>4, SameLength
    <3> QED
      BY <3>5 DEF w
  <2>3. discovering' \in BOOLEAN /\ selected' = selected /\ rows' = rows
    BY <1>5, Tabs DEF ApplyStatus, TypeOK
  <2> QED
    BY <1>4, <2>1, <2>2, <2>3 DEF TypeOK
<1>6. CASE ApplyReading
  <2>1. u.id \in Chargers /\ u.running \in Settings \union {None}
    BY <1>1, <1>6, HeadOfUpdates DEF ApplyReading
  <2>2. devices' \in Seq(DeviceType) /\ Len(devices') = Len(WithDevice(u.id))
    <3> DEFINE w == WithDevice(u.id)
    <3>1. w \in Seq(DeviceType)
      BY <2>1, WithDeviceTypes
    <3>2. devices' = [i \in DOMAIN w |-> IF w[i].id = u.id
                        THEN [w[i] EXCEPT !.running = u.running,
                                          !.setting = IF u.running = None THEN @ ELSE u.running]
                        ELSE w[i]]
      BY <1>6 DEF ApplyReading, Changed
    <3> HIDE DEF w, u
    <3>3. ASSUME NEW i \in DOMAIN w PROVE devices'[i] \in DeviceType
      <4>1. w[i] \in DeviceType
        BY <3>1
      <4>2. CASE w[i].id = u.id
        <5>1. devices'[i] = [w[i] EXCEPT !.running = u.running,
                               !.setting = IF u.running = None THEN @ ELSE u.running]
          BY <3>2, <4>2
        <5> QED
          BY <2>1, <4>1, <5>1 DEF DeviceType
      <4>3. CASE w[i].id # u.id
        BY <3>2, <4>1, <4>3
      <4> QED
        BY <4>2, <4>3
    <3>4. DOMAIN devices' = DOMAIN w /\ devices' = [i \in DOMAIN w |-> devices'[i]]
      BY <3>2
    <3>5. devices' \in Seq(DeviceType) /\ Len(devices') = Len(w)
      BY <3>1, <3>3, <3>4, SameLength
    <3> QED
      BY <3>5 DEF w
  <2> QED
    BY <1>4, <1>6, <2>1, <2>2 DEF ApplyReading, TypeOK
<1>7. CASE ApplyNotice
  <2>1. u.id \in Chargers
    BY <1>1, <1>7, HeadOfUpdates DEF ApplyNotice
  <2>2. devices' \in Seq(DeviceType) /\ Len(devices') = Len(WithDevice(u.id))
    BY <1>7, <2>1, WithDeviceTypes DEF ApplyNotice
  <2> QED
    BY <1>4, <1>7, <2>1, <2>2 DEF ApplyNotice, TypeOK
<1> QED
  BY <1>2, <1>3, <1>5, <1>6, <1>7 DEF Apply

\* What the user presses gives a command Backend knows, or none.
LEMMA UserIsAnyWindow ==
  ASSUME TypeOK, User PROVE AnyWindow \/ UNCHANGED backend
<1>1. Drawn => InFront.id \in Chargers
  BY Tabs DEF Drawn, InFront, DeviceType
<1>2. \A row \in rows : row.id \in Chargers
  BY DEF TypeOK, RowType
<1>3. CASE ClickTab
  BY <1>3 DEF ClickTab
<1>4. CASE AddCharger
  BY <1>4 DEF AddCharger, Send, AnyWindow
<1>5. CASE ScanAgain
  BY <1>5 DEF ScanAgain, Send, AnyWindow
<1>6. CASE ClickRow
  BY <1>2, <1>6 DEF ClickRow, Send, AnyWindow
<1>7. CASE ClickDisconnect
  BY <1>1, <1>7 DEF ClickDisconnect, Send, AnyWindow
<1>8. CASE ClickStart
  BY <1>1, <1>8 DEF ClickStart, Send, AnyWindow
<1>9. CASE ClickStop
  BY <1>1, <1>9 DEF ClickStop, Send, AnyWindow
<1>10. CASE ClickChip
  BY <1>10 DEF ClickChip
<1> QED
  BY <1>3, <1>4, <1>5, <1>6, <1>7, <1>8, <1>9, <1>10 DEF User

LEMMA UserTypes ==
  ASSUME TypeOK, BackendTypeOK', User PROVE TypeOK'
<1>1. CASE ClickTab
  <2>1. PICK i \in DOMAIN devices : selected' = i - 1
    BY <1>1 DEF ClickTab
  <2>2. selected' \in 0 .. (Len(devices) - 1) /\ devices # <<>>
    BY <2>1, Tabs
  <2> QED
    BY <1>1, <2>2 DEF ClickTab, TypeOK
<1>2. CASE ClickChip
  <2>1. PICK s \in Settings : devices' = [devices EXCEPT ![selected + 1].setting = s]
    BY <1>2 DEF ClickChip
  <2>2. devices' \in Seq(DeviceType) /\ Len(devices') = Len(devices) /\ devices # <<>>
    <3>1. devices[selected + 1] \in DeviceType /\ selected + 1 \in DOMAIN devices
      BY <1>2, Tabs DEF ClickChip, Drawn
    <3>2. [devices[selected + 1] EXCEPT !.setting = s] \in DeviceType
      BY <3>1 DEF DeviceType
    <3>3. devices' = [devices EXCEPT ![selected + 1] = [devices[selected + 1] EXCEPT !.setting = s]]
      BY <2>1, <3>1, Tabs
    <3> QED
      BY <3>1, <3>2, <3>3, Tabs
  <2>3. devices' # <<>>
    BY <2>2, Tabs
  <2> QED
    BY <1>2, <2>2, <2>3 DEF ClickChip, TypeOK
<1>3. CASE ~ClickTab /\ ~ClickChip
  <2>1. UNCHANGED <<devices, selected, rows>> /\ discovering' \in BOOLEAN
    BY <1>3 DEF User, AddCharger, ScanAgain, ClickRow, ClickDisconnect, ClickStart, ClickStop, TypeOK
  <2> QED
    BY <2>1 DEF TypeOK
<1> QED
  BY <1>1, <1>2, <1>3

\* Every step of the program is one of the charger thread under some window.
LEMMA StepIsBackends ==
  ASSUME TypeOK, [Next]_vars PROVE [BackendNext]_backend
<1>1. CASE (Supervise \/ \E g \in DOMAIN tasks : RunDevice(g)) /\ UNCHANGED window
  BY <1>1 DEF BackendNext
<1>2. CASE Apply
  BY <1>2 DEF Apply, AnyWindow, BackendNext
<1>3. CASE User
  BY <1>3, UserIsAnyWindow DEF BackendNext
<1>4. CASE UNCHANGED vars
  BY <1>4 DEF vars
<1> QED
  BY <1>1, <1>2, <1>3, <1>4 DEF Next

LEMMA DesktopTypes ==
  ASSUME TypeOK, [Next]_vars PROVE TypeOK'
<1>1. BackendTypeOK'
  BY StepIsBackends, TypesStep DEF TypeOK
<1>2. CASE (Supervise \/ \E g \in DOMAIN tasks : RunDevice(g)) /\ UNCHANGED window
  BY <1>1, <1>2 DEF window, TypeOK
<1>3. CASE Apply
  BY <1>1, <1>3, ApplyTypes
<1>4. CASE User
  BY <1>1, <1>4, UserTypes
<1>5. CASE UNCHANGED vars
  BY <1>1, <1>5 DEF vars, window, TypeOK
<1> QED
  BY <1>2, <1>3, <1>4, <1>5 DEF Next

LEMMA DesktopInit == Init => TypeOK
  BY TypesInit DEF Init, TypeOK

\* No tab is ever marked closed, and the tab in front is one of the tabs.
THEOREM TypeCorrect == Spec => []TypeOK
<1> QED
  BY DesktopInit, DesktopTypes, PTL DEF Spec

\* The program is the charger thread under one of the windows Backend allows:
\* what holds of BackendSpec holds of it.
THEOREM DesktopImplementsBackend == Spec => BackendSpec
<1>1. Init => InitBackend
  BY DEF Init
<1> QED
  BY <1>1, TypeCorrect, StepIsBackends, PTL DEF Spec, BackendSpec
-----------------------------------------------------------------------------
(* What the window shows, and what is on its way to it                     *)

StatusesOf(us, id) == { i \in DOMAIN us : us[i].kind = "Status" /\ us[i].id = id }

\* The tabs show a charger as s; one that is closed has no tab that had a status.
Shows(ds, id, s) ==
  IF s = "Closed" THEN \A i \in DOMAIN ds : ~(ds[i].id = id /\ ds[i].told)
  ELSE \E i \in DOMAIN ds : ds[i].id = id /\ ds[i].told /\ ds[i].status = s

\* The window was told s last, or will have been once it applied all updates.
Told(us, ds, id, s) ==
  \/ StatusesOf(us, id) = {} /\ Shows(ds, id, s)
  \/ \E m \in StatusesOf(us, id) : us[m].status = s /\ \A i \in StatusesOf(us, id) : i <= m

\* s is what there is to say of a charger: a task that has not begun leaves
\* standing what was said before.
Due(id, s) ==
  IF live[id] = None THEN s = "Closed"
  ELSE tasks[live[id]].at # "new" => s = Said(tasks[live[id]].at)

InTune == \A id \in Chargers :
            \E s \in LinkStatus \union {"Closed"} : Due(id, s) /\ Told(updates, devices, id, s)

\* A charger is followed by a task of its own that can still be aborted.
Followed == \A id \in Chargers :
              live[id] # None => tasks[live[id]].id = id /\ tasks[live[id]].at # "aborted"

\* Another update says nothing about the charger.
LEMMA OtherUpdate ==
  ASSUME NEW T, NEW us \in Seq(T), NEW x \in T, NEW ds, NEW id, NEW s,
         ~(x.kind = "Status" /\ x.id = id), Told(us, ds, id, s)
  PROVE  Told(Append(us, x), ds, id, s)
<1> DEFINE v == Append(us, x)
<1>1. /\ DOMAIN us = 1 .. Len(us) /\ DOMAIN v = 1 .. Len(us) + 1 /\ Len(us) \in Nat
      /\ v[Len(us) + 1] = x /\ \A i \in 1 .. Len(us) : v[i] = us[i]
  OBVIOUS
<1> HIDE DEF v
<1>2. \A i \in DOMAIN v : i \in DOMAIN us \/ i = Len(us) + 1
  BY <1>1
<1>3. \A i \in DOMAIN us : i \in DOMAIN v
  BY <1>1
<1>4. StatusesOf(v, id) = StatusesOf(us, id)
  BY <1>1, <1>2, <1>3 DEF StatusesOf
<1>5. \A i \in StatusesOf(us, id) : v[i] = us[i]
  BY <1>1 DEF StatusesOf
<1>6. Told(v, ds, id, s)
  BY <1>4, <1>5 DEF Told
<1> QED
  BY <1>6 DEF v

\* A status is the last that is said, once it is said.
LEMMA StatusSaid ==
  ASSUME NEW T, NEW us \in Seq(T), NEW x \in T, NEW ds, x.kind = "Status"
  PROVE  Told(Append(us, x), ds, x.id, x.status)
<1> DEFINE v == Append(us, x)
<1>1. /\ DOMAIN v = 1 .. Len(us) + 1 /\ Len(us) \in Nat /\ v[Len(us) + 1] = x
  OBVIOUS
<1> HIDE DEF v
<1>2. Len(us) + 1 \in StatusesOf(v, x.id) /\ \A i \in StatusesOf(v, x.id) : i <= Len(us) + 1
  BY <1>1 DEF StatusesOf
<1>3. Told(v, ds, x.id, x.status)
  BY <1>1, <1>2 DEF Told
<1> QED
  BY <1>3 DEF v

\* The first update is applied: es are the tabs after it.
LEMMA UpdateApplied ==
  ASSUME NEW T, NEW us \in Seq(T), us # <<>>, NEW ds, NEW es, NEW id, NEW s,
         IF Head(us).kind = "Status" /\ Head(us).id = id
         THEN Shows(es, id, Head(us).status)
         ELSE Shows(ds, id, s) => Shows(es, id, s),
         Told(us, ds, id, s)
  PROVE  Told(Tail(us), es, id, s)
<1> DEFINE v == Tail(us)
<1>1. /\ DOMAIN us = 1 .. Len(us) /\ DOMAIN v = 1 .. Len(us) - 1 /\ Len(us) \in Nat /\ Len(us) > 0
      /\ Head(us) = us[1] /\ \A i \in 1 .. Len(us) - 1 : v[i] = us[i + 1]
  OBVIOUS
<1> HIDE DEF v
<1>2. \A i \in StatusesOf(v, id) : i + 1 \in StatusesOf(us, id) /\ i \in Int
  BY <1>1 DEF StatusesOf
<1>3. \A i \in StatusesOf(us, id) : i # 1 => i - 1 \in StatusesOf(v, id) /\ v[i - 1] = us[i]
  BY <1>1 DEF StatusesOf
<1>4. \A i \in StatusesOf(us, id) : i \in Nat
  BY <1>1 DEF StatusesOf
<1>5. ASSUME StatusesOf(us, id) = {} PROVE Told(v, es, id, s)
  <2>1. StatusesOf(v, id) = {}
    BY <1>2, <1>5
  <2>2. ~(Head(us).kind = "Status" /\ Head(us).id = id)
    BY <1>1, <1>5 DEF StatusesOf
  <2> QED
    BY <1>5, <2>1, <2>2 DEF Told
<1>6. ASSUME NEW m \in StatusesOf(us, id), us[m].status = s, \A i \in StatusesOf(us, id) : i <= m
      PROVE  Told(v, es, id, s)
  <2>1. CASE m = 1
    <3>1. StatusesOf(v, id) = {}
      BY <1>1, <1>2, <1>6, <2>1 DEF StatusesOf
    <3>2. Head(us).kind = "Status" /\ Head(us).id = id /\ Head(us).status = s
      BY <1>1, <1>6, <2>1 DEF StatusesOf
    <3> QED
      BY <3>1, <3>2 DEF Told
  <2>2. CASE m # 1
    <3>1. m - 1 \in StatusesOf(v, id) /\ v[m - 1].status = s
      BY <1>3, <1>6, <2>2
    <3>2. \A i \in StatusesOf(v, id) : i <= m - 1
      BY <1>2, <1>4, <1>6
    <3> QED
      BY <3>1, <3>2 DEF Told
  <2> QED
    BY <2>1, <2>2
<1>7. Told(v, es, id, s)
  BY <1>5, <1>6 DEF Told
<1> QED
  BY <1>7 DEF v
\* An update applied shows what it says, and leaves alone what others said.
LEMMA AppliedShows ==
  ASSUME TypeOK, Apply, NEW id \in Chargers, NEW s \in LinkStatus \union {"Closed"}
  PROVE  IF Head(updates).kind = "Status" /\ Head(updates).id = id
         THEN Shows(devices', id, Head(updates).status)
         ELSE Shows(devices, id, s) => Shows(devices', id, s)
<1> DEFINE u == Head(updates)
           w == WithDevice(u.id)
<1>1. updates # <<>> /\ BackendTypeOK
  BY DEF Apply, TakeUpdate, TypeOK
<1>2. CASE ApplyFound
  BY <1>2 DEF ApplyFound
<1>3. ASSUME NEW c \in Chargers
      PROVE  /\ WithDevice(c) \in Seq(DeviceType)
             /\ \A i \in DOMAIN devices : i \in DOMAIN WithDevice(c) /\ WithDevice(c)[i] = devices[i]
             /\ \A i \in DOMAIN WithDevice(c) :
                  i \in DOMAIN devices \/ (WithDevice(c)[i].id = c /\ ~WithDevice(c)[i].told)
             /\ \E i \in DOMAIN WithDevice(c) : WithDevice(c)[i].id = c
  <2>1. CASE \E i \in DOMAIN devices : devices[i].id = c
    BY <2>1, Tabs DEF WithDevice
  <2>2. CASE ~ \E i \in DOMAIN devices : devices[i].id = c
    <3> DEFINE n == NewDevice(c)
               v == Append(devices, n)
    <3>1. WithDevice(c) = v
      BY <2>2 DEF WithDevice
    <3>2. n.id = c /\ n.told = FALSE
      BY DEF NewDevice
    <3>3. n \in DeviceType
      BY SettingsAssumption DEF NewDevice, DeviceType, LinkStatus
    <3> HIDE DEF n
    <3>4. /\ v \in Seq(DeviceType) /\ DOMAIN v = 1 .. Len(devices) + 1 /\ v[Len(devices) + 1] = n
          /\ \A i \in 1 .. Len(devices) : v[i] = devices[i]
      BY <3>3, Tabs
    <3> HIDE DEF v
    <3>5. /\ \A i \in DOMAIN v : i \in DOMAIN devices \/ i = Len(devices) + 1
          /\ Len(devices) + 1 \in DOMAIN v /\ \A i \in DOMAIN devices : i \in DOMAIN v
      BY <3>4, Tabs
    <3> QED
      BY <3>1, <3>2, <3>4, <3>5, Tabs
  <2> QED
    BY <2>1, <2>2
<1>4. CASE ApplyClosed
  <2>1. u.kind = "Status" /\ u.status = "Closed" /\ devices' = Others(devices, u.id)
    BY <1>4 DEF ApplyClosed
  <2>2. /\ \A i \in DOMAIN devices' :
             devices'[i].id # u.id /\ \E j \in DOMAIN devices : devices'[i] = devices[j]
        /\ \A j \in DOMAIN devices : devices[j].id # u.id =>
             \E i \in DOMAIN devices' : devices'[i] = devices[j]
    <3>1. PICK o : o = Others(devices, u.id)
      OBVIOUS
    <3>2. /\ \A i \in DOMAIN o : o[i].id # u.id /\ \E j \in DOMAIN devices : o[i] = devices[j]
          /\ \A j \in DOMAIN devices : devices[j].id # u.id => \E i \in DOMAIN o : o[i] = devices[j]
      <4> HIDE DEF u
      <4> QED
        BY <3>1, Tabs, OthersStay
    <3> QED
      BY <2>1, <3>1, <3>2
  <2> HIDE DEF u
  <2>3. CASE u.id = id
    BY <2>1, <2>2, <2>3 DEF Shows, u
  <2>4. CASE u.id # id
    <3>1. Shows(devices, id, s) => Shows(devices', id, s)
      BY <2>2, <2>4 DEF Shows
    <3> QED
      BY <2>4, <3>1 DEF u
  <2> QED
    BY <2>3, <2>4
<1>5. CASE ApplyStatus
  <2>1. u.kind = "Status" /\ u.id \in Chargers /\ u.status \in LinkStatus /\ u.status # "Closed"
    BY <1>1, <1>5, HeadOfUpdates DEF ApplyStatus
  <2>2. devices' = [i \in DOMAIN w |-> IF w[i].id = u.id
                                        THEN [w[i] EXCEPT !.status = u.status, !.told = TRUE]
                                        ELSE w[i]]
    BY <1>5 DEF ApplyStatus, Changed
  <2>3. /\ w \in Seq(DeviceType)
        /\ \A i \in DOMAIN devices : i \in DOMAIN w /\ w[i] = devices[i]
        /\ \A i \in DOMAIN w : i \in DOMAIN devices \/ (w[i].id = u.id /\ ~w[i].told)
        /\ \E i \in DOMAIN w : w[i].id = u.id
    BY <1>3, <2>1
  <2> HIDE DEF u, w
  <2>4. \A i \in DOMAIN w : w[i] \in DeviceType
    BY <2>3
  <2>5. CASE u.id = id
    <3>1. PICK i \in DOMAIN w : w[i].id = id
      BY <2>3, <2>5
    <3>2. i \in DOMAIN devices' /\ devices'[i] = [w[i] EXCEPT !.status = u.status, !.told = TRUE]
      BY <2>2, <2>5, <3>1
    <3>3. devices'[i].id = id /\ devices'[i].told /\ devices'[i].status = u.status
      BY <2>4, <3>1, <3>2 DEF DeviceType
    <3> QED
      BY <2>1, <2>5, <3>2, <3>3 DEF Shows, u
  <2>6. CASE u.id # id
    <3>1. DOMAIN devices' = DOMAIN w
      BY <2>2
    <3>2. \A i \in DOMAIN w : w[i].id # u.id => devices'[i] = w[i]
      BY <2>2
    <3>3. \A i \in DOMAIN w : w[i].id = u.id => devices'[i].id = u.id
      BY <2>2, <2>4 DEF DeviceType
    <3>4. Shows(devices, id, s) => Shows(devices', id, s)
      BY <2>3, <2>6, <3>1, <3>2, <3>3 DEF Shows
    <3> QED
      BY <2>6, <3>4 DEF u
  <2> QED
    BY <2>5, <2>6
<1>6. CASE ApplyReading
  <2>1. u.kind = "Reading" /\ u.id \in Chargers
    BY <1>1, <1>6, HeadOfUpdates DEF ApplyReading
  <2>2. devices' = [i \in DOMAIN w |-> IF w[i].id = u.id
                      THEN [w[i] EXCEPT !.running = u.running,
                                        !.setting = IF u.running = None THEN @ ELSE u.running]
                      ELSE w[i]]
    BY <1>6 DEF ApplyReading, Changed
  <2>3. /\ w \in Seq(DeviceType)
        /\ \A i \in DOMAIN devices : i \in DOMAIN w /\ w[i] = devices[i]
        /\ \A i \in DOMAIN w : i \in DOMAIN devices \/ (w[i].id = u.id /\ ~w[i].told)
    BY <1>3, <2>1
  <2> HIDE DEF u, w
  <2>4. DOMAIN devices' = DOMAIN w
    BY <2>2
  <2>5. ASSUME NEW i \in DOMAIN w
        PROVE  /\ devices'[i].id = w[i].id /\ devices'[i].told = w[i].told
               /\ devices'[i].status = w[i].status
    <3>1. w[i] \in DeviceType
      BY <2>3
    <3>2. CASE w[i].id = u.id
      <4>1. devices'[i] = [w[i] EXCEPT !.running = u.running,
                                       !.setting = IF u.running = None THEN @ ELSE u.running]
        BY <2>2, <3>2
      <4> QED
        BY <3>1, <4>1 DEF DeviceType
    <3>3. CASE w[i].id # u.id
      BY <2>2, <3>3
    <3> QED
      BY <3>2, <3>3
  <2>6. Shows(devices, id, s) => Shows(devices', id, s)
    BY <2>3, <2>4, <2>5 DEF Shows
  <2> QED
    BY <2>1, <2>6 DEF u
<1>7. CASE ApplyNotice
  <2>1. u.kind = "Notice" /\ u.id \in Chargers /\ devices' = w
    BY <1>1, <1>7, HeadOfUpdates DEF ApplyNotice
  <2>2. /\ \A i \in DOMAIN devices : i \in DOMAIN w /\ w[i] = devices[i]
        /\ \A i \in DOMAIN w : i \in DOMAIN devices \/ (w[i].id = u.id /\ ~w[i].told)
    BY <1>3, <2>1
  <2> HIDE DEF u, w
  <2>3. Shows(devices, id, s) => Shows(devices', id, s)
    BY <2>1, <2>2 DEF Shows
  <2> QED
    BY <2>1, <2>3 DEF u
<1> QED
  BY <1>2, <1>4, <1>5, <1>6, <1>7 DEF Apply
-----------------------------------------------------------------------------
(* The steps of the charger thread                                         *)

LEMMA EndOfQueue ==
  ASSUME NEW T, NEW s \in Seq(T), NEW x \in T, NEW y \in T
  PROVE  /\ s \o <<x>> = Append(s, x) /\ s \o <<x, y>> = Append(Append(s, x), y)
         /\ Append(s, x) \in Seq(T)
  OBVIOUS

\* What a task says is about its charger: it moves on within a connection, with
\* an update that is no status at most, or says where it is now.
Quiet == \/ updates' = updates
         \/ \E x \in UpdateType : x.kind # "Status" /\ updates' = Append(updates, x)

LEMMA RunDeviceTells ==
  ASSUME BackendTypeOK, NEW g \in DOMAIN tasks, RunDevice(g)
  PROVE  \/ Quiet /\ tasks[g].at # "new" /\ Said(tasks'[g].at) = Said(tasks[g].at)
         \/ /\ Said(tasks'[g].at) \in LinkStatus
            /\ \E us : /\ us = updates \/ us = Append(updates, Notice(tasks[g].id))
                       /\ updates' = Append(us, Status(tasks[g].id, Said(tasks'[g].at)))
<1> DEFINE id == tasks[g].id
<1>1. /\ tasks \in Seq(TaskType) /\ tasks[g] \in TaskType /\ id \in Chargers
      /\ updates \in Seq(UpdateType)
  BY TaskParts DEF BackendTypeOK
<1>2. /\ Notice(id) \in UpdateType /\ Notice(id).kind # "Status"
      /\ \A s \in LinkStatus : Status(id, s) \in UpdateType
      /\ \A r \in Settings \union {None} :
           Reading(id, r) \in UpdateType /\ Reading(id, r).kind # "Status"
  BY <1>1, Messages DEF Notice, Reading
<1>3. /\ Said("connecting") = "Connecting" /\ Said("polling") = "Connected"
      /\ Said("applying") = "Connected" /\ Said("waiting") = "Lost"
      /\ {"Connecting", "Connected", "Lost"} = LinkStatus
  BY DEF Said, LinkStatus
<1>4. ASSUME NEW x \in UpdateType, Says(g, <<x>>) PROVE updates' = Append(updates, x)
  BY <1>1, <1>4, EndOfQueue DEF Says
<1>5. ASSUME NEW s \in LinkStatus, Says(g, <<Notice(id), Status(id, s)>>)
      PROVE  updates' = Append(Append(updates, Notice(id)), Status(id, s))
  <2>1. Notice(id) \in UpdateType /\ Status(id, s) \in UpdateType
    BY <1>2
  <2>2. PICK x \in UpdateType : x = Notice(id)
    BY <2>1
  <2>3. PICK y \in UpdateType : y = Status(id, s)
    BY <2>1
  <2>4. updates' = updates \o <<x, y>>
    BY <1>5, <2>2, <2>3 DEF Says
  <2>5. updates' = Append(Append(updates, x), y)
    BY <1>1, <2>4, EndOfQueue
  <2> QED
    BY <2>2, <2>3, <2>5
<1>6. ASSUME NEW at \in {"connecting", "polling", "waiting"}, Moves(g, at)
      PROVE  tasks'[g].at = at
  BY <1>1, <1>6 DEF Moves, TaskType
<1> HIDE DEF id
<1>7. ASSUME NEW s \in LinkStatus, s = Said(tasks'[g].at), Says(g, <<Status(id, s)>>)
      PROVE  /\ Said(tasks'[g].at) \in LinkStatus
             /\ \E us : us = updates /\ updates' = Append(us, Status(id, Said(tasks'[g].at)))
  BY <1>2, <1>4, <1>7
<1>8. CASE Try(g)
  <2>1. Moves(g, "connecting") /\ Says(g, <<Status(id, "Connecting")>>)
    BY <1>8 DEF Try, id
  <2>2. Said(tasks'[g].at) = "Connecting" /\ "Connecting" \in LinkStatus
    BY <1>3, <1>6, <2>1
  <2> QED
    BY <1>7, <2>1, <2>2 DEF id
<1>9. CASE TryEnds(g)
  <2>1. CASE Moves(g, "polling") /\ Says(g, <<Status(id, "Connected")>>)
    <3>1. Said(tasks'[g].at) = "Connected" /\ "Connected" \in LinkStatus
      BY <1>3, <1>6, <2>1
    <3> QED
      BY <1>7, <2>1, <3>1 DEF id
  <2>2. CASE Moves(g, "waiting") /\ Says(g, <<Status(id, "Lost")>>)
    <3>1. Said(tasks'[g].at) = "Lost" /\ "Lost" \in LinkStatus
      BY <1>3, <1>6, <2>2
    <3> QED
      BY <1>7, <2>2, <3>1 DEF id
  <2> QED
    BY <1>9, <2>1, <2>2 DEF TryEnds, id
<1>10. CASE PollReads(g)
  <2>1. tasks[g].at = "polling" /\ tasks' = tasks
    BY <1>10 DEF PollReads
  <2>2. PICK r \in Settings \union {None} : Says(g, <<Reading(id, r)>>)
    BY <1>10 DEF PollReads, id
  <2>3. Quiet
    BY <1>2, <1>4, <2>2 DEF Quiet
  <2> QED
    BY <2>1, <2>3
<1>11. CASE PollFails(g)
  <2>1. Moves(g, "waiting") /\ Says(g, <<Status(id, "Lost")>>)
    BY <1>11 DEF PollFails, id
  <2>2. Said(tasks'[g].at) = "Lost" /\ "Lost" \in LinkStatus
    BY <1>3, <1>6, <2>1
  <2> QED
    BY <1>7, <2>1, <2>2 DEF id
<1>12. CASE ApplyStarts(g)
  <2>1. tasks[g].at = "polling" /\ updates' = updates
    BY <1>12 DEF ApplyStarts
  <2>2. tasks'[g].at = "applying"
    BY <1>1, <1>12 DEF ApplyStarts, TaskType
  <2> QED
    BY <1>3, <2>1, <2>2 DEF Quiet
<1>13. CASE ApplyEnds(g)
  <2>1. tasks[g].at = "applying"
    BY <1>13 DEF ApplyEnds
  <2>2. CASE /\ tasks' = [tasks EXCEPT ![g].at = "polling", ![g].job = None]
             /\ Says(g, <<Notice(id)>>)
    <3>1. tasks'[g].at = "polling"
      BY <1>1, <2>2 DEF TaskType
    <3>2. Quiet
      BY <1>2, <1>4, <2>2 DEF Quiet
    <3> QED
      BY <1>3, <2>1, <3>1, <3>2
  <2>3. CASE /\ tasks' = [tasks EXCEPT ![g].at = "waiting", ![g].job = None]
             /\ Says(g, <<Notice(id), Status(id, "Lost")>>)
    <3>1. tasks'[g].at = "waiting"
      BY <1>1, <2>3 DEF TaskType
    <3>2. Said(tasks'[g].at) = "Lost" /\ "Lost" \in LinkStatus
      BY <1>3, <3>1
    <3>3. updates' = Append(Append(updates, Notice(id)), Status(id, "Lost"))
      BY <1>5, <2>3, <3>2 DEF id
    <3> QED
      BY <3>2, <3>3 DEF id
  <2> QED
    BY <1>13, <2>2, <2>3 DEF ApplyEnds, id
<1> QED
  BY <1>8, <1>9, <1>10, <1>11, <1>12, <1>13 DEF RunDevice

\* A charger has a task of its own that is not aborted, or none.
LEMMA FollowedStep ==
  ASSUME BackendTypeOK, Followed, [BackendNext]_backend PROVE Followed'
<1>0. /\ \A id \in Chargers : live[id] # None => live[id] \in DOMAIN tasks
      /\ DOMAIN tasks = 1 .. Len(tasks) /\ Len(tasks) \in Nat /\ live \in [Chargers -> {None} \union DOMAIN tasks]
      /\ tasks \in Seq(TaskType)
  BY DEF BackendTypeOK
<1>1. ASSUME NEW id \in Chargers, Follow(id) PROVE Followed'
  <2> SUFFICES ASSUME NEW c \in Chargers, live'[c] # None
               PROVE  tasks'[live'[c]].id = c /\ tasks'[live'[c]].at # "aborted"
    BY DEF Followed
  <2>1. CASE c = id
    <3>1. live'[c] = Len(tasks) + 1 /\ tasks'[Len(tasks) + 1] = NewTask(c)
      BY <1>0, <1>1, <2>1, FollowKeeps
    <3> QED
      BY <3>1, NewTaskParts
  <2>2. CASE c # id
    <3>1. live'[c] = live[c]
      BY <1>0, <1>1, <2>2, FollowKeeps
    <3>2. tasks[live[c]].id = c /\ tasks[live[c]].at # "aborted" /\ live[c] \in DOMAIN tasks
      BY <1>0, <3>1 DEF Followed
    <3>3. live[c] # live[id]
      BY <1>0, <2>2, <3>1, <3>2 DEF Followed
    <3> QED
      BY <1>1, <3>1, <3>2, <3>3, FollowKeeps
  <2> QED
    BY <2>1, <2>2
<1>2. ASSUME UNCHANGED <<live, tasks>> PROVE Followed'
  BY <1>2 DEF Followed
<1>3. CASE Disconnect
  <2> DEFINE id == Head(commands).id
  <2>1. id \in Chargers /\ tasks' = StopTask(id) /\ live' = [live EXCEPT ![id] = None]
    BY <1>3, TakesKeeps DEF Disconnect
  <2> HIDE DEF id
  <2> SUFFICES ASSUME NEW c \in Chargers, live'[c] # None
               PROVE  tasks'[live'[c]].id = c /\ tasks'[live'[c]].at # "aborted"
    BY DEF Followed
  <2>2. c # id /\ live'[c] = live[c]
    BY <1>0, <2>1
  <2>3. tasks[live[c]].id = c /\ tasks[live[c]].at # "aborted" /\ live[c] \in DOMAIN tasks
    BY <1>0, <2>2 DEF Followed
  <2>4. live[c] # live[id]
    BY <1>0, <2>1, <2>2, <2>3 DEF Followed
  <2> QED
    BY <2>1, <2>2, <2>3, <2>4, StopTaskKeeps
<1>4. CASE Task
  <2>1. live' = live /\ \A g \in DOMAIN tasks : tasks'[g].at = tasks[g].at /\ tasks'[g].id = tasks[g].id
    BY <1>4, Held DEF Task, TaskType
  <2> QED
    BY <1>0, <2>1 DEF Followed
<1>5. ASSUME NEW g \in DOMAIN tasks, RunDevice(g) PROVE Followed'
  <2>1. live' = live /\ \A h \in DOMAIN tasks : tasks'[h].id = tasks[h].id
                        /\ (tasks[h].at # "aborted" => tasks'[h].at # "aborted")
    BY <1>5, RunDeviceKeeps, RunDeviceSays
  <2> QED
    BY <1>0, <2>1 DEF Followed
<1>6. CASE BindEnds
  <2>1. busy.id \in Chargers
    BY <1>6 DEF BindEnds, BackendTypeOK, CommandType, Idle
  <2> QED
    BY <1>1, <1>2, <1>6, <2>1 DEF BindEnds
<1>7. CASE Connect
  <2>1. Head(commands).id \in Chargers
    BY <1>7, TakesKeeps DEF Connect
  <2> QED
    BY <1>1, <1>2, <1>7, <2>1 DEF Connect
<1>8. CASE ScanStarts \/ ScanEnds \/ BindStarts \/ AnyWindow \/ UNCHANGED backend
  <2>1. UNCHANGED <<live, tasks>>
    BY <1>8 DEF ScanStarts, ScanEnds, BindStarts, AnyWindow, Give, TakeUpdate, backend
  <2> QED
    BY <1>2, <2>1
<1> QED
  BY <1>3, <1>4, <1>5, <1>6, <1>7, <1>8 DEF BackendNext, Supervise
\* What was said stands as long as nothing is said of a charger, and its tabs
\* and its task stay where they are.
LEMMA QuietStep ==
  ASSUME TypeOK, InTune, UNCHANGED devices,
         \A id \in Chargers : \A s : Due(id, s) => Due(id, s)',
         Quiet
  PROVE  InTune'
<1> SUFFICES ASSUME NEW id \in Chargers
             PROVE  \E s \in LinkStatus \union {"Closed"} :
                      Due(id, s)' /\ Told(updates', devices', id, s)
  BY DEF InTune
<1>1. PICK s \in LinkStatus \union {"Closed"} : Due(id, s) /\ Told(updates, devices, id, s)
  BY DEF InTune
<1>2. Told(updates', devices', id, s)
  <2>1. CASE updates' = updates
    BY <1>1, <2>1
  <2>2. ASSUME NEW x \in UpdateType, x.kind # "Status", updates' = Append(updates, x)
        PROVE  Told(updates', devices', id, s)
    <3>1. updates \in Seq(UpdateType)
      BY DEF TypeOK, BackendTypeOK
    <3>2. Told(Append(updates, x), devices, id, s)
      BY <1>1, <2>2, <3>1, OtherUpdate
    <3> QED
      BY <2>2, <3>2
  <2> QED
    BY <2>1, <2>2 DEF Quiet
<1> QED
  BY <1>1, <1>2

LEMMA SuperviseInTune ==
  ASSUME TypeOK, Followed, InTune, Supervise, UNCHANGED window PROVE InTune'
<1>0. /\ BackendTypeOK /\ updates \in Seq(UpdateType)
      /\ \A id \in Chargers : live[id] # None => live[id] \in DOMAIN tasks
      /\ DOMAIN tasks = 1 .. Len(tasks) /\ Len(tasks) \in Nat
      /\ live \in [Chargers -> {None} \union DOMAIN tasks]
      /\ tasks \in Seq(TaskType) /\ devices' = devices
  BY DEF TypeOK, BackendTypeOK, window
<1>1. ASSUME UNCHANGED <<live, tasks>> PROVE \A id \in Chargers : \A s : Due(id, s) => Due(id, s)'
  BY <1>1 DEF Due
<1>2. ASSUME NEW c \in Chargers, Follow(c) PROVE \A id \in Chargers : \A s : Due(id, s) => Due(id, s)'
  <2> SUFFICES ASSUME NEW id \in Chargers, NEW s, Due(id, s) PROVE Due(id, s)'
    OBVIOUS
  <2>1. CASE id = c
    <3>1. live'[id] = Len(tasks) + 1 /\ tasks'[Len(tasks) + 1].at = "new" /\ Len(tasks) + 1 # None
      BY <1>0, <1>2, <2>1, FollowKeeps, NewTaskParts DEF None
    <3> QED
      BY <3>1 DEF Due
  <2>2. CASE id # c
    <3>1. live'[id] = live[id]
      BY <1>0, <1>2, <2>2, FollowKeeps
    <3>2. CASE live[id] = None
      BY <3>1, <3>2 DEF Due
    <3>3. CASE live[id] # None
      <4>1. live[id] \in DOMAIN tasks /\ live[id] # live[c]
        BY <1>0, <2>2, <3>3 DEF Followed
      <4>2. tasks'[live'[id]] = tasks[live[id]]
        BY <1>0, <1>2, <3>1, <4>1, FollowKeeps
      <4> QED
        BY <3>1, <4>2 DEF Due
    <3> QED
      BY <3>2, <3>3
  <2> QED
    BY <2>1, <2>2
<1>3. ASSUME NEW id \in Chargers, updates' = Append(updates, Notice(id)) PROVE Quiet
  <2>1. Notice(id) \in UpdateType /\ Notice(id).kind # "Status"
    BY Messages DEF Notice
  <2> QED
    BY <1>3, <2>1 DEF Quiet
<1>4. CASE ScanStarts \/ BindStarts
  BY <1>0, <1>1, <1>4, QuietStep DEF ScanStarts, BindStarts, Quiet
<1>5. CASE ScanEnds
  <2>1. Quiet
    <3>1. CASE updates' = updates
      BY <3>1 DEF Quiet
    <3>2. ASSUME NEW r, updates' = Append(updates, Found(r)), updates' \in Seq(UpdateType) PROVE Quiet
      <4>1. PICK x : x = Found(r)
        OBVIOUS
      <4>2. x.kind # "Status"
        BY <4>1 DEF Found
      <4>3. x \in UpdateType
        <5>1. updates'[Len(updates) + 1] = x /\ Len(updates) + 1 \in DOMAIN updates'
          BY <1>0, <3>2, <4>1
        <5> QED
          BY <3>2, <5>1
      <4> QED
        BY <3>2, <4>1, <4>2, <4>3 DEF Quiet
    <3>3. updates' \in Seq(UpdateType)
      BY <1>0, <1>5, SuperviseTypes DEF Supervise, BackendTypeOK
    <3> QED
      BY <1>5, <3>1, <3>2, <3>3 DEF ScanEnds
  <2> QED
    BY <1>0, <1>1, <1>5, <2>1, QuietStep DEF ScanEnds
<1>6. CASE BindEnds
  <2>1. busy.id \in Chargers
    BY <1>6 DEF BindEnds, TypeOK, BackendTypeOK, CommandType, Idle
  <2>2. Quiet
    BY <1>3, <1>6, <2>1 DEF BindEnds
  <2>3. \A id \in Chargers : \A s : Due(id, s) => Due(id, s)'
    BY <1>1, <1>2, <1>6, <2>1 DEF BindEnds
  <2> QED
    BY <1>0, <2>2, <2>3, QuietStep
<1>7. CASE Connect
  <2> DEFINE c == Head(commands).id
  <2>1. c \in Chargers
    BY <1>0, <1>7, TakesKeeps DEF Connect
  <2>2. /\ updates' = updates \/ updates' = Append(updates, Notice(c))
        /\ Follow(c) \/ UNCHANGED <<live, tasks>>
    BY <1>7 DEF Connect
  <2> HIDE DEF c
  <2>3. Quiet
    BY <1>3, <2>1, <2>2 DEF Quiet
  <2>4. \A id \in Chargers : \A s : Due(id, s) => Due(id, s)'
    BY <1>1, <1>2, <2>1, <2>2
  <2> QED
    BY <1>0, <2>3, <2>4, QuietStep
<1>8. CASE Disconnect
  <2> DEFINE c == Head(commands).id
  <2>1. c \in Chargers
    BY <1>0, <1>8, TakesKeeps DEF Disconnect
  <2>2. /\ tasks' = StopTask(c) /\ live' = [live EXCEPT ![c] = None]
        /\ updates' = Append(updates, Status(c, "Closed"))
    BY <1>8 DEF Disconnect
  <2> HIDE DEF c
  <2>3. PICK x \in UpdateType : x = Status(c, "Closed")
    BY <2>1, Messages
  <2>4. x.kind = "Status" /\ x.id = c /\ x.status = "Closed" /\ updates' = Append(updates, x)
    BY <2>2, <2>3 DEF Status
  <2> SUFFICES ASSUME NEW id \in Chargers
               PROVE  \E s \in LinkStatus \union {"Closed"} :
                        Due(id, s)' /\ Told(updates', devices', id, s)
    BY DEF InTune
  <2>5. CASE id = c
    <3>1. Told(updates', devices', id, "Closed")
      BY <1>0, <2>4, <2>5, StatusSaid
    <3>2. Due(id, "Closed")'
      BY <1>0, <2>2, <2>5 DEF Due
    <3> QED
      BY <3>1, <3>2
  <2>6. CASE id # c
    <3>1. PICK s \in LinkStatus \union {"Closed"} : Due(id, s) /\ Told(updates, devices, id, s)
      BY DEF InTune
    <3>2. Told(updates', devices', id, s)
      <4>1. Told(Append(updates, x), devices, id, s)
        BY <1>0, <2>4, <2>6, <3>1, OtherUpdate
      <4> QED
        BY <1>0, <2>4, <4>1
    <3>3. Due(id, s)'
      <4>1. live'[id] = live[id]
        BY <1>0, <2>2, <2>6
      <4>2. CASE live[id] = None
        BY <3>1, <4>1, <4>2 DEF Due
      <4>3. CASE live[id] # None
        <5>1. live[id] \in DOMAIN tasks /\ live[id] # live[c]
          BY <1>0, <2>1, <2>6, <4>3 DEF Followed
        <5>2. tasks'[live'[id]] = tasks[live[id]]
          BY <1>0, <2>1, <2>2, <4>1, <5>1, StopTaskKeeps
        <5> QED
          BY <3>1, <4>1, <5>2 DEF Due
      <4> QED
        BY <4>2, <4>3
    <3> QED
      BY <3>1, <3>2, <3>3
  <2> QED
    BY <2>5, <2>6
<1>9. CASE Task
  <2>1. live' = live /\ updates' = updates /\ \A g \in DOMAIN tasks : tasks'[g].at = tasks[g].at
    BY <1>0, <1>9, Held DEF Task, TaskType
  <2>2. \A id \in Chargers : \A s : Due(id, s) => Due(id, s)'
    BY <1>0, <2>1 DEF Due
  <2> QED
    BY <1>0, <2>1, <2>2, QuietStep DEF Quiet
<1> QED
  BY <1>4, <1>5, <1>6, <1>7, <1>8, <1>9 DEF Supervise
LEMMA RunDeviceInTune ==
  ASSUME TypeOK, OneTaskPerCharger, Followed, InTune, UNCHANGED window,
         NEW g \in DOMAIN tasks, RunDevice(g)
  PROVE  InTune'
<1>0. /\ BackendTypeOK /\ updates \in Seq(UpdateType) /\ devices' = devices
      /\ \A id \in Chargers : live[id] # None => live[id] \in DOMAIN tasks
      /\ g # None
  <2>1. tasks \in Seq(TaskType)
    BY DEF TypeOK, BackendTypeOK
  <2>2. g # None
    BY <2>1 DEF None
  <2> QED
    BY <2>2 DEF TypeOK, BackendTypeOK, window
<1>c. PICK c \in Chargers : c = tasks[g].id
  BY <1>0, Held
<1>1. /\ Notice(c) \in UpdateType
      /\ \A s \in LinkStatus : Status(c, s) \in UpdateType
  BY <1>0, Messages
<1>2. live' = live /\ live[c] = g
  BY <1>0, <1>c, RunDeviceSays, RunDeviceKeeps DEF OneTaskPerCharger
<1>3. ASSUME NEW id \in Chargers, id # c, NEW s, Due(id, s) PROVE Due(id, s)'
  <2>1. CASE live[id] = None
    BY <1>2, <1>3, <2>1 DEF Due
  <2>2. CASE live[id] # None
    <3>1. live[id] \in DOMAIN tasks /\ live[id] # g
      BY <1>0, <1>c, <1>3, <2>2 DEF Followed
    <3>2. tasks'[live[id]] = tasks[live[id]]
      BY <1>0, <3>1, RunDeviceKeeps
    <3> QED
      BY <1>2, <1>3, <3>2 DEF Due
  <2> QED
    BY <2>1, <2>2
<1>4. CASE Quiet /\ tasks[g].at # "new" /\ Said(tasks'[g].at) = Said(tasks[g].at)
  <2>1. ASSUME NEW s, Due(c, s) PROVE Due(c, s)'
    <3>1. live[c] # None /\ live[c] = g /\ live'[c] = g
      BY <1>0, <1>2
    <3>2. s = Said(tasks'[g].at)
      BY <1>4, <2>1, <3>1 DEF Due
    <3> QED
      BY <3>1, <3>2 DEF Due
  <2>2. ASSUME NEW id \in Chargers, NEW s, Due(id, s) PROVE Due(id, s)'
    <3>1. CASE id = c
      BY <2>1, <2>2, <3>1
    <3>2. CASE id # c
      BY <1>3, <2>2, <3>2
    <3> QED
      BY <3>1, <3>2
  <2> QED
    BY <1>0, <1>4, <2>2, QuietStep
<1>5. ASSUME Said(tasks'[g].at) \in LinkStatus,
             NEW us, us = updates \/ us = Append(updates, Notice(c)),
             updates' = Append(us, Status(c, Said(tasks'[g].at)))
      PROVE  InTune'
  <2>1. PICK t \in LinkStatus : t = Said(tasks'[g].at)
    BY <1>5
  <2>2. PICK x \in UpdateType : x = Status(c, t)
    BY <1>1
  <2>3. x.kind = "Status" /\ x.id = c /\ x.status = t /\ updates' = Append(us, x)
    BY <1>5, <2>1, <2>2 DEF Status
  <2>4. PICK y \in UpdateType : y = Notice(c) /\ y.kind # "Status"
    BY <1>1 DEF Notice
  <2>5. us \in Seq(UpdateType)
    BY <1>0, <1>5, <2>4
  <2> SUFFICES ASSUME NEW id \in Chargers
               PROVE  \E s \in LinkStatus \union {"Closed"} :
                        Due(id, s)' /\ Told(updates', devices', id, s)
    BY DEF InTune
  <2>6. CASE id = c
    <3>1. Told(updates', devices', id, t)
      BY <2>3, <2>5, <2>6, StatusSaid
    <3>2. Due(id, t)'
      BY <1>0, <1>2, <2>1, <2>6 DEF Due
    <3> QED
      BY <3>1, <3>2
  <2>7. CASE id # c
    <3>1. PICK s \in LinkStatus \union {"Closed"} : Due(id, s) /\ Told(updates, devices, id, s)
      BY DEF InTune
    <3>2. Told(us, devices, id, s)
      <4>1. Told(Append(updates, y), devices, id, s)
        BY <1>0, <2>4, <3>1, OtherUpdate
      <4> QED
        BY <1>5, <2>4, <3>1, <4>1
    <3>3. Told(updates', devices', id, s)
      <4>1. Told(Append(us, x), devices, id, s)
        BY <2>3, <2>5, <2>7, <3>2, OtherUpdate
      <4> QED
        BY <1>0, <2>3, <4>1
    <3> QED
      BY <1>3, <2>7, <3>1, <3>3
  <2> QED
    BY <2>6, <2>7
<1> QED
  BY <1>0, <1>c, <1>4, <1>5, RunDeviceTells

LEMMA WindowInTune ==
  ASSUME TypeOK, InTune, Apply \/ User PROVE InTune'
<1>1. UNCHANGED <<live, tasks>>
  BY DEF Apply, TakeUpdate, User, ClickTab, AddCharger, ScanAgain, ClickRow, ClickDisconnect,
     ClickStart, ClickStop, ClickChip, Send, Give, backend
<1>2. \A id \in Chargers : \A s : Due(id, s) => Due(id, s)'
  BY <1>1 DEF Due
<1>3. CASE Apply
  <2> SUFFICES ASSUME NEW id \in Chargers
               PROVE  \E s \in LinkStatus \union {"Closed"} :
                        Due(id, s)' /\ Told(updates', devices', id, s)
    BY DEF InTune
  <2>1. PICK s \in LinkStatus \union {"Closed"} : Due(id, s) /\ Told(updates, devices, id, s)
    BY DEF InTune
  <2>2. updates # <<>> /\ updates' = Tail(updates) /\ updates \in Seq(UpdateType)
    BY <1>3 DEF Apply, TakeUpdate, TypeOK, BackendTypeOK
  <2>3. IF Head(updates).kind = "Status" /\ Head(updates).id = id
        THEN Shows(devices', id, Head(updates).status)
        ELSE Shows(devices, id, s) => Shows(devices', id, s)
    BY <1>3, AppliedShows
  <2>4. PICK es : es = devices'
    OBVIOUS
  <2>5. Told(Tail(updates), es, id, s)
    BY <2>1, <2>2, <2>3, <2>4, UpdateApplied
  <2> QED
    BY <1>2, <2>1, <2>2, <2>4, <2>5
<1>4. CASE ClickChip
  <2>1. PICK n \in Settings : devices' = [devices EXCEPT ![selected + 1].setting = n]
    BY <1>4 DEF ClickChip
  <2>2. updates' = updates /\ selected + 1 \in DOMAIN devices
    BY <1>4 DEF ClickChip, Drawn, backend
  <2>3. DOMAIN devices' = DOMAIN devices
    BY <2>1
  <2>4. ASSUME NEW i \in DOMAIN devices
        PROVE  /\ devices'[i].id = devices[i].id /\ devices'[i].told = devices[i].told
               /\ devices'[i].status = devices[i].status
    BY <2>1, <2>2, <2>4, Tabs DEF DeviceType
  <2>5. \A id, s : Shows(devices, id, s) => Shows(devices', id, s)
    BY <2>3, <2>4 DEF Shows
  <2>6. \A id, s : Told(updates, devices, id, s) => Told(updates', devices', id, s)
    BY <2>2, <2>5 DEF Told
  <2> QED
    BY <1>2, <2>6 DEF InTune
<1>5. CASE User /\ ~ClickChip
  <2>1. UNCHANGED <<updates, devices>>
    BY <1>5 DEF User, ClickTab, AddCharger, ScanAgain, ClickRow, ClickDisconnect,
       ClickStart, ClickStop, Send, Give, backend
  <2> QED
    BY <1>2, <2>1, QuietStep DEF Quiet
<1> QED
  BY <1>3, <1>4, <1>5

WindowInv == TypeOK /\ OrderInv /\ Followed /\ InTune

LEMMA WindowInvInit == Init => WindowInv
<1> SUFFICES ASSUME Init PROVE WindowInv
  OBVIOUS
<1>1. TypeOK /\ OrderInv
  BY DesktopInit, OrderInit DEF Init
<1>2. updates = <<>> /\ devices = <<>> /\ \A id \in Chargers : live[id] = None
  BY DEF Init, InitBackend
<1>3. \A id \in Chargers : Due(id, "Closed") /\ Told(updates, devices, id, "Closed")
  BY <1>2 DEF Due, Told, Shows, StatusesOf
<1> QED
  BY <1>1, <1>2, <1>3 DEF WindowInv, Followed, InTune

LEMMA WindowInvStep == WindowInv /\ [Next]_vars => WindowInv'
<1> SUFFICES ASSUME WindowInv, [Next]_vars PROVE WindowInv'
  OBVIOUS
<1>1. TypeOK /\ BackendTypeOK /\ OrderInv /\ OneTaskPerCharger /\ Followed /\ InTune
  BY DEF WindowInv, TypeOK, OrderInv
<1>2. [BackendNext]_backend
  BY <1>1, StepIsBackends
<1>3. TypeOK' /\ OrderInv' /\ Followed'
  BY <1>1, <1>2, DesktopTypes, OrderStep, FollowedStep
<1>4. InTune'
  <2>1. CASE Supervise /\ UNCHANGED window
    BY <1>1, <2>1, SuperviseInTune
  <2>2. ASSUME NEW g \in DOMAIN tasks, RunDevice(g), UNCHANGED window PROVE InTune'
    BY <1>1, <2>2, RunDeviceInTune
  <2>3. CASE Apply \/ User
    BY <1>1, <2>3, WindowInTune
  <2>4. CASE UNCHANGED vars
    BY <1>1, <2>4 DEF vars, backend, window, InTune, Due, Told
  <2> QED
    BY <2>1, <2>2, <2>3, <2>4 DEF Next
<1> QED
  BY <1>3, <1>4 DEF WindowInv

\* Nothing on its way about a charger: the tab is right.
LEMMA NothingPending ==
  ASSUME WindowInv PROVE WindowCatchesUp
<1> SUFFICES ASSUME NEW id \in Chargers, Pending(id) = {}
             PROVE  LET tabs == { d \in ToSet(devices) : d.id = id /\ d.told } IN
                      IF live[id] = None THEN tabs = {}
                      ELSE tasks[live[id]].at # "new" =>
                             \E d \in tabs : d.status = Said(tasks[live[id]].at)
  BY DEF WindowCatchesUp
<1>1. StatusesOf(updates, id) = {}
  BY DEF StatusesOf, Pending, ToSet
<1>2. PICK s \in LinkStatus \union {"Closed"} : Due(id, s) /\ Told(updates, devices, id, s)
  BY DEF WindowInv, InTune
<1>3. Shows(devices, id, s)
  BY <1>1, <1>2 DEF Told
<1>4. CASE live[id] = None
  BY <1>2, <1>3, <1>4 DEF Due, Shows, ToSet
<1>5. CASE live[id] # None /\ tasks[live[id]].at # "new"
  <2>1. s = Said(tasks[live[id]].at)
    BY <1>2, <1>5 DEF Due
  <2>2. s # "Closed"
    <3>1. live[id] \in DOMAIN tasks /\ tasks \in Seq(TaskType)
      BY <1>5 DEF WindowInv, TypeOK, BackendTypeOK
    <3>2. tasks[live[id]].at \in {"connecting", "polling", "applying", "waiting"}
      <4>1. tasks[live[id]] \in TaskType
        BY <3>1
      <4> QED
        BY <1>5, <4>1 DEF WindowInv, Followed, TaskType
    <3> QED
      BY <2>1, <3>2 DEF Said
  <2>3. PICK i \in DOMAIN devices : devices[i].id = id /\ devices[i].told /\ devices[i].status = s
    BY <1>3, <2>2 DEF Shows
  <2> QED
    BY <1>5, <2>1, <2>3 DEF ToSet
<1> QED
  BY <1>4, <1>5

\* What the window shows of a charger is what its task last said, once all
\* updates about it are applied, and a charger nobody follows has no tab left
\* that had a status.
THEOREM WindowIsRight == Spec => []WindowCatchesUp
<1> QED
  BY WindowInvInit, WindowInvStep, NothingPending, PTL DEF Spec
=============================================================================
