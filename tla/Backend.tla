------------------------------ MODULE Backend ------------------------------
(***************************************************************************)
(* The charger thread of the desktop program (gui/src/backend.rs): the     *)
(* supervisor that carries out the window's commands one after another,    *)
(* and one task per connected charger that connects, polls, carries out    *)
(* task commands and reconnects.  Both talk to the window over one queue   *)
(* of updates.                                                             *)
(*                                                                         *)
(* The thread runs one task at a time and switches only at awaits, so an   *)
(* aborted task never moves again.  Spawned tasks are numbered, and so are *)
(* the window's commands.  Messages that belong to no charger are wording  *)
(* and left out, and so is the end of the window, which ends the process.  *)
(*                                                                         *)
(* The window may be any: BackendSpec lets it give every command at every  *)
(* moment.  Desktop puts the real one in its place.                        *)
(***************************************************************************)
EXTENDS Naturals, SequencesExt

CONSTANTS Chargers,    \* the chargers in reach
          Stored,      \* those the token file has an identifier for
          Settings,    \* what a charger may report to be running
          MaxTries,    \* bound: connections the tasks try
          MaxReadings, \* bound: readings the tasks send
          MaxCommands  \* bound: commands the window gives

ASSUME StoredAssumption == Stored \subseteq Chargers
ASSUME LimitsAssumption ==
  MaxTries \in Nat /\ MaxReadings \in Nat /\ MaxCommands \in Nat \ {0}

VARIABLES given,     \* the number of commands given, and that of the last
          commands,  \* from the window, to be carried out
          updates,   \* to the window, to be applied
          busy,      \* the scan or bind the supervisor waits for, or Idle
          seen,      \* chargers of the last scan
          store,     \* chargers with an identifier
          live,      \* of each charger, the task that follows it, or None
          tasks,     \* all tasks ever spawned
          tries,     \* history: connections tried
          readings,  \* history: readings sent
          dropped,   \* history: of each charger, the last Disconnect handled
          begun      \* history: of each charger, the last task command begun

backend == <<given, commands, updates, busy, seen, store, live, tasks, tries, readings,
             dropped, begun>>
-----------------------------------------------------------------------------
None == 0
Idle == [op |-> "Idle"]
NewTask(id) == [id |-> id, at |-> "new", queue |-> <<>>, job |-> None]
Gone(task) == [task EXCEPT !.at = "aborted", !.queue = <<>>, !.job = None]

Status(id, status) == [kind |-> "Status", id |-> id, status |-> status]
Notice(id) == [kind |-> "Notice", id |-> id]
Reading(id, running) == [kind |-> "Reading", id |-> id, running |-> running]
Found(rows) == [kind |-> "Found", rows |-> rows]

\* The numbers of commands, and the records of the three queues.
Numbers == Nat \ {None}
CommandType == [op : {"Scan"}, n : Numbers]
                 \union [op : {"Bind", "Connect", "Disconnect", "Task"}, id : Chargers,
                         n : Numbers]
RowType == [id : Chargers, waiting : BOOLEAN, known : BOOLEAN, connected : BOOLEAN]
LinkStatus == {"Connecting", "Connected", "Lost"}
UpdateType ==
  [kind : {"Found"}, rows : SUBSET RowType]
    \union [kind : {"Notice"}, id : Chargers]
    \union [kind : {"Reading"}, id : Chargers, running : Settings \union {None}]
    \union [kind : {"Status"}, id : Chargers, status : LinkStatus \union {"Closed"}]
TaskType == [id : Chargers, queue : Seq(Numbers), job : Nat,
             at : {"new", "connecting", "polling", "applying", "waiting", "aborted"}]

\* The backend's part of the type invariant.
BackendTypeOK ==
  /\ given \in 1..MaxCommands /\ commands \in Seq(CommandType)
  /\ updates \in Seq(UpdateType)
  /\ busy \in CommandType \union {Idle}
  /\ seen \subseteq Chargers /\ store \subseteq Chargers
  /\ tasks \in Seq(TaskType) /\ live \in [Chargers -> {None} \union DOMAIN tasks]
  /\ tries \in 0..MaxTries /\ readings \in 0..MaxReadings
  /\ dropped \in [Chargers -> Nat] /\ begun \in [Chargers -> Nat]

InitBackend ==
  /\ given = 1 /\ commands = <<[op |-> "Scan", n |-> 1]>> /\ updates = <<>>
  /\ busy = Idle /\ seen = {} /\ store = Stored
  /\ live = [id \in Chargers |-> None] /\ tasks = <<>>
  /\ tries = 0 /\ readings = 0
  /\ dropped = [id \in Chargers |-> 0] /\ begun = [id \in Chargers |-> 0]
-----------------------------------------------------------------------------
(* The supervisor                                                          *)

\* The command the supervisor takes next; it takes none while it waits.
Takes(op) == /\ busy = Idle
             /\ commands # <<>> /\ Head(commands).op = op
             /\ commands' = Tail(commands) /\ UNCHANGED given

ScanStarts == /\ Takes("Scan")
              /\ busy' = Head(commands)
              /\ UNCHANGED <<updates, seen, store, live, tasks, tries, readings,
                             dropped, begun>>

\* The chargers that answered, and which of them wait to be bound.  A scan
\* that fails changes nothing.
ScanEnds ==
  /\ busy.op = "Scan" /\ busy' = Idle
  /\ \/ \E inRange \in SUBSET Chargers : \E waiting \in SUBSET inRange :
          /\ seen' = inRange
          /\ updates' = Append(updates,
               Found({ [id |-> id, waiting |-> id \in waiting, known |-> id \in store,
                        connected |-> live[id] # None] : id \in inRange }))
     \/ UNCHANGED <<seen, updates>>
  /\ UNCHANGED <<given, commands, store, live, tasks, tries, readings, dropped, begun>>

\* (mutant: the task that followed the charger is forgotten, not aborted)
StopTaskForgets(id) == tasks

\* The task that follows a charger, aborted at the await it is in.
StopTask(id) == [g \in DOMAIN tasks |->
                   IF g = live[id] THEN Gone(tasks[g]) ELSE tasks[g]]

\* connect: a new task, in place of the one that followed this charger.
Follow(id) == /\ tasks' = Append(StopTask(id), NewTask(id))
              /\ live' = [live EXCEPT ![id] = Len(tasks')]

\* A charger that is not in the last scan is refused with a message.
BindStarts == /\ Takes("Bind")
              /\ busy' = IF Head(commands).id \in seen THEN Head(commands) ELSE Idle
              /\ UNCHANGED <<updates, seen, store, live, tasks, tries, readings,
                             dropped, begun>>

BindEnds ==
  /\ busy.op = "Bind" /\ busy' = Idle
  /\ updates' = Append(updates, Notice(busy.id))
  /\ \/ store' = store \union {busy.id} /\ Follow(busy.id)
     \/ UNCHANGED <<store, live, tasks>>
  /\ UNCHANGED <<given, commands, seen, tries, readings, dropped, begun>>

Connect ==
  /\ Takes("Connect")
  /\ LET id == Head(commands).id IN
       \/ id \notin seen /\ UNCHANGED <<updates, live, tasks>>
       \/ /\ id \in seen /\ id \notin store
          /\ updates' = Append(updates, Notice(id)) /\ UNCHANGED <<live, tasks>>
       \/ id \in seen /\ id \in store /\ Follow(id) /\ UNCHANGED updates
  /\ UNCHANGED <<busy, seen, store, tries, readings, dropped, begun>>

Disconnect ==
  /\ Takes("Disconnect")
  /\ LET id == Head(commands).id IN
       /\ tasks' = StopTask(id)
       /\ live' = [live EXCEPT ![id] = None]
       /\ updates' = Append(updates, Status(id, "Closed"))
       /\ dropped' = [dropped EXCEPT ![id] = Head(commands).n]
  /\ UNCHANGED <<busy, seen, store, tries, readings, begun>>

\* A task that follows a charger outlives the queue of its commands.
Task ==
  /\ Takes("Task")
  /\ LET g == live[Head(commands).id] IN
       tasks' = IF g = None THEN tasks
                ELSE [tasks EXCEPT ![g].queue = Append(@, Head(commands).n)]
  /\ UNCHANGED <<updates, busy, seen, store, live, tries, readings, dropped, begun>>

Supervise == \/ ScanStarts \/ ScanEnds \/ BindStarts \/ BindEnds
             \/ Connect \/ Disconnect \/ Task
-----------------------------------------------------------------------------
(* run_device, poll and apply, for the task of number g                    *)

Says(g, updatesOfTask) == updates' = updates \o updatesOfTask
Moves(g, at) == tasks' = [tasks EXCEPT ![g].at = at]
UnchangedByTasks == UNCHANGED <<given, commands, busy, seen, store, live, dropped>>

Try(g) == LET t == tasks[g] IN
  /\ t.at \in {"new", "waiting"} /\ tries < MaxTries
  /\ tries' = tries + 1
  /\ Moves(g, "connecting") /\ Says(g, <<Status(t.id, "Connecting")>>)
  /\ UnchangedByTasks /\ UNCHANGED <<readings, begun>>

\* connect_bound, and then the query for the charger's name and versions.
TryEnds(g) == LET t == tasks[g] IN
  /\ t.at = "connecting"
  /\ \/ Moves(g, "polling") /\ Says(g, <<Status(t.id, "Connected")>>)
     \/ Moves(g, "waiting") /\ Says(g, <<Status(t.id, "Lost")>>)
  /\ UnchangedByTasks /\ UNCHANGED <<tries, readings, begun>>

\* A full pass of the poll cycle; its snapshot says what is running, if any.
PollReads(g) == LET t == tasks[g] IN
  /\ t.at = "polling" /\ readings < MaxReadings
  /\ readings' = readings + 1
  /\ \E running \in Settings \union {None} : Says(g, <<Reading(t.id, running)>>)
  /\ UnchangedByTasks /\ UNCHANGED <<tasks, tries, begun>>

\* (mutant: the poll loop ends without telling the window)
PollFailsSilently(g) ==
  /\ tasks[g].at = "polling"
  /\ Moves(g, "waiting") /\ UNCHANGED updates
  /\ UnchangedByTasks /\ UNCHANGED <<tries, readings, begun>>

PollFails(g) == LET t == tasks[g] IN
  /\ t.at = "polling"
  /\ Moves(g, "waiting") /\ Says(g, <<Status(t.id, "Lost")>>)
  /\ UnchangedByTasks /\ UNCHANGED <<tries, readings, begun>>

ApplyStarts(g) == LET t == tasks[g] IN
  /\ t.at = "polling" /\ t.queue # <<>>
  /\ tasks' = [tasks EXCEPT ![g].at = "applying", ![g].job = Head(t.queue),
                            ![g].queue = Tail(@)]
  /\ begun' = [begun EXCEPT ![t.id] = Head(t.queue)]
  /\ UnchangedByTasks /\ UNCHANGED <<updates, tries, readings>>

\* (mutant: a command the link failed on is put back for the next connection)
ApplyEndsRequeues(g) == LET t == tasks[g] IN
  /\ t.at = "applying"
  /\ tasks' = [tasks EXCEPT ![g].at = "waiting", ![g].job = None,
                            ![g].queue = <<t.job>> \o @]
  /\ Says(g, <<Notice(t.id), Status(t.id, "Lost")>>)
  /\ UnchangedByTasks /\ UNCHANGED <<tries, readings, begun>>

\* What comes of it is told in a notice; an error of the link ends the poll.
ApplyEnds(g) == LET t == tasks[g] IN
  /\ t.at = "applying"
  /\ \/ /\ tasks' = [tasks EXCEPT ![g].at = "polling", ![g].job = None]
        /\ Says(g, <<Notice(t.id)>>)
     \/ /\ tasks' = [tasks EXCEPT ![g].at = "waiting", ![g].job = None]
        /\ Says(g, <<Notice(t.id), Status(t.id, "Lost")>>)
  /\ UnchangedByTasks /\ UNCHANGED <<tries, readings, begun>>

RunDevice(g) == \/ Try(g) \/ TryEnds(g) \/ PollReads(g) \/ PollFails(g)
                \/ ApplyStarts(g) \/ ApplyEnds(g)
-----------------------------------------------------------------------------
(* The window, seen from here                                              *)

Give(command) == /\ given < MaxCommands /\ given' = given + 1
                 /\ commands' = Append(commands, command)
                 /\ UNCHANGED <<updates, busy, seen, store, live, tasks, tries,
                                readings, dropped, begun>>

TakeUpdate == /\ updates # <<>> /\ updates' = Tail(updates)
              /\ UNCHANGED <<given, commands, busy, seen, store, live, tasks, tries,
                             readings, dropped, begun>>

AnyWindow == \/ Give([op |-> "Scan", n |-> given'])
             \/ \E op \in {"Bind", "Connect", "Disconnect", "Task"}, id \in Chargers :
                  Give([op |-> op, id |-> id, n |-> given'])
             \/ TakeUpdate

BackendNext == Supervise \/ (\E g \in DOMAIN tasks : RunDevice(g)) \/ AnyWindow
BackendSpec == InitBackend /\ [][BackendNext]_backend
-----------------------------------------------------------------------------
\* No charger is followed by two tasks, and none by a task the supervisor has
\* lost track of and can no longer stop (connect and Disconnect, which replace
\* and abort).
OneTaskPerCharger ==
  \A g \in DOMAIN tasks : tasks[g].at # "aborted" => live[tasks[g].id] = g

\* A charger carries out no task command that was given before it was told to
\* disconnect, not even after it was connected again.
NoCommandOutlivesDisconnect ==
  \A g \in DOMAIN tasks :
    tasks[g].at = "applying" => tasks[g].job > dropped[tasks[g].id]

\* A charger carries out task commands in the order they were given, each at
\* most once, across lost links and new connections.
CommandsInOrderOnce ==
  [][\A g \in DOMAIN tasks :
       (tasks[g].at # "applying" /\ tasks'[g].at = "applying")
         => tasks'[g].job > begun[tasks[g].id]]_backend
=============================================================================
