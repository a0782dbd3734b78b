------------------------------ MODULE Desktop ------------------------------
(***************************************************************************)
(* The desktop program: the window (gui/src/main.rs) over the charger      *)
(* thread (Backend).  The window applies one update at a time and sends    *)
(* commands when the user presses something that is drawn.  Buttons that   *)
(* are drawn as disabled carry their handler all the same.                 *)
(*                                                                         *)
(* The chemistry, cells and current of a task are one setting, and not all *)
(* kinds of task have a target voltage for it.  Text, labels and colours   *)
(* are left out.                                                           *)
(***************************************************************************)
EXTENDS Backend

CONSTANTS Targeted,     \* the pairs of a kind of task and a setting with a voltage
          Default       \* the setting a new tab starts with

Kinds == {"Charge", "Storage", "Discharge"}

ASSUME SettingsAssumption == Targeted \subseteq Kinds \X Settings /\ Default \in Settings

VARIABLES devices,      \* the tabs, in order
          selected,     \* the index of the tab in front, counted from zero
          discovering,  \* is the discovery panel in front of it?
          rows          \* what the discovery panel lists

window == <<devices, selected, discovering, rows>>
vars == <<backend, window>>

\* told is history: has a status of this charger been applied?
NewDevice(id) == [id |-> id, status |-> "Connecting", running |-> None,
                  setting |-> Default, told |-> FALSE]

Init == /\ InitBackend
        /\ devices = <<>> /\ selected = 0 /\ discovering = TRUE /\ rows = {}
-----------------------------------------------------------------------------
(* ChargerWindow::apply                                                    *)

\* device_mut: the tab of a charger, a new one behind the others if it has none.
WithDevice(id) == IF \E i \in DOMAIN devices : devices[i].id = id THEN devices
                  ELSE Append(devices, NewDevice(id))

\* The tabs after one field or more of a charger's tab are set.
Changed(id, Set(_)) ==
  [i \in DOMAIN WithDevice(id) |-> LET d == WithDevice(id)[i] IN
                                     IF d.id = id THEN Set(d) ELSE d]

\* retain: the tabs of other chargers, in their order.
Others(tabs, id) ==
  LET kept[n \in 0 .. Len(tabs)] ==
        IF n = 0 THEN <<>>
        ELSE IF tabs[n].id = id THEN kept[n - 1] ELSE Append(kept[n - 1], tabs[n])
  IN kept[Len(tabs)]

ApplyFound == /\ Head(updates).kind = "Found"
              /\ rows' = Head(updates).rows
              /\ UNCHANGED <<devices, selected, discovering>>

\* (mutant: no early return, so the tab is opened again and marked closed)
ApplyClosedFallsThrough == LET u == Head(updates) IN
  /\ u.kind = "Status" /\ u.status = "Closed"
  /\ devices' = Append(Others(devices, u.id),
                      [NewDevice(u.id) EXCEPT !.status = "Closed"])
  /\ UNCHANGED <<selected, discovering, rows>>

ApplyClosed == LET u == Head(updates) IN
  /\ u.kind = "Status" /\ u.status = "Closed"
  /\ devices' = Others(devices, u.id)
  /\ selected' = IF selected < Len(devices') THEN selected
                 ELSE IF devices' = <<>> THEN 0 ELSE Len(devices') - 1
  /\ discovering' = (discovering \/ devices' = <<>>)
  /\ UNCHANGED rows

ApplyStatus == LET u == Head(updates) IN
  /\ u.kind = "Status" /\ u.status # "Closed"
  /\ devices' = Changed(u.id, LAMBDA d : [d EXCEPT !.status = u.status, !.told = TRUE])
  /\ selected' = IF devices = <<>> THEN 0 ELSE selected
  /\ discovering' = (discovering /\ devices # <<>>)
  /\ UNCHANGED rows

\* A charger that reports a task sets the controls.
ApplyReading == LET u == Head(updates) IN
  /\ u.kind = "Reading"
  /\ devices' = Changed(u.id, LAMBDA d :
       [d EXCEPT !.running = u.running,
                 !.setting = IF u.running = None THEN @ ELSE u.running])
  /\ UNCHANGED <<selected, discovering, rows>>

ApplyNotice == LET u == Head(updates) IN
  /\ u.kind = "Notice"
  /\ devices' = WithDevice(u.id)
  /\ UNCHANGED <<selected, discovering, rows>>

Apply == /\ TakeUpdate
         /\ (ApplyFound \/ ApplyClosed \/ ApplyStatus \/ ApplyReading \/ ApplyNotice)
-----------------------------------------------------------------------------
(* The user                                                                *)

\* (mutant: a command is put in front of those that wait)
GiveFirst(command) == /\ given < MaxCommands /\ given' = given + 1
                      /\ commands' = <<command>> \o commands
                      /\ UNCHANGED <<updates, busy, seen, store, live, tasks, tries,
                                     readings, dropped, begun>>

\* Backend::send, which fails only once the process ends.
Send(command) == Give(command)

ClickTab == /\ \E i \in DOMAIN devices : selected' = i - 1
            /\ discovering' = FALSE
            /\ UNCHANGED <<backend, devices, rows>>

AddCharger == /\ Send([op |-> "Scan", n |-> given'])
              /\ discovering' = TRUE
              /\ UNCHANGED <<devices, selected, rows>>

ScanAgain == /\ discovering
             /\ Send([op |-> "Scan", n |-> given'])
             /\ UNCHANGED <<devices, selected, discovering, rows>>

\* The rows offer to bind what may be waiting, and to connect what is known;
\* neither once the last scan found it connected.
ClickRow == /\ discovering
            /\ \E row \in rows :
                 /\ ~row.connected
                 /\ \/ row.waiting /\ Send([op |-> "Bind", id |-> row.id, n |-> given'])
                    \/ row.known /\ Send([op |-> "Connect", id |-> row.id, n |-> given'])
            /\ UNCHANGED <<devices, selected, discovering, rows>>

\* The tab drawn in full, whose controls can be used.
Drawn == ~discovering /\ selected + 1 \in DOMAIN devices
InFront == devices[selected + 1]

ClickDisconnect == /\ Drawn
                   /\ Send([op |-> "Disconnect", id |-> InFront.id, n |-> given'])
                   /\ UNCHANGED <<devices, selected, discovering, rows>>

\* Without a target voltage the window says so in a notice and sends nothing.
ClickStart == /\ Drawn /\ \E kind \in Kinds : <<kind, InFront.setting>> \in Targeted
              /\ Send([op |-> "Task", id |-> InFront.id, n |-> given'])
              /\ UNCHANGED <<devices, selected, discovering, rows>>

ClickStop == /\ Drawn
             /\ Send([op |-> "Task", id |-> InFront.id, n |-> given'])
             /\ UNCHANGED <<devices, selected, discovering, rows>>

\* A chip is drawn muted while a task runs; its handler does not look.
ClickChip == /\ Drawn
             /\ \E s \in Settings :
                  devices' = [devices EXCEPT ![selected + 1].setting = s]
             /\ UNCHANGED <<backend, selected, discovering, rows>>

User == \/ ClickTab \/ AddCharger \/ ScanAgain \/ ClickRow
        \/ ClickDisconnect \/ ClickStart \/ ClickStop \/ ClickChip
-----------------------------------------------------------------------------
Next == \/ (Supervise \/ \E g \in DOMAIN tasks : RunDevice(g)) /\ UNCHANGED window
        \/ Apply \/ User

Spec == Init /\ [][Next]_vars

\* The supervisor carries out what it takes and does not wait for, and the
\* window applies what it is told.  No scan, bind or connection is assumed to
\* end, no charger to answer, and no button to be pressed.
FairSpec == /\ Spec /\ WF_vars(Apply)
            /\ WF_vars(((ScanStarts \/ BindStarts \/ Connect \/ Disconnect \/ Task)
                          /\ UNCHANGED window))
-----------------------------------------------------------------------------
(* Properties                                                              *)

DeviceType == [id : Chargers, status : LinkStatus, running : Settings \union {None},
               setting : Settings, told : BOOLEAN]

\* The type invariant.  No tab is ever marked closed (main.rs, apply, returns
\* early), and the tab in front is one of the tabs, if there are any.
TypeOK ==
  /\ BackendTypeOK
  /\ devices \in Seq(DeviceType) /\ discovering \in BOOLEAN
  /\ selected \in IF devices = <<>> THEN {0} ELSE 0..(Len(devices) - 1)
  /\ rows \subseteq RowType

Pending(id) == { u \in ToSet(updates) : u.kind \in {"Status", "Notice", "Reading"}
                                          /\ u.id = id }

\* What run_device has said of its connection, from where it is.
Said(at) == CASE at = "connecting" -> "Connecting"
              [] at \in {"polling", "applying"} -> "Connected"
              [] at = "waiting" -> "Lost"

\* What the window shows of a charger is what its task last said, as soon as no
\* more updates about it are on their way; and a tab that ever had a status is
\* gone once nobody follows its charger, whatever crossed whatever on the way.
WindowCatchesUp ==
  \A id \in Chargers : Pending(id) = {} =>
    LET tabs == { d \in ToSet(devices) : d.id = id /\ d.told } IN
      IF live[id] = None THEN tabs = {}
      ELSE tasks[live[id]].at # "new" =>
             \E d \in tabs : d.status = Said(tasks[live[id]].at)

\* A charger told to disconnect leaves the window, though its connection may
\* hang for ever, unless the supervisor itself waits for ever on a scan or a bind.
DisconnectCloses ==
  []<>(busy = Idle) =>
    \A id \in Chargers :
      (\E i \in DOMAIN commands : commands[i].op = "Disconnect" /\ commands[i].id = id)
        ~> (\A i \in DOMAIN devices : devices[i].id # id)
=============================================================================
