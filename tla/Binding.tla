------------------------------ MODULE Binding ------------------------------
(***************************************************************************)
(* How a host and its chargers come to share an identifier, and how they   *)
(* lose it: the bind commands of the window (supervise, gui backend.rs)    *)
(* and of the command line (main.rs), the identifier each connection       *)
(* presents, and the token file both programs keep without a lock.         *)
(*                                                                         *)
(* A window is open for long and loads the file once.  A run of the        *)
(* command line binds, or opens a shell on one charger; a command other    *)
(* than those is a shell that is left at once.  The charger is external:   *)
(* it accepts the identifier it holds, and any other only in binding mode. *)
(* Its answers name no request: a bind takes the first one there is.       *)
(***************************************************************************)
EXTENDS Tokens

CONSTANTS Windows, Shells,  \* programs: windows, and runs of the command line
          Chargers,    \* numbered as their identifiers are ordered
          MaxTokens,   \* bound: identifiers generated
          MaxStarts,   \* bound: programs started
          MaxBinds,    \* bound: bind commands
          MaxOutside,  \* bound: times a charger is put in binding mode
          MaxAnswers,  \* bound: answers of a charger on their way
          Faulty       \* may programs be killed, and files fail?

Programs == Windows \union Shells
Tokens == 1 .. MaxTokens

\* The identifier another host, a phone, has bound a charger with.
Foreign == MaxTokens + 1

ASSUME ProgramsAssumption == Windows \intersect Shells = {}
ASSUME ChargersAssumption == Chargers \subseteq Nat /\ IsFiniteSet(Chargers)
ASSUME BoundsAssumption ==
  /\ {MaxTokens, MaxStarts, MaxBinds, MaxOutside, MaxAnswers} \subseteq Nat
  /\ Faulty \in BOOLEAN

VARIABLES
  phase,    \* per program: "closed", "ready", "asked", "truncate", "write",
            \* and of a run of the command line "search" (for its charger),
            \* "dead" (its link is gone) and "lost" (it knows)
  store,    \* per program: its copy of the token file
  task,     \* per program: what it asks, or has last asked, of which charger
  file,     \* the lines on disk
  held,     \* per charger: the identifier it holds
  binding,  \* the chargers in binding mode
  answers,  \* per charger: its answers to binds, on their way or queued, and
            \* as history the identifier each is about
  minted,   \* identifiers generated so far
  accepted, \* history: <<charger, identifier>> that were ever accepted
  mistaken, \* history: <<charger, identifier>> answered by another's answer
  saved,    \* history: per charger, the identifier last reported as saved
  seen,     \* history: per program, the save it last loaded or made
  saves,    \* history: saves that ended well, from one
  excused,  \* history: chargers a named mishap may have cost their line
  counts    \* history: programs started, binds made, visits to the chargers

programs == <<phase, store, task>>
charger == <<held, binding>>
told == <<accepted, mistaken, saved, seen, saves, excused>>
vars == <<programs, file, charger, answers, minted, told, counts>>
-----------------------------------------------------------------------------
Idle(p) == phase[p] = "ready"
NoTask == [charger |-> 0, token |-> NoToken, op |-> "use", once |-> FALSE,
           given |-> NoToken, took |-> FALSE]

Init ==
  /\ phase = [p \in Programs |-> "closed"]
  /\ store = [p \in Programs |-> NoEntries]
  /\ task = [p \in Programs |-> NoTask]
  /\ file = <<>>
  /\ held = [c \in Chargers |-> Foreign] /\ binding = {}
  /\ answers = [c \in Chargers |-> <<>>]
  /\ minted = 0 /\ accepted = {} /\ mistaken = {}
  /\ saved = [c \in Chargers |-> NoToken]
  /\ seen = [p \in Programs |-> 0] /\ saves = 1 /\ excused = {}
  /\ counts = [starts |-> 0, binds |-> 0, outside |-> 0]

\* A charger is connected to one host at a time.
Busy(p, c) == /\ task[p].charger = c
              /\ phase[p] \notin {"closed", "search", "dead", "lost"}
              /\ p \in Windows => phase[p] # "ready"
Free(p, c) == \A q \in Programs \ {p} : ~Busy(q, c)

\* A new client hears what comes from now on.  The connection may be one that an
\* earlier client has left open, with answers still on their way.
NewClient(c) ==
  \E n \in 0 .. Len(answers[c]) :
    answers' = [answers EXCEPT ![c] = SubSeq(@, n + 1, Len(@))]

\* given is what --client-id says, for as long as the program runs.
Ask(p, c, t, op, once, given) ==
  /\ Free(p, c)
  /\ phase' = [phase EXCEPT ![p] = "asked"]
  /\ task' = [task EXCEPT ![p] = [charger |-> c, token |-> t, op |-> op,
                                  once |-> once, given |-> given, took |-> FALSE]]

Started(n) == counts.starts < MaxStarts /\ counts' = [counts EXCEPT !.starts = @ + 1]
Bound == counts.binds < MaxBinds

\* The first identifier there is: the one supplied, the one stored, or, for a
\* bind, a new one.
ChooseToken(copy, c, supplied, op) ==
  CASE supplied # NoToken -> supplied
    [] GetToken(copy, c) # NoToken -> GetToken(copy, c)
    [] OTHER -> IF op = "bind" THEN minted + 1 ELSE NoToken
Minting(t) == t \in Tokens /\ minted' = IF t > minted THEN t ELSE minted

\* What a program makes of the file when it starts.  The window goes on with
\* nothing when it cannot be read; the command line ends.
Loads(p, copy) ==
  /\ store' = [store EXCEPT ![p] = copy]
  /\ seen' = [seen EXCEPT ![p] = IF copy = Load(file) THEN saves ELSE 0]

OpenWindow(p) ==
  /\ phase[p] = "closed" /\ Started(p)
  /\ \/ Loads(p, Load(file))
     \/ Faulty /\ Loads(p, NoEntries)
  /\ phase' = [phase EXCEPT ![p] = "ready"]
  /\ UNCHANGED <<task, file, charger, answers, minted,
                 accepted, mistaken, saved, saves, excused>>

\* main loads the file, and then looks for the charger.
RunCommand(p, c, supplied, op) ==
  /\ phase[p] = "closed" /\ Started(p)
  /\ Loads(p, Load(file))
  /\ phase' = [phase EXCEPT ![p] = "search"]
  /\ task' = [task EXCEPT ![p] = [charger |-> c, token |-> NoToken, op |-> op,
                                  once |-> op = "bind", given |-> supplied,
                                  took |-> FALSE]]
  /\ UNCHANGED <<file, charger, answers, minted,
                 accepted, mistaken, saved, saves, excused>>

\* Without an identifier only a bind goes on to connect.  A shell binds with it
\* at once.
Connect(p) ==
  /\ phase[p] = "search"
  /\ LET k == task[p]
         t == ChooseToken(store[p], k.charger, k.given, k.op)
     IN /\ Minting(t) /\ Ask(p, k.charger, t, k.op, k.once, k.given)
        /\ NewClient(k.charger)
  /\ UNCHANGED <<store, file, charger, told, counts>>

\* Command::Bind and Command::Connect of the window, each with a client of its own.
WindowAsks(p, c, op) ==
  /\ Idle(p) /\ Bound /\ NewClient(c)
  /\ LET t == ChooseToken(store[p], c, NoToken, op) IN
       Minting(t) /\ Ask(p, c, t, op, FALSE, NoToken)
  /\ counts' = [counts EXCEPT !.binds = @ + 1]
  /\ UNCHANGED <<store, file, charger, told>>

\* bind in a shell, on the client it has: its start-up copy is asked, which no
\* bind changes.
ShellBinds(p, typed) ==
  /\ Idle(p) /\ Bound
  /\ LET c == task[p].charger
         given == task[p].given
         t == ChooseToken(store[p], c, IF typed # NoToken THEN typed ELSE given, "bind")
     IN Minting(t) /\ Ask(p, c, t, "bind", FALSE, given)
  /\ counts' = [counts EXCEPT !.binds = @ + 1]
  /\ UNCHANGED <<store, file, charger, answers, told>>
-----------------------------------------------------------------------------
(* Client::bind: resent when unanswered, so the charger may see it often,  *)
(* and what it answers late is there for the next bind                     *)

\* Where a program is after its request, or its save, is over.
After(p) == IF task[p].once THEN "closed" ELSE "ready"

\* A window goes on after any failure, and so does a shell that is open; one
\* whose first request fails ends.
Failed(p) == IF p \in Shells /\ task[p].op = "use" THEN "closed" ELSE After(p)

\* The charger handles a request.  An identifier that is taken without a bind,
\* and so not saved, is a mishap.
Handle(p, answered) ==
  LET c == task[p].charger
      t == task[p].token
      bound == c \in binding \/ held[c] = t
  IN /\ phase[p] = "asked"
     /\ held' = IF bound THEN [held EXCEPT ![c] = t] ELSE held
     /\ binding' = IF bound THEN binding \ {c} ELSE binding
     /\ accepted' = IF bound THEN accepted \union {<<c, t>>} ELSE accepted
     /\ excused' = IF bound /\ task[p].op = "use" /\ held[c] # t
                   THEN excused \union {c} ELSE excused
     /\ task' = [task EXCEPT ![p].took = bound \/ @]
     /\ IF answered
        THEN /\ Len(answers[c]) < MaxAnswers
             /\ answers' = [answers EXCEPT ![c] = Append(@, [token |-> t, bound |-> bound])]
        ELSE answers' = answers
     /\ UNCHANGED <<phase, store, file, minted, mistaken, saved, seen, saves, counts>>

\* (mutant: the flag of the answer is not looked at)
HearsAny(p, bound) ==
  IF task[p].op = "bind"
  THEN /\ phase' = [phase EXCEPT ![p] = "truncate"]
       /\ store' = IF p \in Windows
                   THEN [store EXCEPT ![p] = SetToken(@, task[p].charger, task[p].token)]
                   ELSE store
  ELSE phase' = [phase EXCEPT ![p] = After(p)] /\ store' = store

\* What the caller of bind makes of the flag.  Only the window keeps what it
\* bound in its copy.
Hears(p, bound) ==
  \/ /\ bound /\ task[p].op = "bind"
     /\ phase' = [phase EXCEPT ![p] = "truncate"]
     /\ store' = IF p \in Windows
                 THEN [store EXCEPT ![p] = SetToken(@, task[p].charger, task[p].token)]
                 ELSE store
  \/ /\ bound /\ task[p].op = "use"
     /\ phase' = [phase EXCEPT ![p] = After(p)] /\ store' = store
  \/ ~bound /\ phase' = [phase EXCEPT ![p] = Failed(p)] /\ store' = store

\* The first answer there is ends the call, whichever request it is about.  One
\* that says of the identifier what is not so any more, or never was, is a mishap.
TakeAnswer(p) ==
  LET c == task[p].charger
      t == task[p].token
      answer == Head(answers[c])
      misleads == IF answer.bound THEN held[c] # t ELSE task[p].took
  IN /\ phase[p] = "asked" /\ answers[c] # <<>>
     /\ answers' = [answers EXCEPT ![c] = Tail(@)]
     /\ Hears(p, answer.bound)
     /\ mistaken' = IF answer.token = t THEN mistaken ELSE mistaken \union {<<c, t>>}
     /\ excused' = IF task[p].op = "bind" /\ misleads THEN excused \union {c} ELSE excused
     /\ UNCHANGED <<task, file, charger, minted, accepted, saved, seen, saves, counts>>

\* Any other command of a shell sets aside the answers to binds it meets.
SetAside(p) ==
  /\ phase[p] = "ready"
  /\ answers[task[p].charger] # <<>> /\ NewClient(task[p].charger)
  /\ UNCHANGED <<programs, file, charger, minted, told, counts>>

\* The program forgets an identifier the charger may have taken.
Forgets(p) ==
  excused' = IF task[p].op = "bind" /\ task[p].took
             THEN excused \union {task[p].charger} ELSE excused

\* No answer to any attempt, or a link that fails.
GiveUp(p) ==
  /\ phase[p] = "asked"
  /\ phase' = [phase EXCEPT ![p] = Failed(p)]
  /\ Forgets(p)
  /\ UNCHANGED <<store, task, file, charger, answers, minted,
                 accepted, mistaken, saved, seen, saves, counts>>
-----------------------------------------------------------------------------
(* Store::save: std::fs::write truncates, then writes                      *)

Text(p) == Lines(SetToken(store[p], task[p].charger, task[p].token), task[p].charger)

Truncate(p) ==
  /\ phase[p] = "truncate"
  /\ phase' = [phase EXCEPT ![p] = "write"]
  /\ file' = <<>>
  /\ UNCHANGED <<store, task, charger, answers, minted, told, counts>>

\* Saving a copy that is older than the file is a mishap for all others.  It is
\* one for this charger if it holds another identifier, or if another
\* program wrote the file since it was truncated.
Write(p) ==
  LET c == task[p].charger
      others == IF seen[p] = saves THEN excused ELSE Chargers
  IN
  /\ phase[p] = "write"
  /\ phase' = [phase EXCEPT ![p] = After(p)]
  /\ file' = Over(file, Text(p))
  /\ saved' = [saved EXCEPT ![c] = task[p].token]
  /\ saves' = saves + 1 /\ seen' = [seen EXCEPT ![p] = saves + 1]
  /\ excused' = IF held[c] = task[p].token /\ file = <<>>
                THEN others \ {c} ELSE others \union {c}
  /\ UNCHANGED <<store, task, charger, answers, minted, accepted, mistaken, counts>>

\* The file cannot be opened, or takes only a part of the text.
SaveFails(p) ==
  /\ Faulty
  /\ \/ phase[p] = "truncate" /\ file' = file /\ Forgets(p)
     \/ /\ phase[p] = "write" /\ excused' = Chargers
        /\ \E n \in 0 .. Len(Text(p)) - 1 : file' = Over(file, SubSeq(Text(p), 1, n))
  /\ phase' = [phase EXCEPT ![p] = After(p)]
  /\ UNCHANGED <<store, task, charger, answers, minted,
                 accepted, mistaken, saved, seen, saves, counts>>
-----------------------------------------------------------------------------
(* Leaving                                                                 *)

\* The user leaves: exit in a shell, the window closed.  A run of the command line
\* ends if it finds no charger, or has no identifier for it.
Leave(p) ==
  /\ phase[p] \in {"ready", "search", "dead"}
  /\ phase' = [phase EXCEPT ![p] = "closed"]
  /\ UNCHANGED <<store, task, file, charger, answers, minted, told, counts>>

Killed(p) ==
  /\ Faulty /\ phase[p] \in {"asked", "truncate", "write"}
  /\ phase' = [phase EXCEPT ![p] = "closed"]
  /\ IF phase[p] = "write" THEN excused' = Chargers ELSE Forgets(p)
  /\ UNCHANGED <<store, task, file, charger, answers, minted,
                 accepted, mistaken, saved, seen, saves, counts>>

\* A shell's link drops while it waits for a line.  Commands then fail, and do
\* not end the session.
LinkDrops(p) ==
  /\ p \in Shells /\ phase[p] = "ready"
  /\ phase' = [phase EXCEPT ![p] = "dead"]
  /\ UNCHANGED <<store, task, file, charger, answers, minted, told, counts>>

\* The query that keeps the link alive fails, because the link is gone or because
\* nothing answered in time: that ends the session.
KeepAlive(p) ==
  /\ p \in Shells /\ phase[p] \in {"ready", "dead"}
  /\ phase' = [phase EXCEPT ![p] = "lost"]
  /\ UNCHANGED <<store, task, file, charger, answers, minted, told, counts>>

\* The thread that reads the line cannot be aborted: the process ends only when
\* the user has typed one.
TypesOnce(p) ==
  /\ phase[p] = "lost"
  /\ phase' = [phase EXCEPT ![p] = "closed"]
  /\ UNCHANGED <<store, task, file, charger, answers, minted, told, counts>>

\* Someone puts a charger in binding mode; a phone may then bind it.
Outside(c) ==
  /\ counts.outside < MaxOutside
  /\ counts' = [counts EXCEPT !.outside = @ + 1]
  /\ \/ c \notin binding /\ binding' = binding \union {c} /\ held' = held
     \/ c \in binding /\ binding' = binding \ {c} /\ held' = [held EXCEPT ![c] = Foreign]
  /\ UNCHANGED <<programs, file, answers, minted, told>>
-----------------------------------------------------------------------------
Supplied == {NoToken} \union 1 .. minted

Next ==
  \/ \E p \in Windows : \/ OpenWindow(p)
                        \/ \E c \in Chargers, op \in {"bind", "use"} : WindowAsks(p, c, op)
  \/ \E p \in Shells, t \in Supplied :
        \/ ShellBinds(p, t)
        \/ \E c \in Chargers, op \in {"bind", "use"} : RunCommand(p, c, t, op)
  \/ \E p \in Shells : Connect(p) \/ SetAside(p)
  \/ \E p \in Programs :
        \/ \E answered \in BOOLEAN : Handle(p, answered)
        \/ TakeAnswer(p) \/ GiveUp(p) \/ Truncate(p) \/ Write(p) \/ SaveFails(p)
        \/ Leave(p) \/ Killed(p) \/ LinkDrops(p) \/ KeepAlive(p) \/ TypesOnce(p)
  \/ \E c \in Chargers : Outside(c)

Spec == Init /\ [][Next]_vars
-----------------------------------------------------------------------------
(* Properties                                                              *)

Line == [charger : Chargers, token : Tokens]
Answers == [token : Tokens, bound : BOOLEAN]

\* The variables keep their types: in particular a program never presents an
\* identifier that is none, and the file is never longer than the chargers.
TypeOK ==
  /\ \A p \in Programs :
       /\ phase[p] \in
            {"closed", "search", "ready", "asked", "truncate", "write", "dead", "lost"}
       /\ DOMAIN store[p] \subseteq Chargers
       /\ phase[p] \in {"asked", "truncate", "write"} =>
            task[p].charger \in Chargers /\ task[p].token \in Tokens
  /\ file \in Seq(Line) /\ Len(file) <= Cardinality(Chargers)
  /\ held \in [Chargers -> Tokens \union {Foreign}]
  /\ answers \in [Chargers -> Seq(Answers)]
  /\ binding \subseteq Chargers /\ excused \subseteq Chargers

StoredIn(pairs) ==
  /\ \A i \in DOMAIN file : <<file[i].charger, file[i].token>> \in pairs
  /\ \A p \in Programs : \A c \in DOMAIN store[p] : <<c, store[p][c]>> \in pairs

\* What is stored, on disk or in a copy, was accepted by its charger at some
\* time, or the call that presented it took the answer to another identifier for
\* its own.  So no program that fails, is killed or saves over another's lines
\* stores a refused identifier.  It is less than main.rs promises ("Nothing is
\* stored unless the charger actually accepted it, so a refusal cannot leave a
\* token behind that does not work"): an answer to an earlier bind may still be
\* on its way, and the next bind takes it.
StoredUnlessStale == StoredIn(accepted \union mistaken)

Saving == \E p \in Programs : phase[p] = "write"
UnderWay(c) == \E p \in Programs : /\ phase[p] \in {"asked", "truncate"}
                                   /\ task[p].charger = c /\ task[p].op = "bind"

\* A charger that holds an identifier of this host finds it in the file, except
\* for a short list of mishaps: an answer that never came or a program killed
\* before it saved, an earlier request's answer taken for its own, a file that
\* could not be written, an older copy saved over it, two saves in each other's
\* way, an identifier the charger took without a bind or while another was being
\* saved.
KnownUnlessMishap ==
  ~Saving =>
    \A c \in Chargers \ excused :
      (held[c] \in Tokens /\ ~UnderWay(c)) => GetToken(Load(file), c) = held[c]

\* An identifier that was reported as saved, and that the charger still holds,
\* is in the file: "this module keeps tokens in a small file so that does not
\* happen" (tokens.rs).  The code breaks this when a window and the command
\* line bind different chargers.
SavedIsKept ==
  ~Saving =>
    \A c \in Chargers :
      (saved[c] # NoToken /\ held[c] = saved[c]) => GetToken(Load(file), c) = held[c]
=============================================================================
