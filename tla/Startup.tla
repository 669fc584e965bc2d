------------------------------- MODULE Startup -------------------------------
(***************************************************************************)
(* The server process from its command line on: main() reads the           *)
(* configuration (Configuration) and runs the server (ServerLifecycle),    *)
(* whose steps succeed or fail for a reason: the settings, the persist     *)
(* path, the save to load, the port and the cores of the process.          *)
(***************************************************************************)
EXTENDS ServerLifecycle, Configuration

CONSTANT Givens  \* the command lines, files and machines the process starts with

ASSUME GivensAssumption ==
  \A g \in Givens : g.file.core \in Nat \cup {NoCore} /\ g.cores \in Nat

VARIABLES
  given,    \* what this process was started with
  settings  \* "unread", Settings as readConfig leaves them, or "aborted": the
            \* process ended in an exception nobody caught

startVars == <<given, settings>>
allVars == <<vars, startVars>>

Args == given.args
File == given.file

\* With settings that are not valid main() returns, otherwise it runs the server.
ReadConfig ==
  /\ settings = "unread"
  /\ settings' = (IF ReadSettings(Args, File) = "throws" THEN "aborted"
                  ELSE ReadSettings(Args, File))
  /\ UNCHANGED <<given, vars>>

\* startupLoad: the save is complete and is read, it is refused or cannot be read,
\* or validatePreLoad throws: md.json that an earlier process left empty, or a
\* directory that is not named by a number.
LoadIs(outcome) == AsksForLoad(Args) /\ given.saved = outcome

LoadThrows ==
  /\ settings = "valid" /\ At("init")
  /\ PersistUsable(File) /\ LoadIs("throws")
  /\ settings' = "aborted"
  /\ UNCHANGED <<given, vars>>

Pinned == CoreFor(File, given.cores) \in given.allowed

\* The steps of the server, each where what the process was given lets it happen.
ServerStarts ==
  /\ settings = "valid"
  /\ \/ PersistUsable(File) /\ (AsksForLoad(Args) => LoadIs("complete")) /\ Run
     \/ (~PersistUsable(File) \/ LoadIs("refused")) /\ RunFails
     \/ Listen /\ given.portFree
     \/ ListenFails /\ ~given.portFree
     \/ Started /\ Pinned
     \/ PinFails /\ ~Pinned
     \/ StopNext
  /\ UNCHANGED startVars

LoopServes ==
  /\ settings = "valid"
  /\ MessageEnds \/ LoopEnds \/ ClientNext
  /\ UNCHANGED startVars

\* The handlers of signals are registered before anything is read.
SignalCaught ==
  /\ settings \in {"unread", "valid"}
  /\ Signal
  /\ UNCHANGED startVars

StartupInit == Init /\ given \in Givens /\ settings = "unread"

StartupNext == ReadConfig \/ LoadThrows \/ ServerStarts \/ LoopServes \/ SignalCaught

StartupFairness ==
  /\ WF_allVars(ReadConfig \/ LoadThrows \/ ServerStarts)
  /\ WF_allVars(MessageEnds /\ LoopServes) /\ WF_allVars(LoopEnds /\ LoopServes)
  /\ \A c \in Client : WF_allVars(Dropped(c) /\ LoopServes)

StartupSpec == StartupInit /\ [][StartupNext]_allVars /\ StartupFairness

-----------------------------------------------------------------------------
(* Properties.                                                             *)

\* What it takes to serve, the version and the core of the file aside: every
\* parameter (home/config.md), a persist path that is there if saving is enabled,
\* the save that is asked for (home/run.md), a free port.
WellGiven ==
  /\ Args.parsed /\ ~Args.help /\ IsThere(Args.config)
  /\ File.json /\ File.wrong = {}
  /\ File.maxPayload \in MinPayload..MaxPayload
  /\ File.enabled => File.path = "directory"
  /\ AsksForLoad(Args) => given.saved = "complete" /\ IsThere(LoadPath(Args, File))
  /\ given.portFree

\* The process may run on the core of the file, or on core 0 for one above those
\* there are; the first number that is no core is not above them.
MayRunOn(core) ==
  IF core > given.cores THEN 0 \in given.allowed ELSE core \in given.allowed

\* What the code takes.  The documents do not agree with it: the version "Must be 5"
\* (home/config.md:55), and a core "not present or above maximum available, defaults
\* to `0`" (home/config.md:56), also the first number that is no core.
Able == WellGiven /\ File.version = 6 /\ File.core # NoCore /\ MayRunOn(File.core)

Gone == settings \in {"invalid", "aborted"} \/ main = "exited"

\* A process that was given what the code needs (Able, which is not in all what the
\* documents ask for) comes to serve, whatever signals come meanwhile; any other
\* ends, also when clients have come before its last step failed - unless one of
\* them completes its handshake while the server stops.
StartupEnds ==
  settings = "unread" ~>
    IF Able THEN main = "waiting" ELSE Gone \/ fault # "none" \/ "opens" \in late
=============================================================================
