-------------------------------- MODULE ExecCmd -------------------------------
(***************************************************************************)
(* runCmd of scripts/quality/exec.mjs: a command, the processes it leaves   *)
(* behind with its pipes, the timer, and the two events that settle the     *)
(* promise.                                                                *)
(***************************************************************************)
EXTENDS Integers

CONSTANTS
    Pending,       \* a model value
    Codes,         \* how a command ends: exit codes, "killed", "spawn error"
    Children,      \* processes the command may start
    MaxOutput      \* chunks that are written at most

Success == "0"

ASSUME CodesAssumption ==
    /\ {Success, "spawn error", "killed"} \subseteq Codes
    /\ Pending \notin Codes

ASSUME OutputAssumption == MaxOutput \in Nat

VARIABLES
    exitCode,      \* how the command ended, Pending before
    children,      \* processes that hold its stdout and stderr
    written,       \* chunks in the pipes or read
    read,          \* chunks in stdout + stderr
    timer,         \* "armed", "fired" or "cleared"
    killed,
    events,        \* "none", "error" (to be emitted), "close" (was emitted)
    verdict,       \* passed, as the promise was resolved
    output         \* chunks in the output it was resolved with

execVars == <<exitCode, children, written, read, timer, killed, events, verdict, output>>

--------------------------------------------------------------------------------
ExecInit ==
    /\ exitCode = Pending /\ children = {}
    /\ written = 0 /\ read = 0
    /\ timer = "armed" /\ killed = FALSE
    /\ events = "none"
    /\ verdict = Pending /\ output = 0

Running == exitCode = Pending

\* A process holds the write ends of the pipes.
Held == Running \/ children # {}

(* The command and what it starts. *)

SpawnFails ==
    /\ Running /\ children = {} /\ written = 0 /\ timer = "armed"
    /\ exitCode' = "spawn error" /\ events' = "error"
    /\ UNCHANGED <<children, written, read, timer, killed, verdict, output>>

StartsChild ==
    /\ Running
    /\ \E c \in Children \ children : children' = children \cup {c}
    /\ UNCHANGED <<exitCode, written, read, timer, killed, events, verdict, output>>

Writes ==
    /\ Held /\ written < MaxOutput
    /\ written' = written + 1
    /\ UNCHANGED <<exitCode, children, read, timer, killed, events, verdict, output>>

Exits ==
    /\ Running
    /\ exitCode' \in Codes \ {"spawn error", "killed"}
    /\ UNCHANGED <<children, written, read, timer, killed, events, verdict, output>>

ChildExits ==
    /\ \E c \in children : children' = children \ {c}
    /\ UNCHANGED <<exitCode, written, read, timer, killed, events, verdict, output>>

--------------------------------------------------------------------------------
(* The handlers of runCmd. *)

OnData ==
    /\ read < written
    /\ read' = read + 1
    /\ UNCHANGED <<exitCode, children, written, timer, killed, events, verdict, output>>

\* Mutant: the command is not killed.
OnlyMarkTimeout ==
    /\ timer = "armed" /\ events # "error"
    /\ timer' = "fired" /\ killed' = TRUE
    /\ UNCHANGED <<exitCode, children, written, read, events, verdict, output>>

\* Once the command has ended the kill finds no process; 'error' comes before any
\* timer.
OnTimeout ==
    /\ timer = "armed" /\ events # "error"
    /\ timer' = "fired" /\ killed' = TRUE
    /\ exitCode' = IF Running THEN "killed" ELSE exitCode
    /\ UNCHANGED <<children, written, read, events, verdict, output>>

\* A promise keeps what it was resolved with first.
Resolve(passed) ==
    /\ verdict' = IF verdict = Pending THEN passed ELSE verdict
    /\ output' = IF verdict = Pending THEN read ELSE output

\* Mutant: the exit code decides, whether the timer has fired or not.
OnCloseByCode ==
    /\ ~Held /\ read = written /\ events = "none"
    /\ events' = "close"
    /\ timer' = IF timer = "armed" THEN "cleared" ELSE timer
    /\ Resolve(exitCode = Success)
    /\ UNCHANGED <<exitCode, children, written, read, killed>>

\* 'close': the command has ended, and the pipes are drained and held by nobody.
OnClose ==
    /\ ~Held /\ read = written /\ events = "none"
    /\ events' = "close"
    /\ timer' = IF timer = "armed" THEN "cleared" ELSE timer
    /\ Resolve(exitCode = Success /\ ~killed)
    /\ UNCHANGED <<exitCode, children, written, read, killed>>

\* Mutant: the timer is left to fire.
OnErrorTimerArmed ==
    /\ events = "error"
    /\ events' = "none"
    /\ Resolve(FALSE)
    /\ UNCHANGED <<exitCode, children, written, read, timer, killed>>

\* 'error', which 'close' follows.
OnError ==
    /\ events = "error"
    /\ events' = "none"
    /\ timer' = IF timer = "armed" THEN "cleared" ELSE timer
    /\ Resolve(FALSE)
    /\ UNCHANGED <<exitCode, children, written, read, killed>>

Environment == SpawnFails \/ StartsChild \/ Writes \/ Exits \/ ChildExits

Handlers == OnData \/ OnTimeout \/ OnClose \/ OnError

ExecNext == Environment \/ Handlers

ExecSpec == ExecInit /\ [][ExecNext]_execVars

\* The event loop delivers what is due; nothing says that a process ends.
FairExecSpec ==
    /\ ExecSpec
    /\ WF_execVars(OnData) /\ WF_execVars(OnTimeout)
    /\ WF_execVars(OnClose) /\ WF_execVars(OnError)

--------------------------------------------------------------------------------
ExecTypeOK ==
    /\ exitCode \in Codes \cup {Pending}
    /\ children \subseteq Children
    /\ written \in 0..MaxOutput
    /\ read \in 0..written
    /\ timer \in {"armed", "fired", "cleared"}
    /\ killed = (timer = "fired")
    /\ events \in {"none", "error", "close"}
    /\ verdict \in BOOLEAN \cup {Pending}
    /\ output \in 0..read

Contract == INSTANCE CommandContract WITH code <- exitCode, overdue <- killed

\* Events, timer and kill, in whatever order they come, make one verdict, and
\* "passed" only of a command that ended with 0 before its time was up.
OneVerdict == Contract!ContractSpec

\* No timer is left armed, and no command running, behind a verdict.
NothingLeftBehind == verdict # Pending => timer # "armed" /\ ~Running

\* The gate is settled in the end: by the command, by its timer, by an error; or a
\* process that the command has started keeps the pipes open for ever.
SettlesUnlessHeld == <>(verdict # Pending) \/ <>[](children # {})

================================================================================
