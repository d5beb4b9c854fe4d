------------------------------ MODULE Lifecycle ------------------------------
(***************************************************************************)
(* The life of a mergemock process (main.go) around its three commands:    *)
(* main starts the command in a goroutine of its own and waits for it or   *)
(* for an interrupt; a command that started runs until an interrupt, when  *)
(* main calls Close, which hands a token over an unbuffered channel to the *)
(* goroutine of the command (consensus.go, engine.go, relay.go).  The      *)
(* consensus mock takes the token in its slot loop only, so the            *)
(* proof-of-work prologue comes first; that loop also ends the process on  *)
(* its own, at the slot bound or when a goroutine of it fails.             *)
(***************************************************************************)
EXTENDS PowPrologue

CONSTANTS
    Commands,       \* a subset of {"consensus", "engine", "relay"}
    UseBuilder,     \* BuilderAddr # "": Run registers validators with a relay
    SlotBound,      \* slots of a test run, 0 for a mock that runs until it is closed
    MaxSignals      \* bound: interrupts a user sends

ASSUME LifecycleAssumption ==
    /\ Commands \subseteq {"consensus", "engine", "relay"}
    /\ UseBuilder \in BOOLEAN
    /\ {SlotBound, MaxSignals} \subseteq Nat

VARIABLES
    cmd,            \* the command
    run,            \* its Run: setup, open, and its result ok, err or help
    main,           \* main: select, await (<-interrupt), close, closed
    interrupt,      \* whether the channel interrupt, of capacity 1, is full
    signals,        \* how many interrupts were sent
    cancelled,      \* whether ctx is
    resources       \* what the command opened: the engine client, the servers, ...

lifecycleVars == <<cmd, run, main, interrupt, signals, cancelled, resources>>

allVars == <<prologueVars, lifecycleVars>>

Init ==
    /\ PrologueInit
    /\ cmd \in Commands
    /\ run = "setup"
    /\ main = "select"
    /\ interrupt = FALSE
    /\ signals = 0
    /\ cancelled = FALSE
    /\ resources = {}

Running == proc = "running"

Exit(code) ==
    /\ proc' = code
    /\ UNCHANGED <<step, minerVars, transition, peerVars>>

-----------------------------------------------------------------------------
(* Run of the command, in the goroutine main starts *)

RunResult(r) ==
    /\ run' = r
    /\ UNCHANGED <<cmd, main, interrupt, signals, cancelled, resources>>

\* The consensus mock checks its flags, dials the engine and registers its
\* validators; the latter fails when the context is cancelled.
Setup ==
    /\ Running
    /\ cmd = "consensus"
    /\ run = "setup"
    /\ UseBuilder => ~cancelled
    /\ RunResult("open")
    /\ UNCHANGED prologueVars

\* What a command has open once it started.
Opened(c) ==
    CASE c = "consensus" -> {"client", "db"}
      [] c = "engine"    -> {"rpc", "http", "ws"}
      [] OTHER           -> {"rest", "rpc", "http", "ws"}

\* The last things are opened, and the goroutine of the command is started.
Started ==
    /\ Running
    /\ \/ cmd = "consensus" /\ run = "open" /\ StartNode
       \/ cmd # "consensus" /\ run = "setup" /\ UNCHANGED prologueVars
    /\ resources' = Opened(cmd)
    /\ run' = "ok"
    /\ UNCHANGED <<cmd, main, interrupt, signals, cancelled>>

RunFails ==
    /\ Running
    /\ run \in {"setup", "open"}
    /\ RunResult("err")
    /\ UNCHANGED prologueVars

\* The arguments ask for the usage: Execute returns HelpErr and runs nothing.
AskHelp ==
    /\ Running
    /\ run = "setup"
    /\ RunResult("help")
    /\ UNCHANGED prologueVars

\* log.Fatal: no JWT secret, no chain, no backend.
RunFatal ==
    /\ Running
    /\ run = "setup"
    /\ Exit("exit1")
    /\ UNCHANGED lifecycleVars

-----------------------------------------------------------------------------
(* main *)

\* signal.Notify drops a signal when the channel is full.
Signal ==
    /\ Running
    /\ signals < MaxSignals
    /\ signals' = signals + 1
    /\ interrupt' = TRUE
    /\ UNCHANGED <<prologueVars, cmd, run, main, cancelled, resources>>

\* An interrupt during the start only cancels the context.
CancelStart ==
    /\ Running
    /\ main = "select"
    /\ interrupt
    /\ interrupt' = FALSE
    /\ cancelled' = TRUE
    /\ UNCHANGED <<prologueVars, cmd, run, main, signals, resources>>

\* The command started: all three can be closed, so main waits for an interrupt.
AwaitInterrupt ==
    /\ Running
    /\ main = "select"
    /\ run = "ok"
    /\ main' = "await"
    /\ UNCHANGED <<prologueVars, cmd, run, interrupt, signals, cancelled, resources>>

\* An error of Execute or of Run; a usage that was asked for is none.
StartFailed ==
    /\ Running
    /\ main = "select"
    /\ \/ run = "err" /\ Exit("exit1")
       \/ run = "help" /\ Exit("exit0")
    /\ UNCHANGED lifecycleVars

CallClose ==
    /\ Running
    /\ main = "await"
    /\ interrupt
    /\ interrupt' = FALSE
    /\ main' = "close"
    /\ UNCHANGED <<prologueVars, cmd, run, signals, cancelled, resources>>

\* Mutants: a channel with a buffer, which Close fills without a receiver, and a
\* loop that does not look at the channel.
TakesCloseAnytime == TRUE
TakesCloseNever == cmd # "consensus"

\* The goroutine that receives from c.close: the slot loop, or a server's.
TakesClose == cmd = "consensus" => step = "loop"

\* Close meets the receiver.
HandOver ==
    /\ Running
    /\ main = "close"
    /\ TakesClose
    /\ main' = "closed"
    /\ UNCHANGED <<prologueVars, cmd, run, interrupt, signals, cancelled, resources>>

\* The receiver closes one thing after the other; a relay leaves its engine alone.
CloseOne ==
    /\ Running
    /\ main = "closed"
    /\ \E x \in resources :
          /\ cmd = "relay" => x = "rest"
          /\ x = "db" => "client" \notin resources
          /\ x = "http" => "rpc" \notin resources
          /\ x = "ws" => "http" \notin resources
          /\ resources' = resources \ {x}
    /\ UNCHANGED <<prologueVars, cmd, run, main, interrupt, signals, cancelled>>

\* main cancels the context and exits, however far the receiver is.
ExitClosed ==
    /\ Running
    /\ main = "closed"
    /\ cancelled' = TRUE
    /\ Exit("exit0")
    /\ UNCHANGED <<cmd, run, main, interrupt, signals, resources>>

-----------------------------------------------------------------------------
(* The ends of a started consensus mock that nobody closed.  Its loop goes on *)
(* after it took the token, until main exits.                                 *)

\* The loop is back at its select: it is not in the middle of closing things.
InLoop ==
    /\ Running
    /\ cmd = "consensus"
    /\ step = "loop"

AtSelect == InLoop /\ (main = "closed" => resources = {})

\* A tick beyond the last slot of a test run.
BoundReached ==
    /\ AtSelect
    /\ SlotBound > 0
    /\ Exit("exit0")
    /\ UNCHANGED lifecycleVars

\* maybeExit in a goroutine of the loop: the client refused something.
GoroutineExits ==
    /\ InLoop
    /\ SlotBound # 0
    /\ Exit("exit1")
    /\ UNCHANGED lifecycleVars

\* The header of a reorg target that does not exist is used.
LoopPanics ==
    /\ AtSelect
    /\ Exit("crashed")
    /\ UNCHANGED lifecycleVars

SlotLoop == BoundReached \/ GoroutineExits \/ LoopPanics

-----------------------------------------------------------------------------
(* KeepAlive, the goroutine that pings the client *)

KeepAliveIs(s) ==
    /\ keepAlive' = s
    /\ UNCHANGED <<proc, step, minerVars, transition, version, peerHead, announced,
                   lifecycleVars>>

\* A tick of its ticker.
Ping ==
    /\ Running
    /\ keepAlive = "select"
    /\ KeepAliveIs("ping")

\* The client takes the ping, or the connection breaks, which is only logged.
Pinged ==
    /\ Running
    /\ keepAlive = "ping"
    /\ KeepAliveIs("select")

\* A mutant: the prologue forgets to cancel the context of the pings.
KeepAliveOutlives == keepAlive = "select" /\ cancelled

\* The context of KeepAlive is a child of the process's.
KeepAliveDone == keepAlive = "select" /\ (cancelled \/ step \in {"reopen", "loop"})

KeepAliveEnds ==
    /\ Running
    /\ KeepAliveDone
    /\ KeepAliveIs("off")

-----------------------------------------------------------------------------

Command == Setup \/ Started \/ RunFails \/ AskHelp \/ RunFatal

Main == CancelStart \/ AwaitInterrupt \/ StartFailed \/ CallClose \/ HandOver \/ ExitClosed

Node == Prologue /\ UNCHANGED lifecycleVars

Pings == Ping \/ Pinged \/ KeepAliveEnds

Next == Command \/ Main \/ Signal \/ CloseOne \/ Node \/ SlotLoop \/ Pings

Spec == Init /\ [][Next]_allVars

\* Where the prologue waits for the client without a deadline: the encryption
\* handshake of Dial, the status exchange, and the write of a block.
AwaitsClient == At("dial") \/ At("status") \/ At("announce")

\* The runtime schedules main and the prologue; the client may stop talking and
\* reading for ever where there is no deadline, so nothing is assumed there, nor
\* of a ping on its way.  The reorgs leave a chance to the head (ReorgFreq < 1),
\* which is drawn for every block; and KeepAlive, which is at its select between
\* two ticks, sees that its context is done.
FairSpec ==
    /\ Spec
    /\ WF_allVars(Main)
    /\ WF_allVars(Node /\ ~AwaitsClient)
    /\ SF_allVars(MineOnHead /\ UNCHANGED lifecycleVars)
    /\ SF_allVars(KeepAliveEnds)

-----------------------------------------------------------------------------
(* Properties *)

\* What exit code 0 means: the usage was asked for; or the command started and
\* took the token of Close, or was a test run to its slot bound.  A consensus mock
\* that exits with it is through its prologue: an interrupt does not cut the
\* transition short, and closes nothing under the miner.
CleanExit ==
    /\ proc = "exit0" /\ run # "help" =>
          /\ run = "ok"
          /\ main = "closed" \/ (cmd = "consensus" /\ SlotBound > 0)
          /\ cmd = "consensus" =>
                /\ step = "loop"
                /\ EnodeGiven /\ TerminalTotalDifficulty # 0 => TtdReached
    /\ run = "ok" /\ (main # "closed" \/ step \notin {"off", "loop"}) =>
          resources = Opened(cmd)

\* The inductive invariant behind it: main gets past its select with a command that
\* started, and past Close with one that took the token; the slot loop comes after
\* the terminal block.
CloseInv ==
    /\ main \in {"await", "close", "closed"} => run = "ok"
    /\ main = "closed" /\ cmd = "consensus" => step = "loop"
    /\ run = "ok" /\ main # "closed" => resources = Opened(cmd)
    /\ step # "off" => cmd = "consensus" /\ run = "ok"
    /\ step = "open" => EnodeGiven
    /\ step \in {"reopen", "loop"} /\ EnodeGiven /\ TerminalTotalDifficulty # 0 => TtdReached
    /\ proc = "exit0" =>
          \/ run = "help"
          \/ main = "closed"
          \/ step = "loop" /\ SlotBound > 0

\* An interrupt that finds the command started ends the process, also while the
\* prologue mines and Close waits for it, unless the client leaves the prologue
\* waiting for ever.  (An interrupt during the start is consumed by cancelling the
\* context; another one is needed.)
LateInterruptStops ==
    (main = "await" /\ interrupt) ~> (proc # "running" \/ []AwaitsClient)

\* What main.go says of the command: it can be stopped at any time.
StopsAnyTime == (main = "await" /\ interrupt) ~> (proc # "running")

\* The goroutine that pings the client does not outlive the prologue, unless the
\* client never takes a ping.
PingsEnd ==
    (step = "reopen") ~> (keepAlive = "off" \/ proc # "running" \/ [](keepAlive = "ping"))

=============================================================================
