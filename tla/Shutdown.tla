------------------------------ MODULE Shutdown ------------------------------
(***************************************************************************)
(* The life of the process: app.Run, from the start of the schedulers to   *)
(* the deferred Close of the database.  A signal cancels appCtx; main then *)
(* lets the HTTP server finish its requests and waits for the goroutines   *)
(* of the schedulers, both within one timeout.                             *)
(***************************************************************************)
EXTENDS Naturals

CONSTANTS
    Connections,      \* of clients, with a request each at a time
    Schedulers,       \* the four background schedulers
    ShutdownTimeout   \* 15 seconds, shorter than a request may take

ASSUME ShutdownAssumption == ShutdownTimeout \in Nat

VARIABLES
    main,       \* where app.Run is
    signalled,  \* appCtx is done
    remaining,  \* time left in shutdownCtx
    handler,    \* the request of each connection
    job         \* what the goroutine of each scheduler does

shutdownVars == <<main, signalled, remaining, handler, job>>

(* Connect succeeded, and every Start has added to the WaitGroup and runs  *)
(* its job once before it first waits.                                     *)
ShutdownInit ==
    /\ main = "serving"
    /\ signalled = FALSE
    /\ remaining = ShutdownTimeout
    /\ handler = [c \in Connections |-> "none"]
    /\ job = [s \in Schedulers |-> "running"]

Quiet   == \A c \in Connections : handler[c] = "none"
Stopped == \A s \in Schedulers : job[s] = "stopped"
Alive   == main # "exited"

----------------------------------------------------------------------------
(* SIGINT or SIGTERM; another one changes nothing.                         *)
Signal ==
    /\ Alive
    /\ ~signalled
    /\ signalled' = TRUE
    /\ UNCHANGED <<main, remaining, handler, job>>

(* ListenAndServe fails: Fatal ends the process, deferred calls and all.   *)
ListenFails ==
    /\ main = "serving"
    /\ main' = "exited"
    /\ handler' = [c \in Connections |-> "none"]
    /\ job' = [s \in Schedulers |-> "stopped"]
    /\ UNCHANGED <<signalled, remaining>>

(* server.Shutdown closes the listeners; a request that is being read on   *)
(* an open connection is still served, and waited for.                     *)
BeginRequest(c) ==
    /\ main \in {"serving", "draining"}
    /\ handler[c] = "none"
    /\ handler' = [handler EXCEPT ![c] = "running"]
    /\ UNCHANGED <<main, signalled, remaining, job>>

(* The context of a request does not descend from appCtx.                  *)
EndRequest(c) ==
    /\ handler[c] = "running"
    /\ handler' = [handler EXCEPT ![c] = "none"]
    /\ UNCHANGED <<main, signalled, remaining, job>>

(* runOnce returns: it is through, or its context is done.                 *)
RunOnce(s) ==
    /\ job[s] = "running"
    /\ job' = [job EXCEPT ![s] = "waiting"]
    /\ UNCHANGED <<main, signalled, remaining, handler>>

(* The select of the loop: with both channels ready it takes either, so    *)
(* that a job may start after the signal.                                  *)
Select(s) ==
    /\ job[s] = "waiting"
    /\ \/ job' = [job EXCEPT ![s] = "running"]
       \/ /\ signalled
          /\ job' = [job EXCEPT ![s] = "stopped"]
    /\ UNCHANGED <<main, signalled, remaining, handler>>

----------------------------------------------------------------------------
StartShutdown ==
    /\ main = "serving" /\ signalled
    /\ main' = "draining"
    /\ UNCHANGED <<signalled, remaining, handler, job>>

(* server.Shutdown returns, without error or with that of shutdownCtx; the *)
(* error leaves Run at once.  SkipSchedulers leaves in either case.        *)
SkipSchedulers ==
    /\ main = "draining"
    /\ Quiet \/ remaining = 0
    /\ main' = "leaving"
    /\ UNCHANGED <<signalled, remaining, handler, job>>

ServerShutdown ==
    /\ main = "draining"
    /\ \/ /\ Quiet
          /\ main' = "waiting"
       \/ /\ remaining = 0
          /\ main' = "leaving"
    /\ UNCHANGED <<signalled, remaining, handler, job>>

(* schedulerStopped or shutdownCtx.Done(); WaitForEver has no timeout.     *)
WaitForEver ==
    /\ main = "waiting"
    /\ Stopped
    /\ main' = "leaving"
    /\ UNCHANGED <<signalled, remaining, handler, job>>

AwaitSchedulers ==
    /\ main = "waiting"
    /\ Stopped \/ remaining = 0
    /\ main' = "leaving"
    /\ UNCHANGED <<signalled, remaining, handler, job>>

CloseDatabase ==
    /\ main = "leaving"
    /\ main' = "closed"
    /\ UNCHANGED <<signalled, remaining, handler, job>>

(* main returns, which ends every goroutine.                               *)
Exit ==
    /\ main = "closed"
    /\ main' = "exited"
    /\ handler' = [c \in Connections |-> "none"]
    /\ job' = [s \in Schedulers |-> "stopped"]
    /\ UNCHANGED <<signalled, remaining>>

Timer ==
    /\ main \in {"draining", "waiting"}
    /\ remaining > 0
    /\ remaining' = remaining - 1
    /\ UNCHANGED <<main, signalled, handler, job>>

Main == StartShutdown \/ ServerShutdown \/ AwaitSchedulers \/ CloseDatabase \/ Exit

ShutdownNext ==
    \/ Signal
    \/ ListenFails
    \/ \E c \in Connections : BeginRequest(c) \/ EndRequest(c)
    \/ \E s \in Schedulers : Alive /\ (RunOnce(s) \/ Select(s))
    \/ Main
    \/ Timer

(* The Go scheduler runs main, the runtime its timer.  No request and no   *)
(* job is assumed to end.                                                  *)
ShutdownFairness == WF_shutdownVars(Main) /\ WF_shutdownVars(Timer)

ShutdownSpec == ShutdownInit /\ [][ShutdownNext]_shutdownVars /\ ShutdownFairness

----------------------------------------------------------------------------
(* Properties *)

ShutdownTypeOK ==
    /\ main \in {"serving", "draining", "waiting", "leaving", "closed", "exited"}
    /\ signalled \in BOOLEAN
    /\ remaining \in 0..ShutdownTimeout
    /\ handler \in [Connections -> {"none", "running"}]
    /\ job \in [Schedulers -> {"running", "waiting", "stopped"}]

(* The database is closed under a request or a job only after the whole    *)
(* timeout: a request that slips in while the server drains and a job that *)
(* a scheduler still starts after the signal are waited for.               *)
DatabaseOutlivesWork ==
    main = "closed" => remaining = 0 \/ (Quiet /\ Stopped)

(* A signal ends the process, even if a request or a job never returns.    *)
SignalEndsProcess == signalled ~> main = "exited"
=============================================================================
