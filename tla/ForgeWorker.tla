---------------------------- MODULE ForgeWorker ----------------------------
(***************************************************************************)
(* forge-worker: the step server (internal/server/server.go, handle) and   *)
(* its client of forge-api's state (cmd/forge-worker/main.go).  A handler  *)
(* loads the record, runs the step on its copy and stores the copy; the    *)
(* load and the store are two requests to forge-api.                       *)
(***************************************************************************)
EXTENDS Environment

CONSTANT Handler   \* request slots: how many calls may be in progress at once

VARIABLES
    worker,        \* the process: "up" or "down"
    handler        \* the request in each slot

workerVars == <<worker, handler>>

(***************************************************************************)
(* "load"  about to load the record         "save"  about to store env     *)
(* "ok"    answers 200                      "error" answers 4xx or 5xx     *)
(***************************************************************************)
Request == [pc   : {"idle", "load", "save", "ok", "error"},
            step : Step,
            comp : BOOLEAN,      \* the compensate endpoint
            env  : Record]       \* the handler's copy, as the step left it

IdleHandler == [pc |-> "idle", step |-> 1, comp |-> FALSE, env |-> NoRecord]

WorkerTypeOK ==
    /\ worker \in {"up", "down"}
    /\ handler \in [Handler -> Request]

WorkerInit ==
    /\ worker = "up"
    /\ handler = [h \in Handler |-> IdleHandler]

-----------------------------------------------------------------------------
(* Mutated forms of the definitions below. *)

\* The idempotency check guards the compensation as well.
EffectSkipsCompensation(r, env) ==
    LET done  == IsAlreadyDone(r.step, env) \/ ~Writes(r.step)
        fails == ~r.comp /\ ExecuteFails(r.step, env)
    IN
    CASE fails           -> [r EXCEPT !.pc = "error"]
      [] ~fails /\ done  -> [r EXCEPT !.pc = "ok"]
      [] OTHER -> [r EXCEPT !.pc  = "save",
                            !.env = IF r.comp THEN Compensated(r.step, env)
                                              ELSE Executed(r.step, env)]

\* The endpoint of a step runs the step after it.
AcceptNextStep(h, s, comp) ==
    /\ worker = "up" /\ handler[h].pc = "idle"
    /\ handler' = [handler EXCEPT ![h] =
                     [pc |-> "load", step |-> IF s < ResourceCount THEN s + 1 ELSE s,
                      comp |-> comp, env |-> NoRecord]]
    /\ UNCHANGED worker

\* A failed request returns without writing a response.
ReplyOnlyOk(h) ==
    /\ handler[h].pc = "ok"
    /\ handler' = [handler EXCEPT ![h] = IdleHandler]
    /\ UNCHANGED worker

-----------------------------------------------------------------------------
\* A request for step s arrives.
Accept(h, s, comp) ==
    /\ worker = "up" /\ handler[h].pc = "idle"
    /\ handler' = [handler EXCEPT ![h] =
                     [pc |-> "load", step |-> s, comp |-> comp, env |-> NoRecord]]
    /\ UNCHANGED worker

\* What the handler does with the record it loaded, up to the call of Put.
Effect(r, env) ==
    LET done  == (~r.comp /\ IsAlreadyDone(r.step, env)) \/ ~Writes(r.step)
        fails == ~r.comp /\ ExecuteFails(r.step, env)
    IN
    CASE fails           -> [r EXCEPT !.pc = "error"]
      [] ~fails /\ done  -> [r EXCEPT !.pc = "ok"]
      [] OTHER -> [r EXCEPT !.pc  = "save",
                            !.env = IF r.comp THEN Compensated(r.step, env)
                                              ELSE Executed(r.step, env)]

Load(h, env) ==
    /\ handler[h].pc = "load"
    /\ handler' = [handler EXCEPT ![h] = Effect(@, env)]
    /\ UNCHANGED worker

\* The store client's request, or the step itself before it, returns an error.
RequestFails(h) ==
    /\ handler[h].pc \in {"load", "save"}
    /\ handler' = [handler EXCEPT ![h].pc = "error", ![h].env = NoRecord]
    /\ UNCHANGED worker

\* The Put was answered 200.
Saved(h) ==
    /\ handler[h].pc = "save"
    /\ handler' = [handler EXCEPT ![h].pc = "ok", ![h].env = NoRecord]
    /\ UNCHANGED worker

\* The Put took effect but its answer never came.
SavedUnacknowledged(h) ==
    /\ handler[h].pc = "save"
    /\ handler' = [handler EXCEPT ![h].pc = "error", ![h].env = NoRecord]
    /\ UNCHANGED worker

\* The response is written; the slot is free.
Reply(h) ==
    /\ handler[h].pc \in {"ok", "error"}
    /\ handler' = [handler EXCEPT ![h] = IdleHandler]
    /\ UNCHANGED worker

\* The process is killed or terminated: shutting down waits for no handler.
WorkerCrash ==
    /\ worker = "up"
    /\ worker' = "down"
    /\ handler' = [h \in Handler |-> IdleHandler]

WorkerRestart ==
    /\ worker = "down"
    /\ worker' = "up"
    /\ UNCHANGED handler
=============================================================================
