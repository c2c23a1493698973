----------------------------- MODULE AudioModels -----------------------------
(***************************************************************************)
(* The speech and the emotion model of a Worker, each in a process of its  *)
(* own that answers one JSON line per request: EmotionSubprocessClient,    *)
(* which AsrSubprocessClient wraps, the child's loop, and                  *)
(* RealAudioStageRunner, which starts, swaps and closes the two processes. *)
(*                                                                         *)
(* A client has no lock: the semaphore of GuardedAudio and                 *)
(* GpuGuardedRunner is all that separates the threads that use it.  A step *)
(* of a thread is one access to a process or to its queue of lines, a step *)
(* of a child one line read or written.  A reply is abstracted to its type *)
(* and the recording it is about; of a failure only retryable is kept.     *)
(***************************************************************************)
EXTENDS Naturals, Sequences, FiniteSets

CONSTANTS
  Threads,      \* threads of the Worker's pool
  Files,        \* recordings
  Permits,      \* gpu_workers
  Slots,        \* bound: processes at once, those of a dead Worker included
  MaxFaults,    \* bound: children that fail, die, fall silent or print noise
  MaxDeaths,    \* bound: Workers killed
  Nothing       \* no process, no recording

ASSUME AudioAssumption ==
  /\ IsFiniteSet(Threads)
  /\ Permits \in Nat \ {0}
  /\ Slots \in Nat \ {0} /\ MaxFaults \in Nat /\ MaxDeaths \in Nat
  /\ Nothing \notin Files /\ Nothing \notin 1..Slots

VARIABLES
  lowMemory,   \* BATCH_LOW_MEMORY_MODE
  worker,      \* the Worker: down, starting (warmup) or up
  client,      \* _process of the client of each model
  procs,       \* the processes of the operating system, by slot
  calls,       \* what each thread does
  faults, deaths

vars == <<lowMemory, worker, client, procs, calls, faults, deaths>>

Models == {"ASR", "EMOTION"}
Other == [ASR |-> "EMOTION", EMOTION |-> "ASR"]

(* A free slot, or a process that has been waited for.                     *)
Gone == [state |-> "gone", model |-> "ASR", piped |-> FALSE, requests |-> <<>>, lines |-> <<>>]

(* What Popen starts.  piped: the Worker holds the other end of its stdin. *)
NewChild(m) ==
  [state |-> "loading", model |-> m, piped |-> TRUE, requests |-> <<>>, lines |-> <<>>]

NoCall == [pc |-> "idle", model |-> "ASR", file |-> Nothing, reply |-> Nothing]

Reply(type, f) == [type |-> type, file |-> f]

Live(p) == procs[p].state \notin {"gone", "exited"}
Owned(p) == \E m \in Models : client[m] = p

(* poll() of the client's process returns None.                            *)
Running(m) == client[m] # Nothing /\ Live(client[m])

Free == {p \in 1..Slots : procs[p].state = "gone"}

(* Threads between the acquisition of a permit and its release.            *)
Holders == {t \in Threads : calls[t].pc \in {"swap", "start", "startup", "write", "read", "return"}}

-----------------------------------------------------------------------------
Init ==
  /\ lowMemory \in BOOLEAN
  /\ worker = "down"
  /\ client = [m \in Models |-> Nothing]
  /\ procs = [p \in 1..Slots |-> Gone]
  /\ calls = [t \in Threads |-> NoCall]
  /\ faults = 0
  /\ deaths = 0

(***************************************************************************)
(* The child                                                               *)
(***************************************************************************)
Fault == faults < MaxFaults /\ faults' = faults + 1

(* A process ends: its client still holds the lines that it has written;   *)
(* one that nobody holds is reaped.                                        *)
End(p) ==
  procs' = [procs EXCEPT ![p] =
    IF Owned(p) THEN [@ EXCEPT !.state = "exited", !.requests = <<>>] ELSE Gone]

(* _child_send, after which the process is in that state; a line that      *)
(* cannot be written ends it.                                              *)
Says(p, reply, state, requests) ==
  IF procs[p].piped /\ procs[p].state # "mute"
  THEN procs' = [procs EXCEPT ![p] =
         [@ EXCEPT !.lines = Append(procs[p].lines, reply), !.state = state,
                   !.requests = requests]]
  ELSE End(p)

Load(p) ==
  /\ procs[p].state = "loading"
  /\ Says(p, Reply("ready", Nothing), "serving", procs[p].requests)
  /\ UNCHANGED <<lowMemory, worker, client, calls, faults, deaths>>

(* The model cannot be loaded: an error line, then the process returns 1.  *)
LoadFails(p) ==
  /\ procs[p].state = "loading"
  /\ Fault
  /\ Says(p, Reply("error", Nothing), "failing", procs[p].requests)
  /\ UNCHANGED <<lowMemory, worker, client, calls, deaths>>

Return(p) ==
  /\ procs[p].state = "failing"
  /\ End(p)
  /\ UNCHANGED <<lowMemory, worker, client, calls, faults, deaths>>

(* One request, one answer: the result, or the error inference raised.     *)
Answer(p) ==
  /\ procs[p].state \in {"serving", "mute"}
  /\ procs[p].requests # <<>>
  /\ \E type \in {"result", "error"} :
       Says(p, Reply(type, Head(procs[p].requests)), "serving", Tail(procs[p].requests))
  /\ UNCHANGED <<lowMemory, worker, client, calls, faults, deaths>>

(* The end of stdin, when the Worker has died, ends the loop.              *)
EndOfInput(p) ==
  /\ procs[p].state \in {"serving", "mute"}
  /\ procs[p].requests = <<>> /\ ~procs[p].piped
  /\ End(p)
  /\ UNCHANGED <<lowMemory, worker, client, calls, faults, deaths>>

(* A native crash, the OOM killer.                                         *)
Crash(p) ==
  /\ Live(p)
  /\ Fault
  /\ End(p)
  /\ UNCHANGED <<lowMemory, worker, client, calls, deaths>>

(* A library prints to stdout, or closes it.                               *)
Misbehave(p) ==
  /\ procs[p].state \in {"loading", "serving"} /\ procs[p].piped
  /\ Fault
  /\ \/ Says(p, Reply("noise", Nothing), procs[p].state, procs[p].requests)
     \/ /\ procs[p].state = "serving"
        /\ procs' = [procs EXCEPT ![p].state = "mute"]
  /\ UNCHANGED <<lowMemory, worker, client, calls, deaths>>

(***************************************************************************)
(* The client                                                              *)
(***************************************************************************)

(* Faulty variant: the process is forgotten but not terminated.            *)
DiscardForgets(ms) ==
  /\ client' = [m \in Models |-> IF m \in ms THEN Nothing ELSE client[m]]
  /\ UNCHANGED procs

(* _discard_process, and close, which says stop before it: the process is  *)
(* terminated, killed if need be, and waited for.                          *)
Discard(ms) ==
  /\ client' = [m \in Models |-> IF m \in ms THEN Nothing ELSE client[m]]
  /\ procs' = [p \in 1..Slots |-> IF \E m \in ms : client[m] = p THEN Gone ELSE procs[p]]

Goto(t, pc) == calls' = [calls EXCEPT ![t].pc = pc]

(* The call has this outcome and releases its permit next.                 *)
Ends(t, reply) == calls' = [calls EXCEPT ![t] = [@ EXCEPT !.pc = "return", !.reply = reply]]

Retryable == Reply("retry", Nothing)

(* An EmotionWorkerError that may be retried, after a discard.  One that   *)
(* leaves warmup ends the Worker, whose main closes the runner.            *)
Raise(t) ==
  IF worker = "starting"
  THEN /\ Discard(Models)
       /\ worker' = "down"
       /\ calls' = [calls EXCEPT ![t] = NoCall]
  ELSE /\ Discard({calls[t].model})
       /\ Ends(t, Retryable)
       /\ UNCHANGED worker

(* start: a process that runs is used again, another one is replaced.  The *)
(* operating system may refuse a new one.                                  *)
Start(t) ==
  /\ calls[t].pc = "start"
  /\ LET m == calls[t].model
         slots == (Free \cup {client[m]}) \ {Nothing}
         new == CHOOSE p \in slots : TRUE
     IN  \/ /\ Running(m)
            /\ Goto(t, "write")
            /\ UNCHANGED <<worker, client, procs, faults>>
         \/ /\ ~Running(m)
            /\ slots # {}
            /\ client' = [client EXCEPT ![m] = new]
            /\ procs' = [p \in 1..Slots |->
                 CASE p = new -> NewChild(m) [] p # new /\ p = client[m] -> Gone [] OTHER -> procs[p]]
            /\ Goto(t, "startup")
            /\ UNCHANGED <<worker, faults>>
         \/ /\ ~Running(m)
            /\ Fault
            /\ Raise(t)
  /\ UNCHANGED <<lowMemory, deaths>>

Lines(t) == procs[client[calls[t].model]].lines

(* _read_response takes the next line.                                     *)
Reads(t) == procs' = [procs EXCEPT ![client[calls[t].model]].lines = Tail(@)]

Hears(t, types) ==
  /\ calls[t].pc \in {"startup", "read"}
  /\ Lines(t) # <<>> /\ Head(Lines(t)).type \in types

(* A line that is not of the protocol is dropped, the deadline stays.      *)
Skip(t) ==
  /\ Hears(t, {"noise"})
  /\ Reads(t)
  /\ UNCHANGED <<lowMemory, worker, client, calls, faults, deaths>>

(* Faulty variant: no deadline, only the end of the pipe ends a call.      *)
UnansweredAtEndOnly(t) ==
  /\ calls[t].pc \in {"startup", "read"}
  /\ Lines(t) = <<>> /\ procs[client[calls[t].model]].state \in {"exited", "mute"}
  /\ Raise(t)
  /\ UNCHANGED <<lowMemory, faults, deaths>>

(* Faulty variant: a process that is late is kept for the next request.    *)
UnansweredKeeps(t) ==
  /\ calls[t].pc \in {"startup", "read"}
  /\ Lines(t) = <<>> \/ Hears(t, {"noise"})
  /\ IF calls[t].pc = "startup" THEN Raise(t)
     ELSE Ends(t, Retryable) /\ UNCHANGED <<worker, client, procs>>
  /\ UNCHANGED <<lowMemory, faults, deaths>>

(* The deadline, or the end of the pipe.                                   *)
Unanswered(t) ==
  /\ calls[t].pc \in {"startup", "read"}
  /\ Lines(t) = <<>> \/ Hears(t, {"noise"})
  /\ Raise(t)
  /\ UNCHANGED <<lowMemory, faults, deaths>>

(* The first reply of a process.  warmup loads the other model next.       *)
Started(t) ==
  /\ calls[t].pc = "startup" /\ Hears(t, {"ready", "error"})
  /\ IF Head(Lines(t)).type = "error" THEN Raise(t)
     ELSE /\ Reads(t)
          /\ CASE worker = "up" -> Goto(t, "write") /\ UNCHANGED worker
               [] worker = "starting" /\ calls[t].model = "ASR" ->
                    /\ calls' = [calls EXCEPT ![t].pc = "start", ![t].model = "EMOTION"]
                    /\ UNCHANGED worker
               [] OTHER -> calls' = [calls EXCEPT ![t] = NoCall] /\ worker' = "up"
          /\ UNCHANGED client
  /\ UNCHANGED <<lowMemory, faults, deaths>>

Write(t) ==
  /\ calls[t].pc = "write"
  /\ LET m == calls[t].model IN
     IF Running(m)
     THEN /\ procs' = [procs EXCEPT ![client[m]].requests = Append(@, calls[t].file)]
          /\ Goto(t, "read")
          /\ UNCHANGED <<worker, client>>
     ELSE Raise(t)
  /\ UNCHANGED <<lowMemory, faults, deaths>>

(* An error of the inference itself leaves the process in place and is not *)
(* retried.                                                                *)
Answered(t) ==
  /\ calls[t].pc = "read" /\ Hears(t, {"ready", "result", "error"})
  /\ IF Head(Lines(t)).type = "ready" THEN Raise(t)
     ELSE /\ Reads(t)
          /\ Ends(t, Head(Lines(t)))
          /\ UNCHANGED <<worker, client>>
  /\ UNCHANGED <<lowMemory, faults, deaths>>

(***************************************************************************)
(* The runner and the Worker                                               *)
(***************************************************************************)

(* A stage calls run_asr or run_emotion for its recording.                 *)
Call(t, m, f) ==
  /\ worker = "up" /\ calls[t].pc = "idle"
  /\ \A u \in Threads : calls[u].file # f
  /\ calls' = [calls EXCEPT ![t] = [NoCall EXCEPT !.pc = "wait", !.model = m, !.file = f]]
  /\ UNCHANGED <<lowMemory, worker, client, procs, faults, deaths>>

Acquire(t) ==
  /\ calls[t].pc = "wait"
  /\ Cardinality(Holders) < Permits
  /\ Goto(t, "swap")
  /\ UNCHANGED <<lowMemory, worker, client, procs, faults, deaths>>

(* In low-memory mode the process of the other model is closed first.      *)
Swap(t) ==
  /\ calls[t].pc = "swap"
  /\ Goto(t, "start")
  /\ IF lowMemory THEN Discard({Other[calls[t].model]}) ELSE UNCHANGED <<client, procs>>
  /\ UNCHANGED <<lowMemory, worker, faults, deaths>>

Release(t) ==
  /\ calls[t].pc = "return"
  /\ calls' = [calls EXCEPT ![t] = NoCall]
  /\ UNCHANGED <<lowMemory, worker, client, procs, faults, deaths>>

(* warmup loads nothing in low-memory mode.                                *)
WorkerStart(t) ==
  /\ worker = "down"
  /\ worker' = IF lowMemory THEN "up" ELSE "starting"
  /\ calls' = IF lowMemory THEN calls ELSE [calls EXCEPT ![t] = [NoCall EXCEPT !.pc = "start"]]
  /\ UNCHANGED <<lowMemory, client, procs, faults, deaths>>

(* run_forever has returned.                                               *)
WorkerStop ==
  /\ worker = "up" /\ \A t \in Threads : calls[t].pc = "idle"
  /\ worker' = "down"
  /\ Discard(Models)
  /\ UNCHANGED <<lowMemory, calls, faults, deaths>>

(* Killed: its children live on, their pipes are closed and their model no *)
(* longer matters.                                                         *)
WorkerDies ==
  /\ worker # "down" /\ deaths < MaxDeaths
  /\ deaths' = deaths + 1
  /\ worker' = "down"
  /\ calls' = [t \in Threads |-> NoCall]
  /\ client' = [m \in Models |-> Nothing]
  /\ procs' = [p \in 1..Slots |->
       IF Live(p) THEN [procs[p] EXCEPT !.piped = FALSE, !.model = "ASR", !.lines = <<>>] ELSE Gone]
  /\ UNCHANGED <<lowMemory, faults>>

-----------------------------------------------------------------------------
(* The loop of a child, which the two models share.                        *)
Child(p) == Load(p) \/ Return(p) \/ Answer(p) \/ EndOfInput(p)

ChildFault(p) == LoadFails(p) \/ Crash(p) \/ Misbehave(p)

Step(t) ==
  \/ Swap(t) \/ Start(t) \/ Skip(t) \/ Unanswered(t) \/ Started(t)
  \/ Write(t) \/ Answered(t) \/ Release(t)

Next ==
  \/ \E p \in 1..Slots : Child(p) \/ ChildFault(p)
  \/ \E t \in Threads : Step(t) \/ Acquire(t) \/ WorkerStart(t)
  \/ \E t \in Threads, m \in Models, f \in Files : Call(t, m, f)
  \/ WorkerStop
  \/ WorkerDies

Spec == Init /\ [][Next]_vars

(* A thread runs until it waits for a permit, every wait of a call has a   *)
(* deadline, and a waiter is woken when a permit is released.  Nothing is  *)
(* assumed of the children.                                                *)
Fairness == \A t \in Threads : WF_vars(Step(t)) /\ SF_vars(Acquire(t))

LiveSpec == Spec /\ Fairness

-----------------------------------------------------------------------------
Recordings == Files \cup {Nothing}

Replies == [type : {"noise", "ready", "result", "error"}, file : Recordings]

Processes ==
  [state : {"gone", "loading", "failing", "serving", "mute", "exited"}, model : Models,
   piped : BOOLEAN, requests : Seq(Files), lines : Seq(Replies)]

Calls ==
  [pc : {"idle", "wait", "swap", "start", "startup", "write", "read", "return"},
   model : Models, file : Recordings, reply : Replies \cup {Retryable, Nothing}]

TypeOK ==
  /\ lowMemory \in BOOLEAN
  /\ worker \in {"down", "starting", "up"}
  /\ client \in [Models -> 1..Slots \cup {Nothing}]
  /\ procs \in [1..Slots -> Processes]
  /\ calls \in [Threads -> Calls]
  /\ faults \in 0..MaxFaults /\ deaths \in 0..MaxDeaths

(* What a call returns, or the error of the inference that it raises, is   *)
(* about the recording that it asked for: a late answer, one of a process  *)
(* that was given up or of another thread is never taken for it.           *)
AnswerIsOfRequest ==
  \A t \in Threads :
    calls[t].pc = "return" /\ calls[t].reply # Retryable => calls[t].reply.file = calls[t].file

(* In low-memory mode a Worker holds one model process at most, whatever   *)
(* failed before: no process that it gave up is left running.              *)
OneModelInLowMemory ==
  lowMemory => Cardinality({p \in 1..Slots : Live(p) /\ procs[p].piped}) <= 1

(* Every call ends and gives its permit back, however the child behaves.   *)
EveryCallReturns == \A t \in Threads : calls[t].pc = "wait" ~> calls[t].pc = "idle"

(***************************************************************************)
(* The inductive invariant behind the two invariants when there is one     *)
(* permit, part by part.                                                   *)
(***************************************************************************)

(* One thread at most uses the clients, and what the Worker does says what *)
(* its threads may do: nothing while it is down, and while it warms up the *)
(* two processes are started one after the other.                          *)
OneUser ==
  /\ \A t, u \in Holders : t = u
  /\ worker = "down" => /\ \A t \in Threads : calls[t].pc = "idle"
                        /\ \A m \in Models : client[m] = Nothing
  /\ worker = "starting" => /\ ~lowMemory
                            /\ \A t \in Threads : calls[t].pc \in {"idle", "start", "startup"}
  /\ \A t \in Threads :
       /\ worker = "up" /\ calls[t].pc # "idle" => calls[t].file \in Files
       /\ worker = "starting" /\ calls[t].pc = "start" => client[calls[t].model] = Nothing
       /\ worker = "starting" /\ calls[t].pc # "idle" /\ calls[t].model = "ASR"
            => client["EMOTION"] = Nothing

(* The processes that the Worker could still talk to are those that its    *)
(* clients hold, and no two clients hold one.                              *)
ProcessesHeld ==
  /\ \A m \in Models : client[m] # Nothing =>
       procs[client[m]].state # "gone" /\ procs[client[m]].piped
  /\ \A p \in 1..Slots : Live(p) /\ procs[p].piped => Owned(p)
  /\ client["ASR"] = client["EMOTION"] => client["ASR"] = Nothing

(* In low-memory mode the other client is empty when one starts a process. *)
OneHeldInLowMemory ==
  lowMemory =>
    /\ client["ASR"] = Nothing \/ client["EMOTION"] = Nothing
    /\ \A t \in Threads : calls[t].pc = "start" => client[Other[calls[t].model]] = Nothing

Noise(lines) == \A i \in DOMAIN lines : lines[i].type = "noise"

OneReply(lines) ==
  \A i, j \in DOMAIN lines : lines[i].type # "noise" /\ lines[j].type # "noise" => i = j

About(lines, f) == \A i \in DOMAIN lines : lines[i].type # "noise" => lines[i].file = f

(* The process q owes one answer at most, and none before it is loaded.    *)
OwesOneAnswer(q) ==
  /\ OneReply(q.lines)
  /\ Len(q.requests) <= 1
  /\ q.requests # <<>> => Noise(q.lines)
  /\ q.state = "loading" => q.requests = <<>> /\ Noise(q.lines)

OneAnswerOwed == \A p \in 1..Slots : OwesOneAnswer(procs[p])

(* It owes none and nothing but noise can be read from it.                 *)
Quiet(q) == q.state # "loading" /\ q.requests = <<>> /\ Noise(q.lines)

(* What a call that waits for q may find there.                            *)
Expected(call, q) ==
  /\ call.pc = "startup" => q.requests = <<>>
  /\ call.pc = "read" => /\ q.state # "loading"
                         /\ \A i \in DOMAIN q.requests : q.requests[i] = call.file
                         /\ About(q.lines, call.file)

Attends(t, m) == calls[t].pc \in {"startup", "read"} /\ calls[t].model = m

(* Whoever waits for a process has it, one that waits for an answer finds  *)
(* only its own recording there, and nothing is left behind in a process   *)
(* that nobody waits for.                                                  *)
NothingLeftBehind ==
  \A m \in Models :
    /\ \A t \in Threads : Attends(t, m) =>
         client[m] # Nothing /\ Expected(calls[t], procs[client[m]])
    /\ client[m] # Nothing /\ (\A t \in Threads : ~Attends(t, m)) => Quiet(procs[client[m]])

IInv ==
  /\ TypeOK
  /\ OneUser
  /\ ProcessesHeld
  /\ OneHeldInLowMemory
  /\ OneAnswerOwed
  /\ NothingLeftBehind
  /\ AnswerIsOfRequest
=============================================================================
