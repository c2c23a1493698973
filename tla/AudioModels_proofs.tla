------------------------- MODULE AudioModels_proofs -------------------------
(***************************************************************************)
(* Theorems about AudioModels with one permit, the default of gpu_workers, *)
(* for any number of threads, recordings, faults and deaths of the Worker. *)
(* The hypothesis is needed: a client has no lock, and with a second       *)
(* permit one thread discards the process that another one waits for.      *)
(***************************************************************************)
EXTENDS AudioModels, TLAPS, FiniteSetTheorems

-----------------------------------------------------------------------------
(***************************************************************************)
(* Lines of a child.                                                       *)
(***************************************************************************)

LEMMA NoiseAdded ==
  ASSUME NEW s \in Seq(Replies), NEW r \in Replies, r.type = "noise", NEW f
  PROVE  /\ Append(s, r) \in Seq(Replies)
         /\ Noise(s) => Noise(Append(s, r))
         /\ OneReply(s) => OneReply(Append(s, r))
         /\ About(s, f) => About(Append(s, r), f)
BY DEF Noise, OneReply, About

LEMMA ReplyAdded ==
  ASSUME NEW s \in Seq(Replies), NEW r \in Replies, Noise(s)
  PROVE  /\ Append(s, r) \in Seq(Replies)
         /\ OneReply(Append(s, r))
         /\ About(Append(s, r), r.file)
BY DEF Noise, OneReply, About

LEMMA LineTaken ==
  ASSUME NEW s \in Seq(Replies), s # <<>>, NEW f
  PROVE  /\ Head(s) \in Replies /\ Tail(s) \in Seq(Replies)
         /\ Noise(s) => Noise(Tail(s)) /\ Head(s).type = "noise"
         /\ OneReply(s) => OneReply(Tail(s))
         /\ OneReply(s) /\ Head(s).type # "noise" => Noise(Tail(s))
         /\ About(s, f) => About(Tail(s), f)
         /\ About(s, f) /\ Head(s).type # "noise" => Head(s).file = f
<1>1. /\ Head(s) = s[1] /\ 1 \in DOMAIN s /\ Head(s) \in Replies
      /\ Tail(s) \in Seq(Replies)
      /\ \A i \in DOMAIN Tail(s) :
           i + 1 \in DOMAIN s /\ i + 1 # 1 /\ Tail(s)[i] = s[i + 1] /\ i \in Nat
  OBVIOUS
<1>2. Noise(s) => Noise(Tail(s)) /\ Head(s).type = "noise"
  BY <1>1 DEF Noise
<1>3. OneReply(s) => OneReply(Tail(s))
  <2>1. SUFFICES ASSUME OneReply(s), NEW i \in DOMAIN Tail(s), NEW j \in DOMAIN Tail(s),
                        Tail(s)[i].type # "noise", Tail(s)[j].type # "noise"
                 PROVE  i = j
    BY DEF OneReply
  <2>2. i + 1 = j + 1 /\ i \in Nat /\ j \in Nat
    BY <1>1, <2>1 DEF OneReply
  <2>3. QED
    BY <2>2
<1>4. OneReply(s) /\ Head(s).type # "noise" => Noise(Tail(s))
  BY <1>1 DEF OneReply, Noise
<1>5. About(s, f) => About(Tail(s), f)
  BY <1>1 DEF About
<1>6. About(s, f) /\ Head(s).type # "noise" => Head(s).file = f
  BY <1>1 DEF About
<1>7. QED
  BY <1>1, <1>2, <1>3, <1>4, <1>5, <1>6

-----------------------------------------------------------------------------
(***************************************************************************)
(* Typed pieces of the state.                                              *)
(***************************************************************************)

LEMMA Pieces ==
  /\ Gone \in Processes /\ Gone.state = "gone" /\ Gone.requests = <<>> /\ Gone.lines = <<>>
  /\ \A m \in Models :
       /\ NewChild(m) \in Processes /\ NewChild(m).state = "loading" /\ NewChild(m).piped
       /\ NewChild(m).requests = <<>> /\ NewChild(m).lines = <<>>
  /\ NoCall \in Calls /\ NoCall.pc = "idle"
  /\ Noise(<<>>) /\ OneReply(<<>>)
  /\ \A type \in {"noise", "ready", "result", "error"}, f \in Recordings :
       /\ Reply(type, f) \in Replies
       /\ Reply(type, f).type = type /\ Reply(type, f).file = f
<1>1. Nothing \in Recordings
  BY DEF Recordings
<1>2. QED
  BY <1>1 DEF Gone, NewChild, NoCall, Processes, Calls, Models, Noise, OneReply, Reply, Replies

(* The parts of a process have their types.                                *)
LEMMA ProcessParts ==
  ASSUME TypeOK, NEW p \in 1..Slots
  PROVE  /\ procs[p] \in Processes
         /\ procs[p].requests \in Seq(Files) /\ procs[p].lines \in Seq(Replies)
         /\ procs[p].piped \in BOOLEAN
         /\ procs[p].state \in {"gone", "loading", "failing", "serving", "mute", "exited"}
BY DEF TypeOK, Processes

(* So have those of a call.                                                *)
LEMMA CallParts ==
  ASSUME TypeOK, NEW t \in Threads
  PROVE  /\ calls[t] \in Calls /\ calls[t].model \in Models /\ calls[t].file \in Recordings
         /\ calls[t].pc \in {"idle", "wait", "swap", "start", "startup", "write", "read", "return"}
         /\ client[calls[t].model] \in 1..Slots \cup {Nothing}
BY DEF TypeOK, Calls

-----------------------------------------------------------------------------
(***************************************************************************)
(* What a child does.                                                      *)
(***************************************************************************)

(* The process p may become q: it ends, says nothing to anyone, says that  *)
(* it is loaded or could not be, or answers its first request.             *)
Evolves(p, q) ==
  /\ q.piped = procs[p].piped /\ q.state # "gone"
  /\ \/ q.requests = <<>> /\ q.lines = procs[p].lines /\ q.state = "exited"
     \/ /\ q.requests = procs[p].requests
        /\ q.state = "loading" => procs[p].state = "loading"
        /\ \/ q.lines = procs[p].lines
           \/ \E r \in Replies : r.type = "noise" /\ q.lines = Append(procs[p].lines, r)
     \/ /\ procs[p].state = "loading" /\ q.state # "loading"
        /\ q.requests = procs[p].requests
        /\ \E r \in Replies : q.lines = Append(procs[p].lines, r)
     \/ /\ procs[p].requests # <<>> /\ q.state # "loading"
        /\ q.requests = Tail(procs[p].requests)
        /\ \E r \in Replies :
             r.file = Head(procs[p].requests) /\ q.lines = Append(procs[p].lines, r)

(* The end of a process, held by a client or not.                          *)
LEMMA EndStep ==
  ASSUME TypeOK, NEW p \in 1..Slots, End(p)
  PROVE  \E q \in Processes :
           /\ procs' = [procs EXCEPT ![p] = q]
           /\ (q = Gone /\ ~Owned(p)) \/ Evolves(p, q)
<1> DEFINE r == <<>>
           x == [procs[p] EXCEPT !.state = "exited", !.requests = r]
<1>1. procs[p] \in Processes /\ r \in Seq(Files) /\ r = <<>>
  BY ProcessParts
<1> HIDE DEF r
<1>2. /\ x \in Processes /\ x.piped = procs[p].piped
      /\ x.lines = procs[p].lines /\ x.state = "exited" /\ x.requests = r
  BY <1>1 DEF Processes
<1>3. procs' = [procs EXCEPT ![p] = IF Owned(p) THEN x ELSE Gone]
  BY <1>1 DEF End
<1> HIDE DEF x
<1>4. Evolves(p, x)
  BY <1>1, <1>2 DEF Evolves
<1>5. QED
  BY <1>2, <1>3, <1>4, Pieces

(* The line arrives.                                                       *)
Writes(p, reply, state, requests) ==
  procs' = [procs EXCEPT ![p] = [@ EXCEPT !.lines = Append(procs[p].lines, reply),
                                          !.state = state, !.requests = requests]]

(* What a process writes arrives, or it ends.                              *)
LEMMA SaysStep ==
  ASSUME TypeOK, NEW p \in 1..Slots, NEW reply \in Replies,
         NEW state \in {"loading", "failing", "serving"}, NEW requests \in Seq(Files),
         Writes(p, reply, state, requests)
  PROVE  \E q \in Processes :
           /\ procs' = [procs EXCEPT ![p] = q] /\ q.piped = procs[p].piped
           /\ q.lines = Append(procs[p].lines, reply)
           /\ q.state = state /\ q.requests = requests
<1> DEFINE l == Append(procs[p].lines, reply)
           x == [procs[p] EXCEPT !.lines = l, !.state = state, !.requests = requests]
<1>1. procs[p] \in Processes /\ l \in Seq(Replies)
  BY ProcessParts
<1>3. procs' = [procs EXCEPT ![p] = x]
  BY DEF Writes
<1> HIDE DEF l
<1>4. /\ x \in Processes /\ x.piped = procs[p].piped
      /\ x.lines = l /\ x.state = state /\ x.requests = requests
  BY <1>1 DEF Processes
<1> HIDE DEF x
<1>5. QED
  BY <1>3, <1>4 DEF l

(* Every step of a child is one of these.                                  *)
LEMMA ChildStep ==
  ASSUME TypeOK, NEW p \in 1..Slots, Child(p) \/ ChildFault(p)
  PROVE  /\ Live(p)
         /\ \E q \in Processes :
              /\ procs' = [procs EXCEPT ![p] = q]
              /\ (q = Gone /\ ~Owned(p)) \/ Evolves(p, q)
         /\ UNCHANGED <<lowMemory, worker, client, calls, deaths>>
         /\ faults' \in 0..MaxFaults
<1> DEFINE Effect == \E q \in Processes :
                       /\ procs' = [procs EXCEPT ![p] = q]
                       /\ (q = Gone /\ ~Owned(p)) \/ Evolves(p, q)
<1>1. End(p) => Effect
  BY EndStep
<1> HIDE DEF Effect
<1>2. PICK rq \in Seq(Files) : rq = procs[p].requests
  BY ProcessParts
<1>3. Fault => faults' \in 0..MaxFaults
  BY AudioAssumption DEF Fault, TypeOK
<1>4. ASSUME procs[p].state = "loading", NEW state \in {"failing", "serving"}, NEW r \in Replies,
             Writes(p, r, state, rq)
      PROVE  Effect
  <2>1. PICK q \in Processes :
         /\ procs' = [procs EXCEPT ![p] = q] /\ q.piped = procs[p].piped
         /\ q.lines = Append(procs[p].lines, r) /\ q.state = state /\ q.requests = rq
    BY <1>4, SaysStep
  <2>2. Evolves(p, q)
    BY <1>4, <1>2, <2>1 DEF Evolves
  <2>3. QED
    BY <2>1, <2>2 DEF Effect
<1>5. Reply("ready", Nothing) \in Replies /\ Reply("error", Nothing) \in Replies
  BY Pieces DEF Recordings
<1>6. CASE Load(p)
  <2>1. Effect
    BY <1>1, <1>2, <1>4, <1>5, <1>6 DEF Load, Says, Writes
  <2>2. QED
    BY <1>6, <2>1 DEF Load, Live, TypeOK, Effect
<1>7. CASE LoadFails(p)
  <2>1. Effect
    BY <1>1, <1>2, <1>4, <1>5, <1>7 DEF LoadFails, Says, Writes
  <2>2. QED
    BY <1>3, <1>7, <2>1 DEF LoadFails, Live, Effect
<1>8. CASE Return(p) \/ EndOfInput(p)
  BY <1>1, <1>8 DEF Return, EndOfInput, Live, TypeOK, Effect
<1>9. CASE Crash(p)
  BY <1>1, <1>3, <1>9 DEF Crash, Effect
<1>10. CASE Answer(p)
  <2>1. Head(rq) \in Recordings /\ Tail(rq) \in Seq(Files) /\ rq # <<>>
    BY <1>2, <1>10 DEF Answer, Recordings
  <2>2. PICK tl \in Seq(Files) : tl = Tail(rq)
    BY <2>1
  <2>3. PICK type \in {"result", "error"} : Says(p, Reply(type, Head(rq)), "serving", Tail(rq))
    BY <1>2, <1>10 DEF Answer
  <2>4. Reply(type, Head(rq)) \in Replies /\ Reply(type, Head(rq)).file = Head(rq)
    BY <2>1, Pieces
  <2>5. ASSUME NEW r \in Replies, r.file = Head(rq),
               Writes(p, r, "serving", tl)
        PROVE  Effect
    <3>1. PICK q \in Processes :
           /\ procs' = [procs EXCEPT ![p] = q] /\ q.piped = procs[p].piped
           /\ q.lines = Append(procs[p].lines, r) /\ q.state = "serving" /\ q.requests = tl
      BY <2>5, SaysStep
    <3>2. Evolves(p, q)
      BY <2>1, <2>2, <2>5, <1>2, <3>1 DEF Evolves
    <3>3. QED
      BY <3>1, <3>2 DEF Effect
  <2>6. Effect
    BY <1>1, <2>3, <2>4, <2>5, <2>2 DEF Says, Writes
  <2>7. QED
    BY <1>10, <2>6 DEF Answer, Live, TypeOK, Effect
<1>11. CASE Misbehave(p)
  <2>1. Reply("noise", Nothing) \in Replies /\ Reply("noise", Nothing).type = "noise"
    BY Pieces DEF Recordings
  <2>2. PICK state \in {"loading", "serving"} : state = procs[p].state
    BY <1>11 DEF Misbehave
  <2>3. ASSUME NEW r \in Replies, r.type = "noise",
               Writes(p, r, state, rq)
        PROVE  Effect
    <3>1. PICK q \in Processes :
           /\ procs' = [procs EXCEPT ![p] = q] /\ q.piped = procs[p].piped
           /\ q.lines = Append(procs[p].lines, r) /\ q.state = state /\ q.requests = rq
      BY <2>3, SaysStep
    <3>2. Evolves(p, q)
      BY <2>3, <1>2, <2>2, <3>1 DEF Evolves
    <3>3. QED
      BY <3>1, <3>2 DEF Effect
  <2>4. ASSUME procs' = [procs EXCEPT ![p].state = "mute"]
        PROVE  Effect
    <3> DEFINE x == [procs[p] EXCEPT !.state = "mute"]
    <3>1. /\ x \in Processes /\ x.piped = procs[p].piped /\ x.state = "mute"
          /\ x.lines = procs[p].lines /\ x.requests = procs[p].requests
      BY ProcessParts DEF Processes
    <3>2. procs' = [procs EXCEPT ![p] = x]
      BY <2>4
    <3> HIDE DEF x
    <3>3. QED
      BY <3>1, <3>2 DEF Evolves, Effect
  <2>5. Effect
    BY <1>1, <1>2, <1>11, <2>1, <2>2, <2>3, <2>4 DEF Misbehave, Says, Writes
  <2>6. QED
    BY <1>3, <1>11, <2>5 DEF Misbehave, Live, Effect
<1>12. QED
  BY <1>6, <1>7, <1>8, <1>9, <1>10, <1>11 DEF Child, ChildFault

(* What a child does leaves its process as its client expects it.          *)
LEMMA EvolvesKept ==
  ASSUME TypeOK, NEW p \in 1..Slots, NEW q \in Processes, Evolves(p, q), OwesOneAnswer(procs[p])
  PROVE  /\ OwesOneAnswer(q)
         /\ Quiet(procs[p]) => Quiet(q)
         /\ \A call \in Calls : Expected(call, procs[p]) => Expected(call, q)
<1> DEFINE o == procs[p]
<1>1. /\ o.requests \in Seq(Files) /\ o.lines \in Seq(Replies)
      /\ OneReply(o.lines) /\ Len(o.requests) <= 1
      /\ o.requests # <<>> => Noise(o.lines)
      /\ o.state = "loading" => o.requests = <<>> /\ Noise(o.lines)
  BY ProcessParts DEF OwesOneAnswer
<1> USE DEF OwesOneAnswer, Quiet, Expected
<1>2. CASE q.requests = <<>> /\ q.lines = o.lines /\ q.state = "exited"
  BY <1>1, <1>2
<1>3. CASE /\ q.requests = o.requests /\ q.lines = o.lines
           /\ q.state = "loading" => o.state = "loading"
  BY <1>1, <1>3
<1>4. ASSUME NEW r \in Replies, r.type = "noise", q.lines = Append(o.lines, r),
             q.requests = o.requests, q.state = "loading" => o.state = "loading"
      PROVE  /\ OwesOneAnswer(q)
             /\ Quiet(o) => Quiet(q)
             /\ \A call \in Calls : Expected(call, o) => Expected(call, q)
  BY <1>1, <1>4, NoiseAdded
<1>5. ASSUME NEW r \in Replies, q.lines = Append(o.lines, r),
             o.state = "loading", q.state # "loading", q.requests = o.requests
      PROVE  /\ OwesOneAnswer(q)
             /\ Quiet(o) => Quiet(q)
             /\ \A call \in Calls : Expected(call, o) => Expected(call, q)
  BY <1>1, <1>5, ReplyAdded
<1>6. ASSUME NEW r \in Replies, r.file = Head(o.requests), q.lines = Append(o.lines, r),
             o.requests # <<>>, q.state # "loading", q.requests = Tail(o.requests)
      PROVE  /\ OwesOneAnswer(q)
             /\ Quiet(o) => Quiet(q)
             /\ \A call \in Calls : Expected(call, o) => Expected(call, q)
  <2>1. Noise(o.lines) /\ q.requests = <<>> /\ 1 \in DOMAIN o.requests /\ r.file = o.requests[1]
    BY <1>1, <1>6
  <2>2. OneReply(q.lines) /\ About(q.lines, r.file)
    BY <1>1, <1>6, <2>1, ReplyAdded
  <2>3. QED
    BY <1>6, <2>1, <2>2
<1>7. QED
  BY <1>2, <1>3, <1>4, <1>5, <1>6 DEF Evolves

(* The child's steps keep the invariant.                                   *)
LEMMA ChildKeeps ==
  ASSUME IInv, NEW p \in 1..Slots, Child(p) \/ ChildFault(p)
  PROVE  IInv'
<1> USE DEF IInv
<1>1. /\ Live(p)
      /\ UNCHANGED <<lowMemory, worker, client, calls, deaths>>
      /\ faults' \in 0..MaxFaults
  BY ChildStep
<1>2. PICK q \in Processes : /\ procs' = [procs EXCEPT ![p] = q]
                             /\ (q = Gone /\ ~Owned(p)) \/ Evolves(p, q)
  BY ChildStep
<1>3. procs'[p] = q /\ \A o \in 1..Slots : o # p => procs'[o] = procs[o]
  BY <1>2 DEF TypeOK
<1>4. TypeOK'
  BY <1>1, <1>2 DEF TypeOK
<1>5. OneUser' /\ OneHeldInLowMemory' /\ AnswerIsOfRequest'
  BY <1>1 DEF OneUser, OneHeldInLowMemory, AnswerIsOfRequest, Holders
<1>6. ProcessesHeld'
  <2>1. ASSUME NEW m \in Models, client[m] # Nothing
        PROVE  procs'[client[m]].state # "gone" /\ procs'[client[m]].piped
    BY <1>2, <1>3, <2>1 DEF ProcessesHeld, Owned, Evolves, TypeOK
  <2>2. ASSUME NEW o \in 1..Slots, procs'[o].state \notin {"gone", "exited"}, procs'[o].piped
        PROVE  Owned(o)
    BY <1>1, <1>2, <1>3, <2>2, Pieces DEF ProcessesHeld, Live, Evolves
  <2>3. QED
    BY <1>1, <2>1, <2>2 DEF ProcessesHeld, Live, Owned
<1>7. OwesOneAnswer(procs[p])
  BY DEF OneAnswerOwed
<1>8. OneAnswerOwed'
  <2>1. OwesOneAnswer(Gone)
    BY Pieces DEF OwesOneAnswer
  <2>2. OwesOneAnswer(q)
    BY <1>2, <1>7, <2>1, EvolvesKept
  <2>3. QED
    BY <1>3, <2>2 DEF OneAnswerOwed
<1>9. NothingLeftBehind'
  <2>1. ASSUME NEW m \in Models
        PROVE  /\ \A t \in Threads : Attends(t, m) =>
                    client[m] # Nothing /\ Expected(calls[t], procs'[client[m]])
               /\ client[m] # Nothing /\ (\A t \in Threads : ~Attends(t, m))
                    => Quiet(procs'[client[m]])
    <3>1. CASE client[m] # p
      BY <1>3, <3>1 DEF NothingLeftBehind, TypeOK
    <3>2. CASE client[m] = p
      <4>1. Evolves(p, q)
        BY <1>2, <3>2 DEF Owned
      <4>2. QED
        BY <1>3, <1>7, <3>2, <4>1, EvolvesKept DEF NothingLeftBehind, TypeOK
    <3>3. QED
      BY <3>1, <3>2
  <2>2. \A t \in Threads, m \in Models : Attends(t, m)' <=> Attends(t, m)
    BY <1>1 DEF Attends
  <2>3. QED
    BY <1>1, <2>1, <2>2 DEF NothingLeftBehind
<1>10. QED
  BY <1>4, <1>5, <1>6, <1>8, <1>9

-----------------------------------------------------------------------------
(***************************************************************************)
(* What a thread does: it moves alone, and discards, reads or writes.      *)
(***************************************************************************)

Only(t) == \A u \in Threads : u # t => calls'[u] = calls[u]

(* A call is replaced.                                                     *)
LEMMA CallSet ==
  ASSUME TypeOK, NEW t \in Threads, NEW c \in Calls, calls' = [calls EXCEPT ![t] = c]
  PROVE  calls' \in [Threads -> Calls] /\ calls'[t] = c /\ Only(t)
BY DEF TypeOK, Only

(* A call goes on.                                                         *)
LEMMA GotoStep ==
  ASSUME TypeOK, NEW t \in Threads,
         NEW pc \in {"idle", "wait", "swap", "start", "startup", "write", "read", "return"},
         Goto(t, pc)
  PROVE  /\ calls' \in [Threads -> Calls] /\ Only(t)
         /\ calls'[t].pc = pc /\ calls'[t].model = calls[t].model
         /\ calls'[t].file = calls[t].file
<1> DEFINE c == [calls[t] EXCEPT !.pc = pc]
<1>1. calls[t] \in Calls
  BY CallParts
<1>2. c \in Calls /\ c.pc = pc /\ c.model = calls[t].model /\ c.file = calls[t].file
  BY <1>1 DEF Calls
<1>3. calls' = [calls EXCEPT ![t] = c]
  BY DEF Goto
<1> HIDE DEF c
<1>4. QED
  BY <1>2, <1>3, CallSet

(* A call has its outcome.                                                 *)
LEMMA EndsStep ==
  ASSUME TypeOK, NEW t \in Threads, NEW r \in Replies \cup {Retryable, Nothing}, Ends(t, r)
  PROVE  /\ calls' \in [Threads -> Calls] /\ Only(t)
         /\ calls'[t].pc = "return" /\ calls'[t].model = calls[t].model
         /\ calls'[t].file = calls[t].file /\ calls'[t].reply = r
<1> DEFINE c == [calls[t] EXCEPT !.pc = "return", !.reply = r]
<1>1. calls[t] \in Calls
  BY CallParts
<1>2. /\ c \in Calls /\ c.pc = "return" /\ c.model = calls[t].model
      /\ c.file = calls[t].file /\ c.reply = r
  BY <1>1 DEF Calls
<1>3. calls' = [calls EXCEPT ![t] = c]
  BY DEF Ends
<1> HIDE DEF c
<1>4. QED
  BY <1>2, <1>3, CallSet

(* Nobody else uses the clients.                                           *)
LEMMA Alone ==
  ASSUME TypeOK, OneUser, NEW t \in Threads, t \in Holders \/ Holders = {}
  PROVE  \A u \in Threads : u # t => calls[u].pc \in {"idle", "wait"}
BY CallParts DEF OneUser, Holders

(* While the Worker is up, the one user goes on with its recording.        *)
LEMMA StaysUp ==
  ASSUME TypeOK, OneUser, NEW t \in Threads, t \in Holders \/ Holders = {}, Only(t),
         worker = "up", worker' = "up", calls'[t].pc # "idle" => calls'[t].file \in Files
  PROVE  OneUser'
<1>1. \A u \in Threads : u # t => calls'[u].pc \in {"idle", "wait"}
  BY Alone DEF Only
<1>2. \A u, v \in Holders' : u = v
  BY <1>1 DEF Holders
<1>3. QED
  BY <1>2 DEF OneUser, Only

(* What the one user finds, and leaves, in the processes.                  *)
LEMMA Found ==
  ASSUME TypeOK, OneUser, NothingLeftBehind,
         NEW t \in Threads, t \in Holders \/ Holders = {}, NEW m \in Models
  PROVE  /\ Attends(t, m) => client[m] # Nothing /\ Expected(calls[t], procs[client[m]])
         /\ client[m] # Nothing /\ ~Attends(t, m) => Quiet(procs[client[m]])
BY Alone DEF NothingLeftBehind, Attends

LEMMA Left ==
  ASSUME TypeOK, OneUser, NEW t \in Threads, t \in Holders \/ Holders = {}, Only(t),
         \A m \in Models :
           /\ Attends(t, m)' => client'[m] # Nothing /\ Expected(calls'[t], procs'[client'[m]])
           /\ client'[m] # Nothing /\ ~Attends(t, m)' => Quiet(procs'[client'[m]])
  PROVE  NothingLeftBehind'
<1>1. \A u \in Threads, m \in Models : u # t => ~Attends(u, m)'
  BY Alone DEF Only, Attends
<1>2. QED
  BY <1>1 DEF NothingLeftBehind

(* The other threads' answers are as they were.                            *)
LEMMA AnswersKept ==
  ASSUME AnswerIsOfRequest, NEW t \in Threads, Only(t),
         calls'[t].pc = "return" /\ calls'[t].reply # Retryable
           => calls'[t].reply.file = calls'[t].file
  PROVE  AnswerIsOfRequest'
BY DEF AnswerIsOfRequest, Only, Retryable, Reply

(* No two clients hold one process.                                        *)
LEMMA Distinct ==
  ASSUME ProcessesHeld, NEW m \in Models, NEW n \in Models,
         client[m] = client[n], client[m] # Nothing
  PROVE  m = n
BY DEF ProcessesHeld, Models

(* What is discarded is gone, the other processes are as they were.        *)
LEMMA DiscardKeeps ==
  ASSUME TypeOK, ProcessesHeld, OneAnswerOwed, NEW ms \in SUBSET Models, Discard(ms)
  PROVE  /\ client' \in [Models -> 1..Slots \cup {Nothing}] /\ procs' \in [1..Slots -> Processes]
         /\ \A m \in Models : client'[m] = IF m \in ms THEN Nothing ELSE client[m]
         /\ \A m \in Models : client'[m] # Nothing => procs'[client'[m]] = procs[client[m]]
         /\ ProcessesHeld' /\ OneAnswerOwed'
<1>1. /\ client' \in [Models -> 1..Slots \cup {Nothing}] /\ procs' \in [1..Slots -> Processes]
      /\ \A m \in Models : client'[m] = IF m \in ms THEN Nothing ELSE client[m]
      /\ \A p \in 1..Slots : procs'[p] = IF \E m \in ms : client[m] = p THEN Gone ELSE procs[p]
  BY Pieces DEF Discard, TypeOK
<1>2. \A m \in Models : client'[m] # Nothing => procs'[client'[m]] = procs[client[m]]
  BY <1>1, Distinct DEF TypeOK
<1>3. OneAnswerOwed'
  <2>1. OwesOneAnswer(Gone)
    BY Pieces DEF OwesOneAnswer
  <2>2. QED
    BY <1>1, <2>1 DEF OneAnswerOwed
<1>4. ProcessesHeld'
  <2>1. ASSUME NEW p \in 1..Slots, procs'[p].state \notin {"gone", "exited"}, procs'[p].piped
        PROVE  \E m \in Models : client'[m] = p
    <3>1. procs'[p] = procs[p] /\ ~\E m \in ms : client[m] = p
      BY <1>1, <2>1, Pieces
    <3>2. PICK m \in Models : client[m] = p
      BY <2>1, <3>1 DEF ProcessesHeld, Live, Owned
    <3>3. QED
      BY <1>1, <3>1, <3>2
  <2>2. \A m \in Models : client'[m] # Nothing =>
          procs'[client'[m]].state # "gone" /\ procs'[client'[m]].piped
    BY <1>1, <1>2 DEF ProcessesHeld
  <2>3. client'["ASR"] = client'["EMOTION"] => client'["ASR"] = Nothing
    BY <1>1 DEF ProcessesHeld, Models
  <2>4. QED
    BY <2>1, <2>2, <2>3 DEF ProcessesHeld, Live, Owned
<1>5. QED
  BY <1>1, <1>2, <1>3, <1>4

(* A call that fails leaves its process discarded; one that fails in the   *)
(* warmup leaves nothing.                                                  *)
LEMMA RaiseKeeps ==
  ASSUME IInv, NEW t \in Threads, calls[t].pc \in {"start", "startup", "write", "read"},
         Raise(t), UNCHANGED <<lowMemory, deaths>>, faults' \in 0..MaxFaults
  PROVE  IInv'
<1> USE DEF IInv
<1>1. t \in Holders /\ worker # "down"
  BY DEF Holders, OneUser
<1>2. CASE worker = "starting"
  <2>1. /\ Discard(Models) /\ worker' = "down" /\ calls' = [calls EXCEPT ![t] = NoCall]
    BY <1>2 DEF Raise
  <2>2. /\ calls' \in [Threads -> Calls] /\ calls'[t] = NoCall /\ Only(t)
    BY <2>1, CallSet, Pieces
  <2>3. \A u \in Threads : calls'[u].pc = "idle"
    BY <1>1, <1>2, <2>2, Alone, Pieces DEF OneUser, Only
  <2>4. /\ client' \in [Models -> 1..Slots \cup {Nothing}] /\ procs' \in [1..Slots -> Processes]
        /\ \A m \in Models : client'[m] = Nothing
        /\ ProcessesHeld' /\ OneAnswerOwed'
    BY <2>1, DiscardKeeps
  <2>5. TypeOK'
    BY <2>1, <2>2, <2>4 DEF TypeOK
  <2>6. OneUser'
    BY <2>1, <2>3, <2>4 DEF OneUser, Holders
  <2>7. OneHeldInLowMemory' /\ NothingLeftBehind' /\ AnswerIsOfRequest'
    BY <2>3, <2>4 DEF OneHeldInLowMemory, NothingLeftBehind, AnswerIsOfRequest, Attends, Models
  <2>8. QED
    BY <2>4, <2>5, <2>6, <2>7
<1>3. CASE worker = "up"
  <2> DEFINE m == calls[t].model
  <2>0. m \in Models
    BY CallParts
  <2>1. Discard({m}) /\ Ends(t, Retryable) /\ worker' = "up"
    BY <1>3 DEF Raise
  <2>2. /\ calls' \in [Threads -> Calls] /\ Only(t)
        /\ calls'[t].pc = "return" /\ calls'[t].file = calls[t].file
        /\ calls'[t].reply = Retryable
    BY <2>1, EndsStep
  <2>3. /\ client' \in [Models -> 1..Slots \cup {Nothing}] /\ procs' \in [1..Slots -> Processes]
        /\ \A n \in Models : client'[n] = IF n = m THEN Nothing ELSE client[n]
        /\ \A n \in Models : client'[n] # Nothing => procs'[client'[n]] = procs[client[n]]
        /\ ProcessesHeld' /\ OneAnswerOwed'
    BY <2>0, <2>1, DiscardKeeps
  <2>4. TypeOK'
    BY <1>3, <2>1, <2>2, <2>3 DEF TypeOK
  <2>5. OneUser'
    BY <1>1, <1>3, <2>1, <2>2, StaysUp DEF OneUser
  <2>6. AnswerIsOfRequest'
    BY <2>2, AnswersKept
  <2>7. OneHeldInLowMemory'
    <3>1. /\ client'["ASR"] \in {Nothing, client["ASR"]}
          /\ client'["EMOTION"] \in {Nothing, client["EMOTION"]}
      BY <2>3 DEF Models
    <3>2. \A u \in Threads : calls'[u].pc # "start"
      BY <1>1, <2>2, Alone DEF Only
    <3>3. QED
      BY <3>1, <3>2 DEF OneHeldInLowMemory
  <2>8. NothingLeftBehind'
    <3>1. ASSUME NEW n \in Models, client'[n] # Nothing
          PROVE  Quiet(procs'[client'[n]])
      <4>1. n # m /\ client[n] # Nothing /\ procs'[client'[n]] = procs[client[n]]
        BY <2>3, <3>1
      <4>2. ~Attends(t, n)
        BY <4>1 DEF Attends
      <4>3. QED
        BY <1>1, <4>1, <4>2, Found
    <3>2. \A n \in Models : ~Attends(t, n)'
      BY <2>2 DEF Attends
    <3>3. QED
      BY <1>1, <2>2, <3>1, <3>2, Left
  <2>9. QED
    BY <2>3, <2>4, <2>5, <2>6, <2>7, <2>8
<1>4. QED
  BY <1>1, <1>2, <1>3 DEF TypeOK

(* The process of one client is rewritten in place.                        *)
LEMMA RewriteKeeps ==
  ASSUME TypeOK, ProcessesHeld, OneAnswerOwed, UNCHANGED client,
         NEW m \in Models, client[m] # Nothing, NEW x \in Processes,
         procs' = [procs EXCEPT ![client[m]] = x],
         x.piped = procs[client[m]].piped, x.state = procs[client[m]].state, OwesOneAnswer(x)
  PROVE  /\ client' \in [Models -> 1..Slots \cup {Nothing}] /\ procs' \in [1..Slots -> Processes]
         /\ procs'[client'[m]] = x
         /\ \A n \in Models : n # m /\ client'[n] # Nothing =>
              procs'[client'[n]] = procs[client[n]]
         /\ ProcessesHeld' /\ OneAnswerOwed'
<1>1. /\ procs' \in [1..Slots -> Processes] /\ procs'[client[m]] = x
      /\ client' = client /\ client[m] \in 1..Slots
      /\ \A p \in 1..Slots : p # client[m] => procs'[p] = procs[p]
  BY DEF TypeOK
<1>2. \A n \in Models : n # m /\ client[n] # Nothing => client[n] # client[m]
  BY Distinct
<1>3. \A n \in Models : n # m /\ client[n] # Nothing => procs'[client[n]] = procs[client[n]]
  BY <1>1, <1>2 DEF TypeOK
<1>4. OneAnswerOwed'
  BY <1>1 DEF OneAnswerOwed
<1>5. \A p \in 1..Slots : procs'[p].state = procs[p].state /\ procs'[p].piped = procs[p].piped
  BY <1>1
<1>6. ProcessesHeld'
  <2>1. \A n \in Models : client'[n] # Nothing =>
          procs'[client'[n]].state # "gone" /\ procs'[client'[n]].piped
    BY <1>1, <1>5 DEF ProcessesHeld, TypeOK
  <2>2. \A p \in 1..Slots : procs'[p].state \notin {"gone", "exited"} /\ procs'[p].piped
          => \E n \in Models : client'[n] = p
    BY <1>1, <1>5 DEF ProcessesHeld, Live, Owned
  <2>3. client'["ASR"] = client'["EMOTION"] => client'["ASR"] = Nothing
    BY <1>1 DEF ProcessesHeld
  <2>4. QED
    BY <2>1, <2>2, <2>3 DEF ProcessesHeld, Live, Owned
<1>7. QED
  BY <1>1, <1>3, <1>4, <1>6 DEF TypeOK

(* The next line is taken from the process of a call that waits for it.    *)
LEMMA ReadsStep ==
  ASSUME TypeOK, OneUser, ProcessesHeld, OneAnswerOwed, NothingLeftBehind, UNCHANGED client,
         NEW t \in Threads, calls[t].pc \in {"startup", "read"}, Lines(t) # <<>>, Reads(t),
         NEW m, m = calls[t].model
  PROVE  /\ m \in Models /\ client[m] # Nothing /\ Head(Lines(t)) \in Replies
         /\ client' \in [Models -> 1..Slots \cup {Nothing}] /\ procs' \in [1..Slots -> Processes]
         /\ ProcessesHeld' /\ OneAnswerOwed'
         /\ \A n \in Models : n # m /\ client'[n] # Nothing =>
              procs'[client'[n]] = procs[client[n]]
         /\ \A call \in Calls :
              Expected(call, procs[client[m]]) => Expected(call, procs'[client'[m]])
         /\ Head(Lines(t)).type # "noise" => Noise(procs'[client'[m]].lines)
         /\ procs'[client'[m]].state = procs[client[m]].state
         /\ procs'[client'[m]].requests = procs[client[m]].requests
         /\ Head(Lines(t)).type # "noise" =>
              /\ procs[client[m]].requests = <<>>
              /\ procs[client[m]].state # "loading"
         /\ \A f : Head(Lines(t)).type # "noise" /\ About(Lines(t), f) => Head(Lines(t)).file = f
<1>1. m \in Models /\ client[m] # Nothing /\ client[m] \in 1..Slots
  <2>1. m \in Models /\ t \in Holders /\ Attends(t, m)
    BY CallParts DEF Holders, Attends
  <2>2. QED
    BY <2>1, Found DEF TypeOK
<1>2. PICK p \in 1..Slots : p = client[m]
  BY <1>1
<1>3. PICK o \in Processes : o = procs[p]
  BY ProcessParts
<1>4. PICK s \in Seq(Replies) : s = o.lines
  BY <1>3, ProcessParts
<1>5. s # <<>> /\ Lines(t) = s
  BY <1>2, <1>3, <1>4 DEF Lines
<1>6. PICK l \in Seq(Replies) : l = Tail(s)
  BY <1>5, LineTaken
<1> DEFINE x == [o EXCEPT !.lines = l]
<1>7. procs' = [procs EXCEPT ![p] = x]
  BY <1>2, <1>3, <1>4, <1>6 DEF Reads
<1>8. /\ x \in Processes /\ x.piped = o.piped
      /\ x.lines = l /\ x.state = o.state /\ x.requests = o.requests
  BY DEF Processes
<1> HIDE DEF x
<1>9. OwesOneAnswer(o)
  BY <1>2, <1>3 DEF OneAnswerOwed
<1>10. \A f : /\ Head(s) \in Replies
              /\ Noise(s) => Noise(l) /\ Head(s).type = "noise"
              /\ OneReply(s) => OneReply(l)
              /\ OneReply(s) /\ Head(s).type # "noise" => Noise(l)
              /\ About(s, f) => About(l, f)
              /\ About(s, f) /\ Head(s).type # "noise" => Head(s).file = f
  BY <1>5, <1>6, LineTaken
<1>11. OwesOneAnswer(x)
  BY <1>4, <1>8, <1>9, <1>10 DEF OwesOneAnswer
<1>12. \A call \in Calls : Expected(call, o) => Expected(call, x)
  BY <1>4, <1>8, <1>10 DEF Expected
<1>13. /\ client' \in [Models -> 1..Slots \cup {Nothing}] /\ procs' \in [1..Slots -> Processes]
       /\ procs'[client'[m]] = x
       /\ \A n \in Models : n # m /\ client'[n] # Nothing =>
            procs'[client'[n]] = procs[client[n]]
       /\ ProcessesHeld' /\ OneAnswerOwed'
  BY <1>1, <1>2, <1>3, <1>7, <1>8, <1>11, RewriteKeeps
<1>14. Head(s).type # "noise" => o.requests = <<>> /\ o.state # "loading"
  BY <1>4, <1>9, <1>10 DEF OwesOneAnswer
<1>15. procs[client[m]] = o /\ Lines(t) = s
  BY <1>2, <1>3, <1>5
<1>16. Head(s).type # "noise" => Noise(x.lines)
  BY <1>4, <1>8, <1>9, <1>10 DEF OwesOneAnswer
<1>17. QED
  BY <1>1, <1>8, <1>10, <1>12, <1>13, <1>14, <1>15, <1>16

(* Noise is dropped.                                                       *)
LEMMA SkipKeeps ==
  ASSUME IInv, NEW t \in Threads, Skip(t)
  PROVE  IInv'
<1> USE DEF IInv
<1> DEFINE m == calls[t].model
<1>1. /\ calls[t].pc \in {"startup", "read"} /\ Lines(t) # <<>> /\ Reads(t)
      /\ UNCHANGED <<lowMemory, worker, client, calls, faults, deaths>>
  BY DEF Skip, Hears
<1>2. t \in Holders /\ calls[t] \in Calls /\ Attends(t, m)
  BY <1>1, CallParts DEF Holders, Attends
<1>3. /\ m \in Models /\ client[m] # Nothing
      /\ procs' \in [1..Slots -> Processes]
      /\ ProcessesHeld' /\ OneAnswerOwed'
      /\ \A n \in Models : n # m /\ client'[n] # Nothing =>
           procs'[client'[n]] = procs[client[n]]
      /\ \A call \in Calls :
           Expected(call, procs[client[m]]) => Expected(call, procs'[client'[m]])
  BY <1>1, ReadsStep
<1>4. TypeOK'
  BY <1>1, <1>3 DEF TypeOK
<1>5. OneUser' /\ OneHeldInLowMemory' /\ AnswerIsOfRequest'
  BY <1>1 DEF OneUser, OneHeldInLowMemory, AnswerIsOfRequest, Holders
<1>6. NothingLeftBehind'
  <2>1. ASSUME NEW n \in Models, n # m, client'[n] # Nothing
        PROVE  Quiet(procs'[client'[n]])
    <3>1. ~Attends(t, n) /\ client[n] # Nothing /\ procs'[client'[n]] = procs[client[n]]
      BY <1>1, <1>3, <2>1 DEF Attends
    <3>2. QED
      BY <1>2, <3>1, Found
  <2>2. Expected(calls'[t], procs'[client'[m]]) /\ client'[m] # Nothing
    BY <1>1, <1>2, <1>3, Found
  <2>3. Only(t) /\ \A n \in Models : Attends(t, n)' <=> n = m
    BY <1>1 DEF Only, Attends
  <2>4. QED
    BY <1>2, <2>1, <2>2, <2>3, Left
<1>7. QED
  BY <1>3, <1>4, <1>5, <1>6

(* A deadline.                                                             *)
LEMMA DeadlineKeeps ==
  ASSUME IInv, NEW t \in Threads, Unanswered(t)
  PROVE  IInv'
BY RaiseKeeps DEF Unanswered, IInv, TypeOK

(* A request is written: what the call waits for is about its recording.   *)
LEMMA WriteKeeps ==
  ASSUME IInv, NEW t \in Threads, Write(t)
  PROVE  IInv'
<1> USE DEF IInv
<1> DEFINE m == calls[t].model
           f == calls[t].file
<1>1. calls[t].pc = "write" /\ UNCHANGED <<lowMemory, faults, deaths>>
  BY DEF Write
<1>2. /\ t \in Holders /\ m \in Models /\ worker = "up" /\ f \in Files
      /\ \A n \in Models : ~Attends(t, n)
  BY <1>1, CallParts DEF Holders, OneUser, Attends, TypeOK
<1>3. CASE ~Running(m)
  BY <1>1, <1>3, RaiseKeeps DEF Write, TypeOK
<1>4. CASE Running(m)
  <2>1. /\ procs' = [procs EXCEPT ![client[m]].requests = Append(@, f)]
        /\ Goto(t, "read") /\ UNCHANGED <<worker, client>>
    BY <1>4 DEF Write
  <2>2. client[m] # Nothing /\ Quiet(procs[client[m]])
    BY <1>2, <1>4, Found DEF Running
  <2>3. PICK o \in Processes : o = procs[client[m]] /\ o.lines \in Seq(Replies)
    BY <1>2, <2>2, ProcessParts DEF TypeOK
  <2>4. PICK r \in Seq(Files) :
          r = Append(o.requests, f) /\ Len(r) = 1 /\ DOMAIN r = {1} /\ r[1] = f
    <3>1. o.requests = <<>> /\ <<f>> \in Seq(Files) /\ Append(<<>>, f) = <<f>>
      BY <1>2, <2>2, <2>3 DEF Quiet
    <3>2. Len(<<f>>) = 1 /\ DOMAIN <<f>> = {1}
      OBVIOUS
    <3>3. QED
      BY <3>1, <3>2
  <2> DEFINE x == [o EXCEPT !.requests = r]
  <2>5. procs' = [procs EXCEPT ![client[m]] = x]
    BY <2>1, <2>3, <2>4
  <2>6. /\ x \in Processes /\ x.piped = o.piped
        /\ x.lines = o.lines /\ x.state = o.state /\ x.requests = r
    BY DEF Processes
  <2> HIDE DEF x
  <2>7. OwesOneAnswer(x)
    <3>1. Noise(o.lines) /\ o.state # "loading"
      BY <2>2, <2>3 DEF Quiet
    <3>2. OneReply(o.lines)
      BY <3>1 DEF Noise, OneReply
    <3>3. QED
      BY <2>4, <2>6, <3>1, <3>2 DEF OwesOneAnswer
  <2>8. /\ client' \in [Models -> 1..Slots \cup {Nothing}] /\ procs' \in [1..Slots -> Processes]
        /\ procs'[client'[m]] = x
        /\ \A n \in Models : n # m /\ client'[n] # Nothing =>
             procs'[client'[n]] = procs[client[n]]
        /\ ProcessesHeld' /\ OneAnswerOwed'
    BY <1>2, <2>1, <2>2, <2>3, <2>5, <2>6, <2>7, RewriteKeeps
  <2>9. /\ calls' \in [Threads -> Calls] /\ Only(t)
        /\ calls'[t].pc = "read" /\ calls'[t].model = m /\ calls'[t].file = f
    BY <2>1, GotoStep
  <2>10. TypeOK'
    BY <1>1, <2>1, <2>8, <2>9 DEF TypeOK
  <2>11. OneUser'
    BY <1>2, <2>1, <2>9, StaysUp
  <2>12. OneHeldInLowMemory'
    BY <1>1, <2>1, <2>9 DEF OneHeldInLowMemory, Only
  <2>13. AnswerIsOfRequest'
    BY <2>9, AnswersKept
  <2>14. NothingLeftBehind'
    <3>1. Expected(calls'[t], x)
      <4>1. Noise(o.lines) /\ o.state # "loading"
        BY <2>2, <2>3 DEF Quiet
      <4>2. About(o.lines, f)
        BY <4>1 DEF Noise, About
      <4>3. QED
        BY <2>4, <2>6, <2>9, <4>1, <4>2 DEF Expected
    <3>2. \A n \in Models : n # m /\ client'[n] # Nothing => Quiet(procs'[client'[n]])
      BY <1>2, <2>1, <2>8, Found
    <3>3. \A n \in Models : Attends(t, n)' <=> n = m
      BY <2>9 DEF Attends
    <3>4. QED
      BY <1>2, <2>1, <2>2, <2>8, <2>9, <3>1, <3>2, <3>3, Left
  <2>15. QED
    BY <2>8, <2>10, <2>11, <2>12, <2>13, <2>14
<1>5. QED
  BY <1>3, <1>4

(* The answer is taken.                                                    *)
LEMMA AnsweredKeeps ==
  ASSUME IInv, NEW t \in Threads, Answered(t)
  PROVE  IInv'
<1> USE DEF IInv
<1> DEFINE m == calls[t].model
<1>1. /\ calls[t].pc = "read" /\ UNCHANGED <<lowMemory, faults, deaths>>
      /\ Lines(t) # <<>> /\ Head(Lines(t)).type \in {"ready", "result", "error"}
  BY DEF Answered, Hears
<1>2. /\ t \in Holders /\ m \in Models /\ worker = "up" /\ calls[t].file \in Files
      /\ Attends(t, m) /\ \A n \in Models : n # m => ~Attends(t, n)
  BY <1>1, CallParts DEF Holders, OneUser, Attends, TypeOK
<1>3. CASE Head(Lines(t)).type = "ready"
  BY <1>1, <1>3, RaiseKeeps DEF Answered, TypeOK
<1>4. CASE Head(Lines(t)).type # "ready"
  <2>1. Reads(t) /\ Ends(t, Head(Lines(t))) /\ UNCHANGED <<worker, client>>
    BY <1>4 DEF Answered
  <2>2. /\ client' \in [Models -> 1..Slots \cup {Nothing}] /\ procs' \in [1..Slots -> Processes]
        /\ ProcessesHeld' /\ OneAnswerOwed' /\ Head(Lines(t)) \in Replies
        /\ \A n \in Models : n # m /\ client'[n] # Nothing =>
             procs'[client'[n]] = procs[client[n]]
        /\ Noise(procs'[client'[m]].lines)
        /\ procs'[client'[m]].state = procs[client[m]].state
        /\ procs'[client'[m]].requests = procs[client[m]].requests
        /\ procs[client[m]].requests = <<>> /\ procs[client[m]].state # "loading"
        /\ \A f : About(Lines(t), f) => Head(Lines(t)).file = f
    BY <1>1, <2>1, ReadsStep
  <2>3. PICK r \in Replies : r = Head(Lines(t))
    BY <2>2
  <2>4. /\ calls' \in [Threads -> Calls] /\ Only(t)
        /\ calls'[t].pc = "return" /\ calls'[t].file = calls[t].file /\ calls'[t].reply = r
    BY <2>1, <2>3, EndsStep
  <2>5. TypeOK'
    BY <1>1, <2>1, <2>2, <2>4 DEF TypeOK
  <2>6. OneUser'
    BY <1>2, <2>1, <2>4, StaysUp
  <2>7. OneHeldInLowMemory'
    BY <1>1, <2>1, <2>4 DEF OneHeldInLowMemory, Only
  <2>8. AnswerIsOfRequest'
    <3>1. About(Lines(t), calls[t].file)
      BY <1>1, <1>2, Found DEF Expected, Lines
    <3>2. r.file = calls[t].file
      BY <2>2, <2>3, <3>1
    <3>3. QED
      BY <2>4, <3>2, AnswersKept
  <2>9. NothingLeftBehind'
    <3>1. Quiet(procs'[client'[m]])
      BY <2>2 DEF Quiet
    <3>2. \A n \in Models : n # m /\ client'[n] # Nothing => Quiet(procs'[client'[n]])
      BY <1>2, <2>1, <2>2, Found
    <3>3. \A n \in Models : ~Attends(t, n)'
      BY <2>4 DEF Attends
    <3>4. QED
      BY <1>2, <2>4, <3>1, <3>2, <3>3, Left
  <2>10. QED
    BY <2>2, <2>5, <2>6, <2>7, <2>8, <2>9
<1>5. QED
  BY <1>3, <1>4

(* A process says that it is loaded, or that it could not be.              *)
LEMMA StartedKeeps ==
  ASSUME IInv, NEW t \in Threads, Started(t)
  PROVE  IInv'
<1> USE DEF IInv
<1> DEFINE m == calls[t].model
<1>1. /\ calls[t].pc = "startup" /\ UNCHANGED <<lowMemory, faults, deaths>>
      /\ Lines(t) # <<>> /\ Head(Lines(t)).type \in {"ready", "error"}
  BY DEF Started, Hears
<1>2. /\ t \in Holders /\ m \in Models /\ worker \in {"starting", "up"}
      /\ \A n \in Models : n # m => ~Attends(t, n)
  BY <1>1, CallParts DEF Holders, OneUser, Attends, TypeOK
<1>3. CASE Head(Lines(t)).type = "error"
  BY <1>1, <1>3, RaiseKeeps DEF Started, TypeOK
<1>4. CASE Head(Lines(t)).type # "error"
  <2>1. Reads(t) /\ UNCHANGED client
    BY <1>4 DEF Started
  <2>2. /\ client' \in [Models -> 1..Slots \cup {Nothing}] /\ procs' \in [1..Slots -> Processes]
        /\ ProcessesHeld' /\ OneAnswerOwed'
        /\ \A n \in Models : n # m /\ client'[n] # Nothing =>
             procs'[client'[n]] = procs[client[n]]
        /\ Noise(procs'[client'[m]].lines)
        /\ procs'[client'[m]].state = procs[client[m]].state
        /\ procs'[client'[m]].requests = procs[client[m]].requests
        /\ procs[client[m]].requests = <<>> /\ procs[client[m]].state # "loading"
    BY <1>1, <2>1, ReadsStep
  <2>3. \A n \in Models : client'[n] # Nothing => Quiet(procs'[client'[n]])
    <3>1. Quiet(procs'[client'[m]])
      BY <2>2 DEF Quiet
    <3>2. \A n \in Models : n # m /\ client'[n] # Nothing => Quiet(procs'[client'[n]])
      BY <1>2, <2>1, <2>2, Found
    <3>3. QED
      BY <3>1, <3>2
  <2>4. ASSUME Only(t), calls'[t].pc \in {"idle", "start", "write"}
        PROVE  NothingLeftBehind' /\ AnswerIsOfRequest'
    BY <1>2, <2>3, <2>4, Left, AnswersKept DEF Attends
  <2>5. CASE worker = "up"
    <3>1. Goto(t, "write") /\ UNCHANGED worker
      BY <1>4, <2>5 DEF Started
    <3>2. /\ calls' \in [Threads -> Calls] /\ Only(t)
          /\ calls'[t].pc = "write" /\ calls'[t].file = calls[t].file
      BY <3>1, GotoStep
    <3>3. TypeOK'
      BY <1>1, <2>2, <3>1, <3>2 DEF TypeOK
    <3>4. OneUser'
      BY <1>1, <1>2, <2>5, <3>1, <3>2, StaysUp DEF OneUser
    <3>5. OneHeldInLowMemory'
      BY <1>1, <2>1, <3>2 DEF OneHeldInLowMemory, Only
    <3>6. QED
      BY <2>2, <2>4, <3>2, <3>3, <3>4, <3>5
  <2>6. CASE worker = "starting" /\ m = "ASR"
    <3> DEFINE c == [calls[t] EXCEPT !.pc = "start", !.model = "EMOTION"]
    <3>1. calls' = [calls EXCEPT ![t] = c] /\ UNCHANGED worker
      BY <1>4, <2>6 DEF Started
    <3>2. c \in Calls /\ c.pc = "start" /\ c.model = "EMOTION"
      BY CallParts DEF Calls, Models
    <3> HIDE DEF c
    <3>3. calls' \in [Threads -> Calls] /\ calls'[t] = c /\ Only(t)
      BY <3>1, <3>2, CallSet
    <3>4. TypeOK'
      BY <1>1, <2>2, <3>1, <3>3 DEF TypeOK
    <3>5. /\ \A u \in Threads : u # t => calls[u].pc = "idle" /\ calls'[u] = calls[u]
          /\ ~lowMemory /\ client["EMOTION"] = Nothing
      BY <1>1, <1>2, <2>6, <3>3, Alone DEF OneUser, Only
    <3>6. OneUser'
      BY <1>1, <2>1, <2>6, <3>1, <3>2, <3>3, <3>5 DEF OneUser, Holders
    <3>7. OneHeldInLowMemory'
      BY <1>1, <3>5 DEF OneHeldInLowMemory
    <3>8. QED
      BY <2>2, <2>4, <3>2, <3>3, <3>4, <3>6, <3>7
  <2>7. CASE worker = "starting" /\ m # "ASR"
    <3>1. calls' = [calls EXCEPT ![t] = NoCall] /\ worker' = "up"
      BY <1>4, <2>7 DEF Started
    <3>2. calls' \in [Threads -> Calls] /\ calls'[t] = NoCall /\ Only(t)
      BY <3>1, CallSet, Pieces
    <3>3. TypeOK'
      BY <1>1, <2>2, <3>1, <3>2 DEF TypeOK
    <3>4. \A u \in Threads : calls'[u].pc = "idle"
      BY <1>2, <2>7, <3>2, Alone, Pieces DEF OneUser, Only
    <3>5. OneUser'
      BY <3>1, <3>4 DEF OneUser, Holders
    <3>6. OneHeldInLowMemory'
      BY <1>1, <2>1, <3>4 DEF OneHeldInLowMemory
    <3>7. QED
      BY <2>2, <2>4, <3>2, <3>3, <3>4, <3>5, <3>6
  <2>8. QED
    BY <1>2, <2>5, <2>6, <2>7
<1>5. QED
  BY <1>3, <1>4

(* The other model's process is closed first, in low-memory mode.          *)
LEMMA SwapKeeps ==
  ASSUME IInv, NEW t \in Threads, Swap(t)
  PROVE  IInv'
<1> USE DEF IInv
<1> DEFINE m == calls[t].model
<1>1. calls[t].pc = "swap" /\ Goto(t, "start") /\ UNCHANGED <<lowMemory, worker, faults, deaths>>
  BY DEF Swap
<1>2. /\ t \in Holders /\ m \in Models /\ worker = "up" /\ calls[t].file \in Files
      /\ Other[m] \in Models /\ Other[m] # m /\ \A n \in Models : ~Attends(t, n)
  BY <1>1, CallParts DEF Holders, OneUser, Attends, TypeOK, Other, Models
<1>3. /\ calls' \in [Threads -> Calls] /\ Only(t)
      /\ calls'[t].pc = "start" /\ calls'[t].file = calls[t].file /\ calls'[t].model = m
  BY <1>1, GotoStep
<1>4. \E ms \in SUBSET Models : Discard(ms) /\ (lowMemory => ms = {Other[m]})
  <2>1. CASE lowMemory
    BY <1>2, <2>1 DEF Swap
  <2>2. CASE ~lowMemory
    <3>1. UNCHANGED <<client, procs>>
      BY <2>2 DEF Swap
    <3>2. Discard({})
      BY <3>1 DEF Discard, TypeOK
    <3>3. QED
      BY <2>2, <3>2
  <2>3. QED
    BY <2>1, <2>2
<1>5. PICK ms \in SUBSET Models : Discard(ms) /\ (lowMemory => ms = {Other[m]})
  BY <1>4
<1>6. /\ client' \in [Models -> 1..Slots \cup {Nothing}] /\ procs' \in [1..Slots -> Processes]
      /\ \A n \in Models : client'[n] = IF n \in ms THEN Nothing ELSE client[n]
      /\ \A n \in Models : client'[n] # Nothing => procs'[client'[n]] = procs[client[n]]
      /\ ProcessesHeld' /\ OneAnswerOwed'
  BY <1>5, DiscardKeeps
<1>7. TypeOK'
  BY <1>1, <1>3, <1>6 DEF TypeOK
<1>8. OneUser'
  BY <1>1, <1>2, <1>3, StaysUp
<1>9. OneHeldInLowMemory'
  <2>1. ASSUME lowMemory
        PROVE  /\ client'[Other[m]] = Nothing
               /\ client'["ASR"] = Nothing \/ client'["EMOTION"] = Nothing
    BY <1>2, <1>5, <1>6, <2>1 DEF Models
  <2>2. \A u \in Threads : calls'[u].pc = "start" => u = t
    BY <1>2, <1>3, Alone DEF Only
  <2>3. QED
    BY <1>1, <1>3, <2>1, <2>2 DEF OneHeldInLowMemory
<1>10. AnswerIsOfRequest'
  BY <1>3, AnswersKept
<1>11. NothingLeftBehind'
  <2>1. \A n \in Models : client'[n] # Nothing => Quiet(procs'[client'[n]])
    BY <1>2, <1>6, Found
  <2>2. \A n \in Models : ~Attends(t, n)'
    BY <1>3 DEF Attends
  <2>3. QED
    BY <1>2, <1>3, <2>1, <2>2, Left
<1>12. QED
  BY <1>6, <1>7, <1>8, <1>9, <1>10, <1>11

-----------------------------------------------------------------------------
(***************************************************************************)
(* What leaves the processes alone.                                        *)
(***************************************************************************)

(* A call enters, moves or leaves outside the processes.                   *)
LEMMA CallKeeps ==
  ASSUME IInv, NEW t \in Threads, UNCHANGED <<lowMemory, worker, client, procs, faults, deaths>>,
         calls' \in [Threads -> Calls], Only(t),
         calls[t].pc \notin {"startup", "read"},
         calls'[t].pc \in {"idle", "wait", "swap"},
         OneUser'
  PROVE  IInv'
<1> USE DEF IInv
<1>1. TypeOK'
  BY DEF TypeOK
<1>2. ProcessesHeld' /\ OneAnswerOwed'
  BY DEF ProcessesHeld, OneAnswerOwed, Live, Owned
<1>3. OneHeldInLowMemory'
  BY DEF OneHeldInLowMemory, Only
<1>4. AnswerIsOfRequest'
  BY AnswersKept
<1>5. NothingLeftBehind'
  <2>1. \A u \in Threads, m \in Models : Attends(u, m)' => Attends(u, m) /\ calls'[u] = calls[u]
    BY DEF Attends, Only
  <2>2. \A u \in Threads, m \in Models : Attends(u, m) => Attends(u, m)'
    BY DEF Attends, Only
  <2>3. QED
    BY <2>1, <2>2 DEF NothingLeftBehind
<1>6. QED
  BY <1>1, <1>2, <1>3, <1>4, <1>5

LEMMA CallMade ==
  ASSUME IInv, NEW t \in Threads, NEW m \in Models, NEW f \in Files, Call(t, m, f)
  PROVE  IInv'
<1> USE DEF IInv
<1> DEFINE c == [NoCall EXCEPT !.pc = "wait", !.model = m, !.file = f]
<1>1. /\ worker = "up" /\ calls[t].pc = "idle" /\ calls' = [calls EXCEPT ![t] = c]
      /\ UNCHANGED <<lowMemory, worker, client, procs, faults, deaths>>
  BY DEF Call
<1>2. c \in Calls /\ c.pc = "wait" /\ c.file = f
  BY Pieces DEF Calls, NoCall, Recordings
<1> HIDE DEF c
<1>3. calls' \in [Threads -> Calls] /\ calls'[t] = c /\ Only(t)
  BY <1>1, <1>2, CallSet
<1>4. OneUser'
  <2>1. Holders' \subseteq Holders
    BY <1>2, <1>3 DEF Holders, Only
  <2>2. QED
    BY <1>1, <1>2, <1>3, <2>1 DEF OneUser, Only
<1>5. QED
  BY <1>1, <1>2, <1>3, <1>4, CallKeeps

(* The one permit.                                                         *)
LEMMA AcquireKeeps ==
  ASSUME Permits = 1, IInv, NEW t \in Threads, Acquire(t)
  PROVE  IInv'
<1> USE DEF IInv
<1>1. /\ calls[t].pc = "wait" /\ Cardinality(Holders) < 1 /\ Goto(t, "swap")
      /\ UNCHANGED <<lowMemory, worker, client, procs, faults, deaths>>
  BY DEF Acquire
<1>2. Holders = {}
  <2>1. IsFiniteSet(Holders)
    BY AudioAssumption, FS_Subset DEF Holders
  <2>2. Cardinality(Holders) = 0
    BY <1>1, <2>1, FS_CardinalityType
  <2>3. QED
    BY <2>1, <2>2, FS_EmptySet
<1>3. /\ calls' \in [Threads -> Calls] /\ Only(t)
      /\ calls'[t].pc = "swap" /\ calls'[t].file = calls[t].file
  BY <1>1, GotoStep
<1>4. worker = "up" /\ calls[t].file \in Files
  BY <1>1 DEF OneUser, TypeOK
<1>5. OneUser'
  BY <1>1, <1>2, <1>3, <1>4, StaysUp
<1>6. QED
  BY <1>1, <1>3, <1>5, CallKeeps

LEMMA ReleaseKeeps ==
  ASSUME IInv, NEW t \in Threads, Release(t)
  PROVE  IInv'
<1> USE DEF IInv
<1>1. /\ calls[t].pc = "return" /\ calls' = [calls EXCEPT ![t] = NoCall]
      /\ UNCHANGED <<lowMemory, worker, client, procs, faults, deaths>>
  BY DEF Release
<1>2. calls' \in [Threads -> Calls] /\ calls'[t] = NoCall /\ Only(t)
  BY <1>1, CallSet, Pieces
<1>3. worker = "up" /\ t \in Holders
  BY <1>1 DEF OneUser, TypeOK, Holders
<1>4. OneUser'
  BY <1>1, <1>2, <1>3, StaysUp, Pieces
<1>5. QED
  BY <1>1, <1>2, <1>4, CallKeeps, Pieces

-----------------------------------------------------------------------------
(***************************************************************************)
(* The Worker.                                                             *)
(***************************************************************************)

LEMMA WorkerStartKeeps ==
  ASSUME IInv, NEW t \in Threads, WorkerStart(t)
  PROVE  IInv'
<1> USE DEF IInv
<1> DEFINE c == [NoCall EXCEPT !.pc = "start"]
<1>1. /\ worker' = IF lowMemory THEN "up" ELSE "starting"
      /\ calls' = IF lowMemory THEN calls ELSE [calls EXCEPT ![t] = c]
      /\ UNCHANGED <<lowMemory, client, procs, faults, deaths>>
      /\ \A u \in Threads : calls[u].pc = "idle"
      /\ \A m \in Models : client[m] = Nothing
  BY DEF WorkerStart, OneUser
<1>2. c \in Calls /\ c.pc = "start"
  BY Pieces DEF Calls, NoCall
<1> HIDE DEF c
<1>3. /\ calls' \in [Threads -> Calls] /\ Only(t)
      /\ calls'[t].pc \in {"idle", "start"}
      /\ lowMemory => calls'[t].pc = "idle"
  <2>1. CASE lowMemory
    BY <1>1, <2>1 DEF Only, TypeOK
  <2>2. CASE ~lowMemory
    BY <1>1, <1>2, <2>2, CallSet
  <2>3. QED
    BY <2>1, <2>2
<1>4. TypeOK'
  BY <1>1, <1>3 DEF TypeOK
<1>5. client'["ASR"] = Nothing /\ client'["EMOTION"] = Nothing
  BY <1>1 DEF Models
<1>6. OneUser'
  <2>1. \A u \in Threads : u # t => calls'[u].pc = "idle"
    BY <1>1, <1>3 DEF Only
  <2>2. \A u, v \in Holders' : u = v
    BY <1>3, <2>1 DEF Holders
  <2>3. worker' # "down" /\ (worker' = "up" <=> lowMemory) /\ lowMemory \in BOOLEAN
    BY <1>1 DEF TypeOK
  <2>4. \A u \in Threads : client'[calls'[u].model] = Nothing
    BY <1>1, <1>3 DEF Calls
  <2>5. QED
    BY <1>1, <1>3, <1>5, <2>1, <2>2, <2>3, <2>4 DEF OneUser
<1>7. ProcessesHeld' /\ OneAnswerOwed'
  BY <1>1 DEF ProcessesHeld, OneAnswerOwed, Live, Owned
<1>8. OneHeldInLowMemory'
  BY <1>1, <1>3, <1>5 DEF OneHeldInLowMemory, Only
<1>9. AnswerIsOfRequest'
  BY <1>3, AnswersKept
<1>10. NothingLeftBehind'
  BY <1>1, <1>3 DEF NothingLeftBehind, Attends, Only
<1>11. QED
  BY <1>4, <1>6, <1>7, <1>8, <1>9, <1>10

(* A Worker that is down, or about to be, with nothing left.               *)
LEMMA DownKeeps ==
  ASSUME TypeOK', OneAnswerOwed', worker' = "down",
         \A t \in Threads : calls'[t].pc = "idle",
         \A m \in Models : client'[m] = Nothing,
         \A p \in 1..Slots : procs'[p].state \in {"gone", "exited"} \/ ~procs'[p].piped
  PROVE  IInv'
<1>1. OneUser'
  BY DEF OneUser, Holders
<1>2. ProcessesHeld'
  BY DEF ProcessesHeld, Live, Models
<1>3. OneHeldInLowMemory' /\ AnswerIsOfRequest'
  BY DEF OneHeldInLowMemory, AnswerIsOfRequest, Models
<1>4. NothingLeftBehind'
  BY DEF NothingLeftBehind, Attends
<1>5. QED
  BY <1>1, <1>2, <1>3, <1>4 DEF IInv

LEMMA WorkerStopKeeps ==
  ASSUME IInv, WorkerStop
  PROVE  IInv'
<1> USE DEF IInv
<1>1. /\ worker' = "down" /\ Discard(Models) /\ UNCHANGED <<lowMemory, calls, faults, deaths>>
      /\ \A t \in Threads : calls[t].pc = "idle"
  BY DEF WorkerStop
<1>2. /\ client' \in [Models -> 1..Slots \cup {Nothing}] /\ procs' \in [1..Slots -> Processes]
      /\ \A m \in Models : client'[m] = Nothing
      /\ ProcessesHeld' /\ OneAnswerOwed'
  BY <1>1, DiscardKeeps
<1>3. TypeOK'
  BY <1>1, <1>2 DEF TypeOK
<1>4. \A p \in 1..Slots : procs'[p].state \in {"gone", "exited"} \/ ~procs'[p].piped
  BY <1>2, AudioAssumption DEF ProcessesHeld, Live, Owned
<1>5. QED
  BY <1>1, <1>2, <1>3, <1>4, DownKeeps

(* What a process that outlives its Worker becomes.                        *)
Orphan(p) == [procs[p] EXCEPT !.piped = FALSE, !.model = "ASR", !.lines = <<>>]

LEMMA OrphanStep ==
  ASSUME TypeOK, NEW p \in 1..Slots
  PROVE  /\ Orphan(p) \in Processes /\ Orphan(p).piped = FALSE /\ Orphan(p).lines = <<>>
         /\ Orphan(p).state = procs[p].state /\ Orphan(p).requests = procs[p].requests
<1>1. PICK o \in Processes : o = procs[p]
  BY ProcessParts
<1>2. PICK l \in Seq(Replies) : l = <<>>
  BY Pieces DEF Processes
<1> DEFINE x == [o EXCEPT !.piped = FALSE, !.model = "ASR", !.lines = l]
<1>3. /\ x \in Processes /\ x.piped = FALSE /\ x.lines = l
      /\ x.state = o.state /\ x.requests = o.requests
  BY DEF Processes, Models
<1>4. Orphan(p) = x
  BY <1>1, <1>2 DEF Orphan
<1> HIDE DEF x
<1>5. QED
  BY <1>1, <1>2, <1>3, <1>4

LEMMA WorkerDiesKeeps ==
  ASSUME IInv, WorkerDies
  PROVE  IInv'
<1> USE DEF IInv
<1>1. /\ worker' = "down" /\ UNCHANGED <<lowMemory, faults>>
      /\ calls' = [t \in Threads |-> NoCall] /\ client' = [m \in Models |-> Nothing]
      /\ procs' = [p \in 1..Slots |-> IF Live(p) THEN Orphan(p) ELSE Gone]
  BY DEF WorkerDies, Orphan
<1>2. TypeOK'
  <2>1. deaths' \in 0..MaxDeaths
    <3>1. deaths < MaxDeaths /\ deaths' = deaths + 1 /\ deaths \in 0..MaxDeaths
      BY DEF WorkerDies, TypeOK
    <3>2. QED
      BY <3>1, AudioAssumption
  <2>2. client' \in [Models -> 1..Slots \cup {Nothing}] /\ calls' \in [Threads -> Calls]
    BY <1>1, Pieces
  <2>3. procs' \in [1..Slots -> Processes]
    BY <1>1, Pieces, OrphanStep
  <2>4. QED
    BY <1>1, <2>1, <2>2, <2>3 DEF TypeOK
<1>3. \A p \in 1..Slots : procs'[p].state \in {"gone", "exited"} \/ ~procs'[p].piped
  BY <1>1, Pieces, OrphanStep
<1>4. OneAnswerOwed'
  <2>1. OwesOneAnswer(Gone)
    BY Pieces DEF OwesOneAnswer
  <2>2. ASSUME NEW p \in 1..Slots
        PROVE  OwesOneAnswer(Orphan(p))
    <3>1. OwesOneAnswer(procs[p])
      BY DEF OneAnswerOwed
    <3>2. QED
      BY <3>1, Pieces, OrphanStep DEF OwesOneAnswer
  <2>3. QED
    BY <1>1, <2>1, <2>2 DEF OneAnswerOwed
<1>5. QED
  BY <1>1, <1>2, <1>3, <1>4, Pieces, DownKeeps

-----------------------------------------------------------------------------
(***************************************************************************)
(* The start of a process.                                                 *)
(***************************************************************************)

(* A new process takes the place of the one that the client has.           *)
Replaces(m, new) ==
  /\ client' = [client EXCEPT ![m] = new]
  /\ procs' = [p \in 1..Slots |->
       CASE p = new -> NewChild(m) [] p # new /\ p = client[m] -> Gone [] OTHER -> procs[p]]

LEMMA ReplacesKeeps ==
  ASSUME TypeOK, ProcessesHeld, OneAnswerOwed, NEW m \in Models, NEW new \in 1..Slots,
         new \in Free \/ new = client[m], Replaces(m, new)
  PROVE  /\ client' \in [Models -> 1..Slots \cup {Nothing}] /\ procs' \in [1..Slots -> Processes]
         /\ client'[m] = new /\ procs'[new] = NewChild(m) /\ client'[m] # Nothing
         /\ \A n \in Models : n # m =>
              /\ client'[n] = client[n]
              /\ client[n] # Nothing => procs'[client[n]] = procs[client[n]]
         /\ ProcessesHeld' /\ OneAnswerOwed'
<1>1. /\ client' \in [Models -> 1..Slots \cup {Nothing}]
      /\ client'[m] = new /\ \A n \in Models : n # m => client'[n] = client[n]
      /\ new # Nothing
  BY AudioAssumption DEF Replaces, TypeOK
<1>2. /\ procs' \in [1..Slots -> Processes] /\ procs'[new] = NewChild(m)
      /\ \A p \in 1..Slots : p # new => procs'[p] = IF p = client[m] THEN Gone ELSE procs[p]
  BY Pieces DEF Replaces, TypeOK
<1>3. \A n \in Models : n # m /\ client[n] # Nothing =>
        client[n] # new /\ client[n] # client[m] /\ client[n] \in 1..Slots
  BY Distinct DEF ProcessesHeld, Free, TypeOK
<1>4. \A n \in Models : n # m /\ client[n] # Nothing => procs'[client[n]] = procs[client[n]]
  BY <1>2, <1>3
<1>5. OneAnswerOwed'
  <2>1. OwesOneAnswer(Gone) /\ OwesOneAnswer(NewChild(m))
    BY Pieces DEF OwesOneAnswer
  <2>2. QED
    BY <1>2, <2>1 DEF OneAnswerOwed
<1>6. ProcessesHeld'
  <2>1. ASSUME NEW n \in Models, client'[n] # Nothing
        PROVE  procs'[client'[n]].state # "gone" /\ procs'[client'[n]].piped
    BY <1>1, <1>2, <1>4, <2>1, Pieces DEF ProcessesHeld
  <2>2. ASSUME NEW p \in 1..Slots, procs'[p].state \notin {"gone", "exited"}, procs'[p].piped
        PROVE  \E n \in Models : client'[n] = p
    <3>1. CASE p = new
      BY <1>1, <3>1
    <3>2. CASE p # new
      <4>1. p # client[m] /\ procs'[p] = procs[p]
        BY <1>2, <2>2, <3>2, Pieces
      <4>2. PICK n \in Models : client[n] = p
        BY <2>2, <4>1 DEF ProcessesHeld, Live, Owned
      <4>3. QED
        BY <1>1, <4>1, <4>2
    <3>3. QED
      BY <3>1, <3>2
  <2>3. client'["ASR"] # client'["EMOTION"] \/ client'["ASR"] = Nothing
    BY <1>1, <1>3 DEF Models, ProcessesHeld
  <2>4. QED
    BY <2>1, <2>2, <2>3 DEF ProcessesHeld, Live, Owned
<1>7. QED
  BY <1>1, <1>2, <1>4, <1>5, <1>6

LEMMA StartKeeps ==
  ASSUME IInv, NEW t \in Threads, Start(t)
  PROVE  IInv'
<1> USE DEF IInv
<1> DEFINE m == calls[t].model
           slots == (Free \cup {client[m]}) \ {Nothing}
<1>1. calls[t].pc = "start" /\ UNCHANGED <<lowMemory, deaths>>
  BY DEF Start
<1>2. /\ t \in Holders /\ m \in Models /\ worker \in {"starting", "up"}
      /\ \A n \in Models : ~Attends(t, n)
      /\ worker = "up" => calls[t].file \in Files
  BY <1>1, CallParts DEF Holders, OneUser, Attends, TypeOK
<1>3. CASE Running(m) /\ Goto(t, "write") /\ UNCHANGED <<worker, client, procs, faults>>
  <2>1. /\ calls' \in [Threads -> Calls] /\ Only(t)
        /\ calls'[t].pc = "write" /\ calls'[t].file = calls[t].file
    BY <1>3, GotoStep
  <2>2. worker = "up"
    BY <1>1, <1>2, <1>3 DEF Running, OneUser
  <2>3. TypeOK' /\ ProcessesHeld' /\ OneAnswerOwed'
    BY <1>1, <1>3, <2>1 DEF TypeOK, ProcessesHeld, OneAnswerOwed, Live, Owned
  <2>4. OneUser'
    BY <1>2, <1>3, <2>1, <2>2, StaysUp
  <2>5. OneHeldInLowMemory' /\ AnswerIsOfRequest'
    BY <1>1, <1>3, <2>1, AnswersKept DEF OneHeldInLowMemory, Only
  <2>6. NothingLeftBehind'
    <3>1. \A n \in Models : client'[n] # Nothing => Quiet(procs'[client'[n]])
      BY <1>2, <1>3, Found
    <3>2. \A n \in Models : ~Attends(t, n)'
      BY <2>1 DEF Attends
    <3>3. QED
      BY <1>2, <2>1, <3>1, <3>2, Left
  <2>7. QED
    BY <2>3, <2>4, <2>5, <2>6
<1>4. ASSUME NEW new \in slots, Replaces(m, new), Goto(t, "startup"), UNCHANGED <<worker, faults>>
      PROVE  IInv'
  <2>1. new \in 1..Slots /\ (new \in Free \/ new = client[m])
    BY <1>2, <1>4 DEF Free, TypeOK
  <2>2. /\ client' \in [Models -> 1..Slots \cup {Nothing}] /\ procs' \in [1..Slots -> Processes]
        /\ client'[m] = new /\ procs'[new] = NewChild(m) /\ client'[m] # Nothing
        /\ \A n \in Models : n # m =>
             /\ client'[n] = client[n]
             /\ client[n] # Nothing => procs'[client[n]] = procs[client[n]]
        /\ ProcessesHeld' /\ OneAnswerOwed'
    BY <1>2, <1>4, <2>1, ReplacesKeeps
  <2>3. /\ calls' \in [Threads -> Calls] /\ Only(t)
        /\ calls'[t].pc = "startup" /\ calls'[t].file = calls[t].file /\ calls'[t].model = m
    BY <1>4, GotoStep
  <2>4. TypeOK'
    BY <1>1, <1>4, <2>2, <2>3 DEF TypeOK
  <2>5. OneUser'
    <3>1. CASE worker = "up"
      BY <1>2, <1>4, <2>3, <3>1, StaysUp
    <3>2. CASE worker = "starting"
      <4>1. \A u \in Threads : u # t => calls'[u].pc = "idle"
        BY <1>2, <2>3, <3>2, Alone DEF Only, OneUser
      <4>2. ~lowMemory /\ (m = "ASR" => client["EMOTION"] = Nothing)
        BY <1>1, <3>2 DEF OneUser
      <4>3. m = "ASR" => client'["EMOTION"] = Nothing
        BY <2>2, <4>2 DEF Models
      <4>4. \A u, v \in Holders' : u = v
        BY <2>3, <4>1 DEF Holders
      <4>5. QED
        BY <1>1, <1>4, <2>3, <3>2, <4>1, <4>2, <4>3, <4>4 DEF OneUser
    <3>3. QED
      BY <1>2, <3>1, <3>2
  <2>6. OneHeldInLowMemory'
    <3>1. \A u \in Threads : calls'[u].pc # "start"
      BY <1>2, <2>3, Alone DEF Only
    <3>2. ASSUME lowMemory
          PROVE  client'["ASR"] = Nothing \/ client'["EMOTION"] = Nothing
      BY <1>1, <1>2, <2>2, <3>2 DEF OneHeldInLowMemory, Other, Models
    <3>3. QED
      BY <1>1, <3>1, <3>2 DEF OneHeldInLowMemory
  <2>7. AnswerIsOfRequest'
    BY <2>3, AnswersKept
  <2>8. NothingLeftBehind'
    <3>1. Expected(calls'[t], procs'[client'[m]])
      BY <1>2, <2>2, <2>3, Pieces DEF Expected
    <3>2. \A n \in Models : n # m /\ client'[n] # Nothing => Quiet(procs'[client'[n]])
      BY <1>2, <2>2, Found
    <3>3. \A n \in Models : Attends(t, n)' <=> n = m
      BY <2>3 DEF Attends
    <3>4. QED
      BY <1>2, <2>2, <2>3, <3>1, <3>2, <3>3, Left
  <2>9. QED
    BY <2>2, <2>4, <2>5, <2>6, <2>7, <2>8
<1>5. CASE ~Running(m) /\ Fault /\ Raise(t)
  <2>1. faults' \in 0..MaxFaults
    BY <1>5, AudioAssumption DEF Fault, TypeOK
  <2>2. QED
    BY <1>1, <1>5, <2>1, RaiseKeeps
<1>6. CASE /\ ~Running(m) /\ slots # {}
           /\ Replaces(m, CHOOSE p \in slots : TRUE)
           /\ Goto(t, "startup") /\ UNCHANGED <<worker, faults>>
  BY <1>4, <1>6
<1>7. QED
  BY <1>3, <1>5, <1>6 DEF Start, Replaces

-----------------------------------------------------------------------------
(***************************************************************************)
(* The invariant and what follows from it.                                 *)
(***************************************************************************)

LEMMA Initially ==
  ASSUME Init
  PROVE  IInv
<1>1. TypeOK
  BY Pieces, AudioAssumption DEF Init, TypeOK
<1>2. OneAnswerOwed
  BY Pieces DEF Init, OneAnswerOwed, OwesOneAnswer
<1>3. OneUser /\ AnswerIsOfRequest
  BY Pieces DEF Init, OneUser, Holders, AnswerIsOfRequest
<1>4. ProcessesHeld /\ OneHeldInLowMemory
  BY Pieces DEF Init, ProcessesHeld, Live, OneHeldInLowMemory, Models
<1>5. NothingLeftBehind
  BY Pieces DEF Init, NothingLeftBehind, Attends
<1>6. QED
  BY <1>1, <1>2, <1>3, <1>4, <1>5 DEF IInv

LEMMA Inductive ==
  ASSUME Permits = 1, IInv, [Next]_vars
  PROVE  IInv'
<1>1. ASSUME NEW p \in 1..Slots, Child(p) \/ ChildFault(p)
      PROVE  IInv'
  BY <1>1, ChildKeeps
<1>2. ASSUME NEW t \in Threads, Step(t)
      PROVE  IInv'
  BY <1>2, SwapKeeps, StartKeeps, SkipKeeps, DeadlineKeeps, StartedKeeps, WriteKeeps,
     AnsweredKeeps, ReleaseKeeps DEF Step
<1>3. ASSUME NEW t \in Threads, Acquire(t) \/ WorkerStart(t)
      PROVE  IInv'
  BY <1>3, AcquireKeeps, WorkerStartKeeps
<1>4. ASSUME NEW t \in Threads, NEW m \in Models, NEW f \in Files, Call(t, m, f)
      PROVE  IInv'
  BY <1>4, CallMade
<1>5. CASE WorkerStop \/ WorkerDies
  BY <1>5, WorkerStopKeeps, WorkerDiesKeeps
<1>6. CASE UNCHANGED vars
  BY <1>6 DEF vars, IInv, TypeOK, OneUser, ProcessesHeld, OneHeldInLowMemory, OneAnswerOwed,
     NothingLeftBehind, AnswerIsOfRequest, Holders, Live, Owned, Attends
<1>7. QED
  BY <1>1, <1>2, <1>3, <1>4, <1>5, <1>6 DEF Next

(* With one permit the invariant holds in every state.                     *)
THEOREM Strengthened ==
  ASSUME Permits = 1
  PROVE  Spec => []IInv
<1>1. Init => IInv
  BY Initially
<1>2. IInv /\ [Next]_vars => IInv'
  BY Inductive
<1>3. QED
  BY <1>1, <1>2, PTL DEF Spec

(* With gpu_workers = 1 no call takes the answer to another's request, of  *)
(* whatever the children fail and however often Workers die: a process     *)
(* that was given up is never read again, and one that is kept owes none.  *)
THEOREM OwnAnswer ==
  ASSUME Permits = 1
  PROVE  Spec => []AnswerIsOfRequest
<1>1. IInv => AnswerIsOfRequest
  BY DEF IInv
<1>2. QED
  BY <1>1, Strengthened, PTL

(* With gpu_workers = 1 a Worker in low-memory mode holds one model's      *)
(* process at most, because every process it could still write to is held  *)
(* by a client and one client is empty before the other starts.            *)
THEOREM OneModel ==
  ASSUME Permits = 1
  PROVE  Spec => []OneModelInLowMemory
<1>1. IInv => OneModelInLowMemory
  <2>1. SUFFICES ASSUME IInv, lowMemory
                 PROVE  Cardinality({p \in 1..Slots : Live(p) /\ procs[p].piped}) <= 1
    BY DEF OneModelInLowMemory
  <2> DEFINE held == {p \in 1..Slots : Live(p) /\ procs[p].piped}
  <2>2. \A p, q \in held : p = q
    BY <2>1, AudioAssumption
    DEF IInv, TypeOK, ProcessesHeld, OneHeldInLowMemory, Owned, Models
  <2>3. CASE held = {}
    BY <2>3, FS_EmptySet
  <2>4. ASSUME NEW p \in held
        PROVE  Cardinality(held) = 1
    <3>1. held = {p}
      BY <2>2
    <3>2. QED
      BY <3>1, FS_Singleton
  <2>5. QED
    BY <2>3, <2>4
<1>2. QED
  BY <1>1, Strengthened, PTL
=============================================================================
