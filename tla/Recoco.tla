------------------------------- MODULE Recoco -------------------------------
(***************************************************************************)
(* The cooperative scheduler of POX: pox/lib/recoco/recoco.py, and how     *)
(* POXCore uses it to defer calls and to stop.                             *)
(*                                                                         *)
(* One thread runs the tasks that are ready (Scheduler), another waits     *)
(* with select() for the others (SelectHub), and any thread may start a    *)
(* task or ask for a call (callLater).  The threads share two deques, an   *)
(* Event and two pipes, the pingers; each touch of one is a step here.     *)
(*                                                                         *)
(* Priorities below 1 and the numbers a task may yield instead of a Sleep  *)
(* are left out, since no task of the controller uses them; the Event's    *)
(* timeout of two seconds may end a wait but is never relied on.           *)
(***************************************************************************)
EXTENDS Integers, Sequences, FiniteSets

CONSTANTS
  Timers, Readers, Blockers, \* tasks: a Timer, a task that selects on a
                             \* socket, a BlockingTask
  Recurring,     \* the Timers that recur
  Delay,         \* of a Timer
  SelectTimeout, \* of a reader
  Programs,      \* what may happen in one behaviour: [tasks, calls, input,
                 \* until], the tasks started, thread -> the function it asks
                 \* for with callLater, how often a socket gets data, and the
                 \* time at which the clock stops
  Threads,
  MaxTime        \* bound on the clocks

later == "later"                          \* the CallLaterTask
Tasks == Timers \cup Readers \cup Blockers \cup {later}
Wrap(t) == [task |-> t, wrapped |-> TRUE] \* ScheduleTask(t)
Plain(t) == [task |-> t, wrapped |-> FALSE]
Never == MaxTime + Delay + SelectTimeout  \* no timeout
quit == "quit"                            \* the call of core._quit

ASSUME DelayAssumption == Delay \in Nat \ {0} /\ SelectTimeout \in Nat \ {0} /\ MaxTime \in Nat
ASSUME ProgramsAssumption ==
  \A p \in Programs :
    /\ DOMAIN p = {"tasks", "calls", "input", "until"}
    /\ DOMAIN p.calls \subseteq Threads /\ p.input \in Nat /\ p.until \in 0..MaxTime
ASSUME TasksAssumption ==
  /\ Recurring \subseteq Timers /\ later \notin Timers \cup Readers \cup Blockers
  /\ Timers \cap Readers = {} /\ Timers \cap Blockers = {} /\ Readers \cap Blockers = {}

VARIABLES
  program, now,
  ready, event, unset,       \* Scheduler._ready, _event, and the threads
                             \* that have not yet come to _event.set()
  sched,                     \* the scheduler's thread: [pc, task, fd, tto]
  hub,                       \* SelectHub._threadProc: [pc, watch, out]
  registered, incoming, pinged, \* its tasks, _incoming and _pinger
  task,                      \* task -> [life, rv, next, cancelled]
  readable,                  \* tasks whose socket or pinger can be read
  blocked,                   \* tasks whose CallBlocking thread runs
  calls,                     \* CallLaterTask._calls
  thread,                    \* thread -> where it is in callLater
  running, hasQuit, allDone,
  made, fired                \* history: the calls made, callbacks of timers

clock == <<program, now, running>>
queue == <<ready, event, unset>>
ends == <<hasQuit, allDone>>
sched_vars == <<queue, sched, ends>>
others == <<readable, blocked, calls, thread>>
hub_vars == <<hub, registered, incoming, pinged>>
history == <<made, fired>>
vars == <<clock, sched_vars, hub_vars, task, others, history>>

HasFd(t) == t \in Readers \cup {later}
Restricted(f, S) == [x \in S |-> f[x]]

Init ==
  /\ program \in Programs /\ now = 0
  /\ ready = <<>> /\ event = FALSE /\ unset = {}
  /\ sched = [pc |-> "loop", task |-> later, fd |-> FALSE, tto |-> Never]
  /\ hub = [pc |-> "scan", watch |-> {}, out |-> {}]
  /\ registered = <<>> /\ incoming = <<>> /\ pinged = FALSE
  /\ task = [t \in Tasks |-> [life |-> "new", rv |-> FALSE, next |-> Delay, cancelled |-> FALSE]]
  /\ readable = {} /\ blocked = {} /\ calls = <<>>
  /\ thread = [th \in Threads |-> "idle"]
  /\ running = TRUE /\ hasQuit = FALSE /\ allDone = FALSE
  /\ made = <<>> /\ fired = [t \in Timers |-> 0]

-----------------------------------------------------------------------------
(* Fault: the scheduler is not woken.                                      *)
fast_schedule_asleep(th, item) == ready' = Append(ready, item) /\ UNCHANGED <<unset, event>>

(* Scheduler.fast_schedule by the thread th, before its _event.set().      *)
fast_schedule(th, item) == ready' = Append(ready, item) /\ unset' = unset \cup {th} /\ UNCHANGED event

SetEvent(th) ==
  /\ th \in unset /\ unset' = unset \ {th} /\ event' = TRUE
  /\ UNCHANGED <<clock, ready, sched, ends, hub_vars, task, others, history>>

(* Task.start by the main thread: schedule() of another thread, which      *)
(* leaves it to a ScheduleTask.                                            *)
Start(t) ==
  /\ t \in program.tasks /\ task[t].life = "new" /\ "main" \notin unset
  /\ task' = [task EXCEPT ![t].life = "started", ![t].next = now + Delay]
  /\ fast_schedule("main", Wrap(t))
  /\ UNCHANGED <<clock, sched, ends, hub_vars, others, history>>

-----------------------------------------------------------------------------
(* Scheduler.run and cycle.                                                *)
Goto(pc) == sched' = [sched EXCEPT !.pc = pc]

SchedLoop ==
  /\ sched.pc = "loop"
  /\ IF hasQuit THEN Goto("ended") /\ pinged' = TRUE /\ allDone' = TRUE
     ELSE ready = <<>> /\ Goto("wait") /\ UNCHANGED <<pinged, allDone>>
  /\ UNCHANGED <<clock, queue, hasQuit, hub, registered, incoming, task, others, history>>

(* _event.wait returns when the event is set, or late.                     *)
SchedWake ==
  /\ sched.pc = "wait" /\ event /\ Goto("clear")
  /\ UNCHANGED <<clock, queue, ends, hub_vars, task, others, history>>
SchedWakeLate ==
  /\ sched.pc = "wait" /\ ~event /\ Goto("clear")
  /\ UNCHANGED <<clock, queue, ends, hub_vars, task, others, history>>
SchedClear ==
  /\ sched.pc = "clear" /\ event' = FALSE /\ Goto(IF hasQuit THEN "loop" ELSE "cycle")
  /\ UNCHANGED <<clock, ready, unset, ends, hub_vars, task, others, history>>

(* cycle finds nothing after all, or pops a task and runs it.              *)
SchedIdle ==
  /\ sched.pc = "cycle" /\ ready = <<>> /\ Goto("loop")
  /\ UNCHANGED <<clock, queue, ends, hub_vars, task, others, history>>
Cycles == ready # <<>> /\ (sched.pc = "cycle" \/ (sched.pc = "loop" /\ ~hasQuit))
Executes(t) == Cycles /\ Head(ready) = Plain(t)

(* ScheduleTask.run                                                        *)
ExecSchedule ==
  /\ Cycles /\ Head(ready).wrapped /\ Goto("loop")
  /\ LET t == Plain(Head(ready).task)
     IN IF t \in {ready[i] : i \in DOMAIN ready} THEN ready' = Tail(ready) /\ UNCHANGED event
        ELSE ready' = <<t>> \o Tail(ready) /\ event' = TRUE
  /\ UNCHANGED <<clock, unset, ends, hub_vars, task, others, history>>

(* A task yields a Select: the scheduler registers it with the hub.        *)
Register(t, fd, tto) == sched' = [pc |-> "put", task |-> t, fd |-> fd, tto |-> tto]
Sleeping(t) == t \in Timers /\ task[t].life = "waiting"

(* Fault: a Timer is not asked again whether it was cancelled.             *)
TimerStops_unasked(t) == task[t].cancelled /\ task[t].life = "started"

(* Timer.run stops when it is cancelled, before or after its Sleep.        *)
TimerStops(t) == task[t].cancelled

(* Timer.run up to its next yield, and Sleep.execute.  A Timer that has    *)
(* fired ends here too when it does not recur, when its callback returned  *)
(* False, or when the callback raised.                                     *)
ExecTimer(t) ==
  LET wakes == IF Sleeping(t) THEN now + Delay ELSE task[t].next
  IN /\ Executes(t)
     /\ fired' = IF Sleeping(t) /\ ~TimerStops(t) THEN [fired EXCEPT ![t] = @ + 1] ELSE fired
     /\ \/ /\ TimerStops(t) \/ Sleeping(t)
           /\ task' = [task EXCEPT ![t].life = "done"] /\ Goto("loop")
           /\ ready' = Tail(ready) /\ UNCHANGED event
        \/ /\ ~TimerStops(t) /\ (Sleeping(t) => t \in Recurring)
           /\ task' = [task EXCEPT ![t].life = "waiting", ![t].next = wakes]
           /\ IF wakes < now
              THEN Goto("loop") /\ ready' = Append(Tail(ready), Plain(t)) /\ event' = TRUE
              ELSE Register(t, FALSE, wakes) /\ ready' = Tail(ready) /\ UNCHANGED event
     /\ UNCHANGED <<clock, unset, ends, hub_vars, others, made>>

(* A task like OpenFlow_01_Task: it reads when the select says so, and     *)
(* selects again.                                                          *)
ExecReader(t) ==
  /\ Executes(t) /\ ready' = Tail(ready)
  /\ readable' = IF task[t].rv THEN readable \ {t} ELSE readable
  /\ task' = [task EXCEPT ![t].life = "waiting", ![t].rv = FALSE]
  /\ Register(t, TRUE, now + SelectTimeout)
  /\ UNCHANGED <<clock, event, unset, ends, hub_vars, blocked, calls, thread, history>>

(* The task raises in its execute: cycle catches it and drops the task.    *)
ExecRaises(t) ==
  /\ Executes(t) /\ ready' = Tail(ready) /\ Goto("loop")
  /\ task' = [task EXCEPT ![t].life = "done"]
  /\ UNCHANGED <<clock, event, unset, ends, hub_vars, others, history>>

(* BlockingTask.run: CallBlocking.execute starts a thread; then the        *)
(* callback gets what the thread returned.                                 *)
ExecBlocker(t) ==
  /\ Executes(t) /\ ready' = Tail(ready) /\ Goto("loop")
  /\ IF task[t].life = "started"
     THEN blocked' = blocked \cup {t} /\ task' = [task EXCEPT ![t].life = "waiting"]
     ELSE task' = [task EXCEPT ![t].life = "done"] /\ UNCHANGED blocked
  /\ UNCHANGED <<clock, event, unset, ends, hub_vars, readable, calls, thread, history>>

(* CallBlocking._proc                                                      *)
BlockingReturns(t) ==
  /\ t \in blocked /\ t \notin unset /\ blocked' = blocked \ {t}
  /\ task' = [task EXCEPT ![t].rv = TRUE] /\ fast_schedule(t, Plain(t))
  /\ UNCHANGED <<clock, sched, ends, hub_vars, readable, calls, thread, history>>

(* CallLaterTask.run: the first time it selects; then it empties the       *)
(* pinger before it makes the calls.                                       *)
ExecLater ==
  /\ Executes(later) /\ ready' = Tail(ready)
  /\ task' = [task EXCEPT ![later].life = "waiting"]
  /\ IF task[later].life = "started" THEN Register(later, TRUE, Never) /\ UNCHANGED readable
     ELSE Goto("calls") /\ readable' = readable \ {later}
  /\ UNCHANGED <<clock, event, unset, ends, hub_vars, blocked, calls, thread, history>>

(* One call: Timer.cancel, Scheduler.quit, or anything else.               *)
MakeCall ==
  /\ sched.pc = "calls" /\ calls # <<>>
  /\ calls' = Tail(calls) /\ made' = Append(made, Head(calls))
  /\ LET f == program.calls[Head(calls)]
     IN /\ hasQuit' = (hasQuit \/ f = quit)
        /\ task' = IF f \in Timers THEN [task EXCEPT ![f].cancelled = TRUE] ELSE task
  /\ UNCHANGED <<clock, queue, sched, allDone, hub_vars, readable, blocked, thread, fired>>
CallsDone ==
  /\ sched.pc = "calls" /\ calls = <<>> /\ Register(later, TRUE, Never)
  /\ UNCHANGED <<clock, queue, ends, hub_vars, task, others, history>>

(* Fault: the hub is woken before the task is in its queue.                *)
RegisterSelect_ping_first ==
  \/ /\ sched.pc = "put" /\ pinged' = TRUE /\ Goto("ping")
     /\ UNCHANGED <<clock, queue, ends, hub, registered, incoming, task, others, history>>
  \/ /\ sched.pc = "ping" /\ Goto("loop")
     /\ incoming' = Append(incoming, [task |-> sched.task, fd |-> sched.fd, tto |-> sched.tto])
     /\ UNCHANGED <<clock, queue, ends, hub, registered, pinged, task, others, history>>

(* SelectHub.registerSelect: the queue, then the pinger.                   *)
RegisterSelect ==
  \/ /\ sched.pc = "put" /\ Goto("ping")
     /\ incoming' = Append(incoming, [task |-> sched.task, fd |-> sched.fd, tto |-> sched.tto])
     /\ UNCHANGED <<clock, queue, ends, hub, registered, pinged, task, others, history>>
  \/ /\ sched.pc = "ping" /\ pinged' = TRUE /\ Goto("loop")
     /\ UNCHANGED <<clock, queue, ends, hub, registered, incoming, task, others, history>>

-----------------------------------------------------------------------------
(* SelectHub._threadProc.  A task that is returned leaves tasks and is     *)
(* ready again; rv says whether its socket was.                            *)
HubGoto(pc, out) == hub' = [hub EXCEPT !.pc = pc, !.out = out]
HubRuns == "hub" \notin unset

Due(t) == registered[t].tto <= now

(* Fault: a task is due one tick early.                                    *)
Expired_early == {t \in DOMAIN registered : registered[t].tto <= now + 1}

Expired == {t \in DOMAIN registered : Due(t)}

HubScan ==
  /\ hub.pc = "scan" /\ HubRuns
  /\ hub' = IF hasQuit THEN [hub EXCEPT !.pc = "ended"]
            ELSE [pc |-> IF Expired = {} THEN "select" ELSE "expire",
                  watch |-> DOMAIN registered \ Expired, out |-> Expired]
  /\ UNCHANGED <<clock, sched_vars, registered, incoming, pinged, task, others, history>>

(* Fault: the task stays among those that wait.                            *)
Deregister_kept(t) == registered' = registered

Deregister(t) == registered' = Restricted(registered, DOMAIN registered \ {t})

(* Fault: the tasks are not scanned again after a timeout.                 *)
AfterReturn_select(pc) == IF pc = "return" THEN "scan" ELSE "select"

AfterReturn(pc) == IF pc = "expire" THEN "select" ELSE "scan"

HubReturns ==
  /\ hub.pc \in {"expire", "timeout", "return"} /\ HubRuns
  /\ \E t \in hub.out :
       /\ Deregister(t) /\ task' = [task EXCEPT ![t].rv = (hub.pc = "return")]
       /\ fast_schedule("hub", Plain(t))
       /\ hub' = [hub EXCEPT !.out = @ \ {t},
                             !.pc = IF hub.out # {t} THEN @ ELSE AfterReturn(@)]
  /\ UNCHANGED <<clock, sched, ends, incoming, pinged, others, history>>

(* select() returns: something can be read, or the first timeout is over.  *)
Selected == {t \in hub.watch : registered[t].fd /\ t \in readable}
HubSelect ==
  /\ hub.pc = "select" /\ HubRuns
  /\ \/ /\ (pinged \/ Selected # {}) /\ HubGoto(IF pinged THEN "pong" ELSE "return", Selected)
     \/ /\ ~pinged /\ Selected = {}
        /\ \E t \in hub.watch : Due(t) /\ (\A u \in hub.watch : registered[t].tto <= registered[u].tto)
                                /\ HubGoto("timeout", {t})
  /\ UNCHANGED <<clock, sched_vars, registered, incoming, pinged, task, others, history>>

HubPong ==
  /\ hub.pc = "pong" /\ HubRuns /\ pinged' = FALSE /\ hub' = [hub EXCEPT !.pc = "drain"]
  /\ UNCHANGED <<clock, sched_vars, registered, incoming, task, others, history>>

(* _incoming is emptied into tasks.                                        *)
HubDrain ==
  LET new(t) == CHOOSE i \in DOMAIN incoming : incoming[i].task = t
      arrived == {incoming[i].task : i \in DOMAIN incoming}
  IN /\ hub.pc = "drain" /\ HubRuns /\ incoming' = <<>>
     /\ registered' = [t \in arrived \cup DOMAIN registered |->
                         IF t \in arrived
                         THEN [fd |-> incoming[new(t)].fd, tto |-> incoming[new(t)].tto]
                         ELSE registered[t]]
     /\ hub' = [hub EXCEPT !.pc = IF hub.out = {} THEN "scan" ELSE "return"]
     /\ UNCHANGED <<clock, sched_vars, pinged, task, others, history>>

-----------------------------------------------------------------------------
(* Scheduler.callLater by a thread; core._quit first says that POX is      *)
(* going down, and does nothing where another _quit has said so.  The      *)
(* first call starts the CallLaterTask.                                    *)
CallLater(th) ==
  /\ th \in DOMAIN program.calls /\ thread[th] = "idle"
  /\ program.calls[th] = quit => running
  /\ thread' = [thread EXCEPT ![th] = "append"]
  /\ running' = (running /\ program.calls[th] # quit)
  /\ IF task[later].life # "new" THEN UNCHANGED <<task, ready, unset, event>>
     ELSE task' = [task EXCEPT ![later].life = "started"] /\ fast_schedule(th, Wrap(later))
  /\ UNCHANGED <<program, now, sched, ends, hub_vars, readable, blocked, calls, history>>

(* core._quit where a listener of GoingDown raises: the exception ends the *)
(* thread after running is cleared and before callLater.                   *)
QuitFails(th) ==
  /\ th \in DOMAIN program.calls /\ thread[th] = "idle"
  /\ program.calls[th] = quit /\ running
  /\ running' = FALSE /\ thread' = [thread EXCEPT ![th] = "failed"]
  /\ UNCHANGED <<program, now, sched_vars, hub_vars, task, readable, blocked, calls, history>>

(* Fault: the pinger, then the queue.                                      *)
DeferCall_ping_first(th) ==
  /\ \/ /\ thread[th] = "append" /\ th \notin unset
        /\ readable' = readable \cup {later} /\ UNCHANGED calls
        /\ thread' = [thread EXCEPT ![th] = "ping"]
     \/ /\ thread[th] = "ping"
        /\ calls' = Append(calls, th) /\ UNCHANGED readable
        /\ thread' = [thread EXCEPT ![th] = "done"]
  /\ UNCHANGED <<clock, sched_vars, hub_vars, task, blocked, history>>

(* CallLaterTask.callLater: the queue, then the pinger.                    *)
DeferCall(th) ==
  /\ \/ /\ thread[th] = "append" /\ th \notin unset
        /\ calls' = Append(calls, th) /\ UNCHANGED readable
        /\ thread' = [thread EXCEPT ![th] = "ping"]
     \/ /\ thread[th] = "ping"
        /\ readable' = readable \cup {later} /\ UNCHANGED calls
        /\ thread' = [thread EXCEPT ![th] = "done"]
  /\ UNCHANGED <<clock, sched_vars, hub_vars, task, blocked, history>>

(* Data arrives, and time passes.                                          *)
Input(t) ==
  /\ t \in program.tasks \cap Readers /\ program.input > 0 /\ t \notin readable
  /\ program' = [program EXCEPT !.input = @ - 1] /\ readable' = readable \cup {t}
  /\ UNCHANGED <<now, running, sched_vars, hub_vars, task, blocked, calls, thread, history>>
Tick ==
  /\ now < program.until /\ now' = now + 1
  /\ UNCHANGED <<program, running, sched_vars, hub_vars, task, others, history>>

SchedulerThread ==
  \/ SchedLoop \/ SchedWake \/ SchedClear \/ SchedIdle \/ ExecSchedule
  \/ (\E t \in Timers : ExecTimer(t)) \/ (\E t \in Readers : ExecReader(t) \/ ExecRaises(t))
  \/ (\E t \in Blockers : ExecBlocker(t)) \/ ExecLater
  \/ MakeCall \/ CallsDone \/ RegisterSelect
HubThread == HubScan \/ HubReturns \/ HubSelect \/ HubPong \/ HubDrain
Signallers == Threads \cup Blockers \cup {"main", "hub"}

Next ==
  \/ SchedulerThread \/ SchedWakeLate \/ HubThread \/ Tick
  \/ \E t \in Tasks : Start(t) \/ Input(t) \/ BlockingReturns(t)
  \/ \E th \in Threads : CallLater(th) \/ QuitFails(th) \/ DeferCall(th)
  \/ \E th \in Signallers : SetEvent(th)

(* The threads run; a blocking function returns; the clock goes on.        *)
Fairness ==
  /\ WF_vars(SchedulerThread) /\ WF_vars(HubThread) /\ WF_vars(Tick)
  /\ \A t \in Blockers : WF_vars(BlockingReturns(t))
  /\ \A th \in Threads : WF_vars(DeferCall(th))
  /\ \A th \in Signallers : WF_vars(SetEvent(th))

Spec == Init /\ [][Next]_vars /\ Fairness

-----------------------------------------------------------------------------
(* Each variable has its type, and the hub only watches tasks it has.      *)
TypeOK ==
  /\ now \in 0..MaxTime /\ readable \subseteq {t \in Tasks : HasFd(t)}
  /\ blocked \subseteq Blockers /\ unset \subseteq Signallers
  /\ DOMAIN registered \subseteq Tasks
  /\ hub.pc \in {"expire", "select", "timeout", "return"} => hub.out \subseteq DOMAIN registered
  /\ hub.pc \in {"expire", "select"} => hub.watch \subseteq DOMAIN registered
  /\ \A t \in Tasks : task[t].life \in {"new", "started", "waiting", "done"}

(* A task is in one place at a time: ready once, running, on its way to    *)
(* the hub, waiting in it, or with a thread of its own.  The assertions of *)
(* fast_schedule and of _threadProc, which would end the hub, rest on it.  *)
Times(t) ==
  Cardinality({i \in DOMAIN ready : ready[i].task = t})
  + Cardinality({i \in DOMAIN incoming : incoming[i].task = t})
  + (IF (sched.pc = "put" /\ sched.task = t) \/ (sched.pc = "calls" /\ t = later) THEN 1 ELSE 0)
  + (IF t \in DOMAIN registered THEN 1 ELSE 0) + (IF t \in blocked THEN 1 ELSE 0)
OnePlace ==
  \A t \in Tasks :
    Times(t) = IF task[t].life \in {"new", "done"} THEN 0 ELSE 1

(* A Timer's callback comes no earlier than its time, whatever else wakes  *)
(* the hub, and never after a task has cancelled it.                       *)
TimerOnTime ==
  [][\A t \in Timers : fired'[t] # fired[t] => now >= task[t].next /\ ~task[t].cancelled]_vars

(* A call that a thread has asked for is made in the end, once: a ping is  *)
(* never lost.                                                             *)
CallsMade ==
  \A th \in Threads :
    thread[th] = "done" ~> (hasQuit \/ Cardinality({i \in DOMAIN made : made[i] = th}) = 1)

(* A Timer that is not cancelled fires, though the hub may be busy and     *)
(* though several threads put tasks into the same queue.                   *)
TimersFire ==
  \A t \in Timers :
    (task[t].life = "waiting" /\ task[t].next <= now)
      ~> (hasQuit \/ task[t].cancelled \/ task[t].life = "done" \/ task[t].next > now)

(* A task whose socket has data is run and reads it, unless it has raised. *)
InputRead ==
  \A t \in Readers :
    (t \in readable /\ task[t].life # "new")
      ~> (hasQuit \/ t \notin readable \/ task[t].life = "done")

(* Once core._quit has come past the listeners of GoingDown, both threads  *)
(* end.                                                                    *)
Quits(th) == th \in DOMAIN program.calls /\ program.calls[th] = quit
Stops ==
  \A th \in Threads :
    (Quits(th) /\ thread[th] \in {"append", "ping", "done"}) ~> (allDone /\ hub.pc = "ended")

(* Every task, in every state, has its one place.                          *)
TasksInPlace == TypeOK /\ OnePlace

(* A Timer fires, in time, and not when it is cancelled.                   *)
TimersRight == TimerOnTime /\ TimersFire

(* No wakeup is lost: calls, input and quit reach the thread that sleeps.  *)
AllWoken == CallsMade /\ InputRead /\ Stops
=============================================================================
