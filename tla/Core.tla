-------------------------------- MODULE Core --------------------------------
(***************************************************************************)
(* pox/core.py and pox/boot.py: how POX starts its components, lets them   *)
(* wait for one another, tells them of its life with events, and stops.    *)
(*                                                                         *)
(* Code of the applications (launch functions, event handlers, callbacks,  *)
(* tasks of the scheduler) is free: it may use core in any way the program *)
(* allows, then return any value or raise an exception.  Calls nest, so    *)
(* every thread has a stack of frames.                                     *)
(***************************************************************************)
EXTENDS Revent, Boot

CONSTANTS
  Programs,   \* what may happen in one behaviour: [argv, ops, returns, throws,
              \* interrupt], the command line, the calls the applications may
              \* make, what their handlers may return, whether they may raise
              \* exceptions, and whether the user may interrupt POX
  Waiters,    \* waiter -> the components it waits for
  Sinks,      \* the waiters of listen_to_dependencies -> the listeners that
              \* are handlers of the sink, in the order of their names
  Listeners   \* listener -> [event, priority, once]

Events == {"ComponentRegistered", "GoingUp", "Up", "GoingDown", "Down"}
Ops == UNION {p.ops : p \in Programs}   \* [op, arg, on]; on is the thread
Quitters == {o.arg : o \in {q \in Ops : q.op = "quit"}} \* a thread for each quit
Threads == {"main", "sched"} \cup Quitters

(* A waiter stands for one call of call_when_ready, a listener of a sink   *)
(* for one of its methods.  One thread of a program at most uses the       *)
(* registry: _try_waiter tests and takes an entry in two steps, and raises *)
(* an exception when another thread is faster.                             *)
Enters(o) == o.op \in {"call_when_ready", "listen_to_dependencies"}
ASSUME ListenersAssumption ==
  \A l \in DOMAIN Listeners : /\ Listeners[l].event \in Events /\ Listeners[l].once \in BOOLEAN
                             /\ Listeners[l].priority \in Nat \cup {NoPriority}
ASSUME SinksAssumption ==
  /\ DOMAIN Sinks \subseteq DOMAIN Waiters
  /\ \A w \in DOMAIN Sinks : Sinks[w] \in Seq(DOMAIN Listeners)
  /\ \A v, w \in DOMAIN Sinks : v # w => Range(Sinks[v]) \cap Range(Sinks[w]) = {}
ASSUME OpsAssumption ==
  \A p \in Programs :
    /\ \A o \in p.ops :
         /\ o.on \in {"main", "sched"}
         /\ Enters(o) => o.arg \in DOMAIN Waiters
         /\ o.op \in {"addListener", "removeListener"} => o.arg \in DOMAIN Listeners
         /\ o.op = "addListener" => \A w \in DOMAIN Sinks : o.arg \notin Range(Sinks[w])
         /\ o.op = "quit" => o.arg \notin {"main", "sched"}
    /\ \A o, q \in p.ops : Enters(o) /\ Enters(q) /\ o.arg = q.arg => o = q
    /\ \A o, q \in p.ops : (Enters(o) \/ o.op = "register") /\ (Enters(q) \/ q.op = "register") => o.on = q.on

(* A command line is a list of words; boot adds two of its own.            *)
Word == {Name("py", "launch"), Option("disable")} \cup (UNION {Range(p.argv) : p \in Programs})
ASSUME ArgvAssumption == \A p \in Programs : p.argv \in Seq(Word)
ASSUME ReturnsAssumption == \A p \in Programs : p.returns \subseteq Returns

VARIABLES
  program, left,               \* left: the calls still to be made
  boot, at,                    \* where boot() is, and in which instance
  stack,                       \* thread -> its frames
  components, waiters,        \* POXCore.components, _waiters
  handlers, next_eid,          \* _eventMixin_handlers, _nextEventID
  starting_up, running,
  sched,                       \* the scheduler: "runs", "told" to quit, "quit"
  launched, log, served, asked, skipped \* history: the instances launched, the
                               \* events raised, waiter -> times called, whether
                               \* quit was called, whether a dispatch that ran to
                               \* its end left out a listener

registry == <<components, waiters>>
revent == <<handlers, next_eid>>
state == <<starting_up, running, sched>>
history == <<launched, log, served, asked, skipped>>
vars == <<program, left, boot, at, stack, registry, revent, state, history>>

CodeFrame(kind) == [fn |-> "code", kind |-> kind]
Frame(fn, pc) == [fn |-> fn, pc |-> pc]
Alive == boot # "exited"
Top(th) == Last(stack[th])
Busy(th) == Alive /\ stack[th] # <<>>
Running(th, fn) == Busy(th) /\ Top(th).fn = fn
At(th, fn, pc) == Running(th, fn) /\ Top(th).pc = pc
SetStack(th, s) == stack' = [stack EXCEPT ![th] = s]
Goto(th, pc) == Append(Front(stack[th]), [Top(th) EXCEPT !.pc = pc])

Init ==
  /\ program \in Programs /\ left = program.ops
  /\ boot = "launch" /\ at = 0
  /\ stack = [th \in Threads |-> <<>>]
  /\ components = {"core"} /\ waiters = <<>>
  /\ handlers = [e \in Events |-> <<>>] /\ next_eid = 1
  /\ starting_up = TRUE /\ running = TRUE /\ sched = "runs"
  /\ launched = <<>> /\ log = <<>> /\ served = [w \in DOMAIN Waiters |-> 0]
  /\ asked = FALSE /\ skipped = FALSE

-----------------------------------------------------------------------------
(* raiseEvent and raiseEventNoErrors: the frame on top of the stack s, if  *)
(* the event has a listener.                                               *)
Raised(s, event, safe) ==
  IF handlers[event] = <<>> THEN s ELSE Append(s, Dispatch(event, handlers[event], safe))

(* One turn of raiseEvent's loop: call the next handler, or end.           *)
Invoke(th) ==
  /\ Running(th, "raise") /\ ~Over(Top(th))
  /\ SetStack(th, Append(Front(stack[th]), Invoked(Top(th))) \o <<CodeFrame("handler")>>)
  /\ UNCHANGED <<program, left, boot, at, registry, revent, state, history>>
Delivered(th) ==
  /\ Running(th, "raise") /\ Over(Top(th))
  /\ SetStack(th, Front(stack[th]))
  /\ skipped' = (skipped \/ ~(Top(th).start \subseteq Top(th).called))
  /\ UNCHANGED <<program, left, boot, at, registry, revent, state, launched, log, served, asked>>

(* removeListener by the eid: every list of the source is replaced.        *)
Unlisten(stk, events, eid) ==
  /\ handlers' = [e \in Events |-> IF e \in events THEN Without(handlers[e], eid) ELSE handlers[e]]
  /\ stack' = [th \in Threads |-> [k \in DOMAIN stk[th] |-> DispatchRemoved(stk[th][k], events, eid)]]

(* A handler returns, and raiseEvent looks at what.                        *)
HandlerReturns(th, r) ==
  /\ Running(th, "code") /\ Top(th).kind = "handler"
  /\ LET s == Front(stack[th])
         d == Last(s)
         s2 == IF Halts(d, r) THEN Front(s) ELSE Append(Front(s), [d EXCEPT !.halt = @ \/ r.halt])
         stk == [stack EXCEPT ![th] = s2]
     IN IF Removes(d, r) THEN Unlisten(stk, Events, d.cur.eid) ELSE stack' = stk /\ UNCHANGED handlers
  /\ UNCHANGED <<program, left, boot, at, registry, next_eid, state, history>>

-----------------------------------------------------------------------------
(* The calls of application code.                                          *)
MayCall(th, o) ==
  /\ Running(th, "code") /\ o \in left /\ o.on = th
  /\ left' = left \ {o}

(* Fault: the counter of listeners is not advanced.                        *)
_generateEventID_same == UNCHANGED next_eid
_generateEventID == next_eid' = next_eid + 1

Listen(stk, l) ==
  LET e == Entry(l, Listeners[l].priority, Listeners[l].once, next_eid)
      event == Listeners[l].event
  IN /\ handlers' = [handlers EXCEPT ![event] = Added(@, e)]
     /\ stack' = [t \in Threads |-> [k \in DOMAIN stk[t] |-> DispatchAdded(stk[t][k], event, e)]]
     /\ _generateEventID

addListener(th, o) ==
  /\ MayCall(th, o) /\ o.op = "addListener" /\ Listen(stack, o.arg)
  /\ UNCHANGED <<program, boot, at, registry, state, history>>

(* removeListener, given what addListener returned, of a listener that is  *)
(* there.                                                                  *)
removeListener(th, o) ==
  /\ MayCall(th, o) /\ o.op = "removeListener"
  /\ LET event == Listeners[o.arg].event
     IN \E k \in DOMAIN handlers[event] :
          /\ handlers[event][k].handler = o.arg
          /\ Unlisten(stack, {event}, handlers[event][k].eid)
  /\ UNCHANGED <<program, boot, at, registry, next_eid, state, history>>

(* register: the component, the event, then the waiters.                   *)
register(th, o) ==
  /\ MayCall(th, o) /\ o.op = "register"
  /\ components' = components \cup {o.arg}
  /\ log' = IF handlers["ComponentRegistered"] = <<>> THEN log ELSE Append(log, "ComponentRegistered")
  /\ SetStack(th, Raised(Append(stack[th], [fn |-> "_try_waiters", todo |-> <<>>, changed |-> TRUE]),
                         "ComponentRegistered", TRUE))
  /\ UNCHANGED <<program, boot, at, waiters, revent, state, launched, served, asked, skipped>>

Ready(w) == Waiters[w] \subseteq components

(* Fault: an entry is called while it is still in the list.                *)
_try_waiter_late(w, s, list) ==
  /\ waiters' = list
  /\ served' = [served EXCEPT ![w] = @ + 1]
  /\ stack' = s

(* list.remove: the first entry that is w.                                 *)
Taken(list, w) ==
  RemoveAt(list, CHOOSE k \in DOMAIN list : list[k] = w /\ \A j \in 1..k - 1 : list[j] # w)

(* _try_waiter of an entry all of whose components are there: it is taken  *)
(* from the list, and its callback runs on the stack s.                    *)
_try_waiter(w, s, list) ==
  /\ waiters' = Taken(list, w)
  /\ served' = [served EXCEPT ![w] = @ + 1]
  /\ stack' = s

(* The callback of a waiter: code of an application, or for a sink done(), *)
(* which binds its handlers (autoBindEvents) before the sink's own code.   *)
Callback(w) == IF w \in DOMAIN Sinks THEN [fn |-> "done", todo |-> Sinks[w]] ELSE CodeFrame("callback")
Bind(th) ==
  /\ Running(th, "done")
  /\ IF Top(th).todo = <<>>
     THEN SetStack(th, Append(Front(stack[th]), CodeFrame("callback"))) /\ UNCHANGED revent
     ELSE Listen([stack EXCEPT ![th] = Append(Front(@), [Top(th) EXCEPT !.todo = Tail(@)])], Head(Top(th).todo))
  /\ UNCHANGED <<program, left, boot, at, registry, state, history>>

(* call_when_ready.  listen_to_dependencies finds the components from the  *)
(* names of the sink's handlers and does the same.                         *)
Awaits(o) == o.op = "call_when_ready" /\ o.arg \notin DOMAIN Sinks
listen_to_dependencies(o) == o.op = "listen_to_dependencies" /\ o.arg \in DOMAIN Sinks
call_when_ready(th, o) ==
  /\ MayCall(th, o) /\ (Awaits(o) \/ listen_to_dependencies(o))
  /\ LET list == Append(waiters, o.arg)
     IN IF Ready(o.arg)
        THEN _try_waiter(o.arg, [stack EXCEPT ![th] = Append(@, Callback(o.arg))], list)
        ELSE waiters' = list /\ UNCHANGED <<stack, served>>
  /\ UNCHANGED <<program, boot, at, components, revent, state, launched, log, asked, skipped>>

(* _try_waiters: passes over a copy of the list, until one changes nothing.*)
WaitersPass(th) ==
  /\ Running(th, "_try_waiters") /\ Top(th).todo = <<>>
  /\ SetStack(th, IF Top(th).changed
                  THEN Append(Front(stack[th]), [Top(th) EXCEPT !.todo = waiters, !.changed = FALSE])
                  ELSE Front(stack[th]))
  /\ UNCHANGED <<program, left, boot, at, registry, revent, state, history>>

(* Fault: the pass ends at the first entry that still waits.               *)
Rest_first_only(f) == IF Ready(Head(f.todo)) THEN Tail(f.todo) ELSE <<>>
(* The entries of the pass that come after the first.                      *)
Rest(f) == Tail(f.todo)

WaitersNext(th) ==
  /\ Running(th, "_try_waiters") /\ Top(th).todo # <<>>
  /\ LET f == Top(th)
         w == Head(f.todo)
         s == Append(Front(stack[th]), [f EXCEPT !.todo = Rest(f)])
         s2 == Append(Front(stack[th]), [f EXCEPT !.todo = Rest(f), !.changed = TRUE])
     IN IF Contains(waiters, w) /\ Ready(w)
        THEN _try_waiter(w, [stack EXCEPT ![th] = Append(s2, Callback(w))], waiters)
        ELSE SetStack(th, s) /\ UNCHANGED <<waiters, served>>
  /\ UNCHANGED <<program, left, boot, at, components, revent, state, launched, log, asked, skipped>>

(* quit: on its own thread when POX is starting or on the scheduler's      *)
(* thread, else in place.                                                  *)
quit(th, o) ==
  /\ MayCall(th, o) /\ o.op = "quit"
  /\ LET t == IF starting_up \/ th = "sched" THEN o.arg ELSE th
     IN SetStack(t, Append(stack[t], Frame("_quit", "check")))
  /\ asked' = TRUE
  /\ UNCHANGED <<program, boot, at, registry, revent, state, launched, log, served, skipped>>

(* A callback, a task or a launch function returns.  A launch function     *)
(* that returns False, or any exception it raises, ends POX.               *)
CodeReturns(th, rv) ==
  /\ Running(th, "code") /\ Top(th).kind # "handler"
  /\ rv \in {"None", "False"} /\ (rv = "False" => Top(th).kind = "launch")
  /\ SetStack(th, Front(stack[th]))
  /\ boot' = IF rv = "False" THEN "exited" ELSE boot
  /\ UNCHANGED <<program, left, at, registry, revent, state, history>>

(* An exception leaves a handler: raiseEventNoErrors catches it, raiseEvent*)
(* does not, and with it goUp or _quit is left.                            *)
AfterException(s) ==
  LET under == Front(s)
      out == Front(under)
  IN IF under = <<>> \/ Last(under).fn # "raise" THEN under
     ELSE IF Last(under).safe \/ out = <<>> THEN out
     ELSE IF Last(out).fn \in {"goUp", "_quit"} THEN Front(out) ELSE out

Throws(th) ==
  /\ program.throws /\ Running(th, "code")
  /\ LET s == AfterException(stack[th])
     IN /\ SetStack(th, s)
        /\ boot' = IF th = "main" /\ s = <<>> THEN "exited" ELSE boot
  /\ UNCHANGED <<program, left, at, registry, revent, state, history>>

-----------------------------------------------------------------------------
(* boot: the main thread.                                                  *)
Argv == [p \in Programs |-> Prepared(p.argv)]
argv_ == Argv[program]
order_ == component_order(argv_)

LaunchNext ==
  /\ boot = "launch" /\ stack["main"] = <<>> /\ at < Len(order_)
  /\ at' = at + 1
  /\ LET x == instance(argv_, at + 1)
         v == IF at = 0 /\ ~(process_options(argv_) /\ _do_imports(argv_)) THEN "refused" ELSE verdict(x)
     IN /\ boot' = IF v = "refused" THEN "exited" ELSE boot
        /\ launched' = IF v = "called" THEN Append(launched, x) ELSE launched
        /\ IF v = "called" THEN SetStack("main", <<CodeFrame("launch")>>) ELSE UNCHANGED stack
  /\ UNCHANGED <<program, left, registry, revent, state, log, served, asked, skipped>>

GoUp ==
  /\ boot = "launch" /\ stack["main"] = <<>> /\ at = Len(order_)
  /\ boot' = "up" /\ SetStack("main", <<Frame("goUp", "start")>>)
  /\ UNCHANGED <<program, left, at, registry, revent, state, history>>

(* goUp                                                                    *)
goUpStart ==
  /\ At("main", "goUp", "start") /\ starting_up' = FALSE
  /\ SetStack("main", Goto("main", "goingup"))
  /\ UNCHANGED <<program, left, boot, at, registry, revent, running, sched, history>>
goUpRaise(pc, event, next) ==
  /\ At("main", "goUp", pc) /\ log' = Append(log, event)
  /\ SetStack("main", Raised(Goto("main", next), event, FALSE))
  /\ UNCHANGED <<program, left, boot, at, registry, revent, state, launched, served, asked, skipped>>
goUpEnd ==
  /\ At("main", "goUp", "notify") /\ SetStack("main", Front(stack["main"]))
  /\ boot' = "wait"
  /\ UNCHANGED <<program, left, at, registry, revent, state, history>>

(* The loop over quit_condition.wait, which the interrupt of the user may  *)
(* end, and the quit that follows it.                                      *)
MainQuits ==
  /\ boot = "wait" /\ stack["main"] = <<>> /\ (~running \/ program.interrupt)
  /\ boot' = "end" /\ SetStack("main", <<Frame("_quit", "check")>>)
  /\ asked' = TRUE
  /\ UNCHANGED <<program, left, at, registry, revent, state, launched, log, served, skipped>>
MainExits ==
  /\ boot = "end" /\ stack["main"] = <<>> /\ boot' = "exited"
  /\ UNCHANGED <<program, left, at, stack, registry, revent, state, history>>

-----------------------------------------------------------------------------
(* Fault: quit does not wait for startup to end.                           *)
MayStop_early == running
(* _quit goes on when POX is neither stopped nor starting; while it is     *)
(* starting, quit is called again, on a new thread.                        *)
MayStop == running /\ ~starting_up

QuitReturns(th) ==
  /\ At(th, "_quit", "check") /\ ~running
  /\ SetStack(th, Front(stack[th]))
  /\ UNCHANGED <<program, left, boot, at, registry, revent, state, history>>
QuitGoes(th) ==
  /\ At(th, "_quit", "check") /\ MayStop
  /\ SetStack(th, Goto(th, "stop"))
  /\ UNCHANGED <<program, left, boot, at, registry, revent, state, history>>

(* Fault: the event comes first, and running is cleared when it has been   *)
(* handled.                                                                *)
QuitStops_after(th) ==
  /\ At(th, "_quit", "stop") /\ log' = Append(log, "GoingDown")
  /\ SetStack(th, Raised(Goto(th, "defer"), "GoingDown", FALSE))
  /\ UNCHANGED <<program, left, boot, at, registry, revent, state, launched, served, asked, skipped>>

(* running is cleared and GoingDownEvent raised.                           *)
QuitStops(th) ==
  /\ At(th, "_quit", "stop") /\ running' = FALSE
  /\ log' = Append(log, "GoingDown")
  /\ SetStack(th, Raised(Goto(th, "defer"), "GoingDown", FALSE))
  /\ UNCHANGED <<program, left, boot, at, registry, revent, starting_up, sched, launched, served, asked, skipped>>

(* The scheduler is told to quit, and waited for: not for ever.            *)
QuitDefers(th) ==
  /\ At(th, "_quit", "defer")
  /\ sched' = IF sched = "runs" THEN "told" ELSE sched
  /\ SetStack(th, Goto(th, "wait"))
  /\ UNCHANGED <<program, left, boot, at, registry, revent, starting_up, running, history>>
QuitDown(th) ==
  /\ At(th, "_quit", "wait") /\ log' = Append(log, "Down")
  /\ SetStack(th, Raised(Goto(th, "notify"), "Down", FALSE))
  /\ UNCHANGED <<program, left, boot, at, registry, revent, state, launched, served, asked, skipped>>
QuitEnds(th) ==
  /\ At(th, "_quit", "notify") /\ SetStack(th, Front(stack[th]))
  /\ UNCHANGED <<program, left, boot, at, registry, revent, state, history>>

(* The scheduler's thread runs a task of an application, or quits.         *)
SchedRuns ==
  /\ Alive /\ sched # "quit" /\ stack["sched"] = <<>> /\ \E o \in left : o.on = "sched"
  /\ SetStack("sched", <<CodeFrame("task")>>)
  /\ UNCHANGED <<program, left, boot, at, registry, revent, state, history>>
SchedQuits ==
  /\ Alive /\ sched = "told" /\ stack["sched"] = <<>> /\ sched' = "quit"
  /\ UNCHANGED <<program, left, boot, at, stack, registry, revent, starting_up, running, history>>

-----------------------------------------------------------------------------
Main ==
  \/ LaunchNext \/ GoUp \/ goUpStart \/ goUpEnd \/ MainQuits \/ MainExits
  \/ goUpRaise("goingup", "GoingUp", "up") \/ goUpRaise("up", "Up", "notify")
Quit(th) ==
  \/ QuitReturns(th) \/ QuitGoes(th) \/ QuitStops(th) \/ QuitDefers(th) \/ QuitDown(th) \/ QuitEnds(th)
Calls(th) ==
  \E o \in left : addListener(th, o) \/ removeListener(th, o) \/ register(th, o)
                 \/ call_when_ready(th, o) \/ quit(th, o)
Thread(th) ==
  \/ Invoke(th) \/ Delivered(th) \/ WaitersPass(th) \/ WaitersNext(th) \/ Quit(th)
  \/ Bind(th) \/ Calls(th) \/ Throws(th)
  \/ \E r \in program.returns : HandlerReturns(th, r)
  \/ \E rv \in {"None", "False"} : CodeReturns(th, rv)
Next == Main \/ SchedRuns \/ SchedQuits \/ \E th \in Threads : Thread(th)

(* Every thread goes on while it can: the operating system runs it, and    *)
(* the code of the applications ends.                                      *)
Fairness == WF_vars(Main) /\ WF_vars(SchedQuits) /\ \A th \in Threads : WF_vars(Thread(th))
Spec == Init /\ [][Next]_vars /\ Fairness
-----------------------------------------------------------------------------
(* Each variable has its type, and event ids are given out once.           *)
TypeOK ==
  /\ left \subseteq program.ops /\ boot \in {"launch", "up", "wait", "end", "exited"}
  /\ at \in 0..Len(order_) /\ starting_up \in BOOLEAN /\ running \in BOOLEAN
  /\ sched \in {"runs", "told", "quit"}
  /\ Range(waiters) \subseteq DOMAIN Waiters
  /\ \A th \in Threads : stack[th] = <<>> \/ stack[th][1].fn \in {"code", "goUp", "_quit"}
  /\ \A e \in Events : \A k \in DOMAIN handlers[e] : handlers[e][k].eid \in 1..next_eid - 1

(* A waiter is called back once, however calls nest: _try_waiter takes it  *)
(* from the list before the callback, which may itself register components *)
(* and so try the waiters again.  It is called, and the handlers of a sink *)
(* are bound, only when all it waits for is there.                         *)
ServedOnce ==
  /\ \A w \in DOMAIN Waiters : served[w] <= 1 /\ (served[w] = 1 => Ready(w) /\ ~Contains(waiters, w))
  /\ \A w \in DOMAIN Sinks, e \in Events : \A k \in DOMAIN handlers[e] :
       Contains(Sinks[w], handlers[e][k].handler) => served[w] = 1

(* Once every register has returned, nobody waits for components that are  *)
(* all there, whatever handlers and callbacks did or raised meanwhile.     *)
NothingReadyWaits ==
  (\A th \in Threads : \A k \in DOMAIN stack[th] : stack[th][k].fn # "_try_waiters")
    => \A k \in DOMAIN waiters : ~Ready(waiters[k])

(* A dispatch that is not cut short passes over none of the listeners that *)
(* the event had when it was raised, although listeners come and go while  *)
(* it runs.  It may call one of them twice: see CalledOnce.                *)
NoneSkipped == ~skipped

(* "Create a copy so that it can be modified freely during event           *)
(* processing": a listener that is added meanwhile changes nothing for the *)
(* others, and no dispatch comes to a listener it has called.              *)
CalledOnce ==
  \A th \in Threads :
    Running(th, "raise") /\ ~Over(Top(th)) => Top(th).lst[Top(th).i].eid \notin Top(th).called

(* Listeners are kept by priority, equals in the order they came.          *)
InPriorityOrder == \A e \in Events : Sorted(handlers[e])

(* Nothing is told that POX goes down before every launch function has     *)
(* been called, even when one of them, or a task, calls quit.              *)
StartedBeforeStopped == Contains(log, "GoingDown") => at = Len(order_) /\ boot # "launch"

(* Every launch function is called with the options that follow its own    *)
(* place in the command line, and instances are numbered as they come.     *)
LaunchedAsAsked ==
  \A n \in DOMAIN launched :
    LET x == launched[n]
        places == {i \in DOMAIN argv_ : argv_[i] = x.word}
        own == CHOOSE i \in places : Cardinality({j \in places : j < i}) = x.number
    IN /\ x.total = Cardinality(places)
       /\ x.number = Cardinality({m \in 1..n - 1 : launched[m].word = x.word})
       /\ x.params = {argv_[i].option : i \in {j \in own + 1..Len(argv_) :
                                                 \A k \in own + 1..j : ~IsName(argv_[k])}}

(* "Fired when system is up": UpEvent is raised while POX runs, also when  *)
(* a quit comes while it goes up.                                          *)
RunningWhenUp == [][log' # log /\ Last(log') = "Up" => running]_vars

(* "Fired when system is down": boot returns, after a quit, when DownEvent *)
(* has been raised, also when a listener of GoingDownEvent raises an       *)
(* exception, or the main thread's wait is over while another one quits.   *)
DownBeforeExit ==
  [][boot = "end" /\ boot' = "exited" /\ Contains(log, "GoingDown") => Contains(log, "Down")]_vars

(* A quit ends POX, also when it is asked for while POX is starting, from  *)
(* several threads, or when a listener of the events it raises fails.      *)
QuitEndsPox == asked ~> ~Alive

(* Waiting for components: nobody is forgotten and nobody called twice.    *)
WaitersServed == TypeOK /\ ServedOnce /\ NothingReadyWaits

(* Dispatch: no listener is passed over, and they are kept by priority.    *)
ListenersCalled == NoneSkipped /\ InPriorityOrder

(* Start: as the command line asks, and before any stop.                   *)
StartsAsAsked == LaunchedAsAsked /\ StartedBeforeStopped
=============================================================================
