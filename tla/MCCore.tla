------------------------------- MODULE MCCore -------------------------------
(* Instances of Core for TLC.                                              *)
EXTENDS Core

MCModules == [n \in {"py", "of", "app"} |->
  [launches |-> IF n = "of" THEN {} ELSE {"launch", "other"}, multi |-> n = "app",
   params |-> IF n = "py" THEN {"disable"} ELSE {"x", "y"}, required |-> {}]]

MCWaiters == [w \in {"w1", "w2", "w3", "sink"} |->
  CASE w = "w1" -> {"a"} [] w = "w2" -> {"a", "b"} [] w = "w3" -> {"b"} [] w = "sink" -> {"a", "core"}]
MCSinks == [w \in {"sink"} |-> <<"s1", "s2">>]
MCListeners == [l \in {"l1", "l2", "l3", "s1", "s2", "up", "down"} |->
  [event |-> CASE l \in {"up", "s2"} -> "GoingUp" [] l = "down" -> "GoingDown" [] OTHER -> "ComponentRegistered",
   priority |-> CASE l = "l2" -> 1 [] l = "l3" -> 0 [] OTHER -> NoPriority,
   once |-> l = "l1"]]

Op(op, arg, on) == [op |-> op, arg |-> arg, on |-> on]
Plainly == {[rv |-> "None", halt |-> FALSE]}
Program(argv, ops, returns, throws, interrupt) ==
  [argv |-> argv, ops |-> ops, returns |-> returns, throws |-> throws, interrupt |-> interrupt]

App == <<Name("app", "launch")>>
Main_(op, arg) == Op(op, arg, "main")

(* Command lines: options, several instances, a component that cannot be   *)
(* imported, one that has no launch function, one that is named twice.     *)
CommandLines ==
  {<<Option("verbose"), Name("app", "launch"), Option("x"), Name("of", "launch"), Name("app", "other"),
     Name("app", "launch"), Option("y")>>,
   <<Option("nonsense"), Name("app", "launch")>>,
   <<Name("app", "launch"), Name("gone", "launch")>>,
   <<Name("app", "launch"), Option("z")>>,
   <<Name("py", "launch"), Name("app", "launch")>>,
   <<Name("app", "launch"), Name("of", "other")>>}

MCPrograms ==
  {Program(argv, {}, Plainly, FALSE, FALSE) : argv \in CommandLines}
  \cup
  {\* components that wait for one another
   Program(App, {Main_("register", "a"), Main_("register", "b"), Main_("call_when_ready", "w1"),
                 Main_("call_when_ready", "w2"), Main_("call_when_ready", "w3"),
                 Main_("addListener", "l1")}, Plainly, TRUE, FALSE),
   \* a sink
   Program(App, {Main_("register", "a"), Main_("register", "b"), Main_("listen_to_dependencies", "sink"),
                 Main_("addListener", "l2"), Main_("addListener", "up")}, Plainly, TRUE, FALSE),
   \* listeners that come and go while an event is dispatched
   Program(App, {Main_("register", "a"), Main_("addListener", "l1"), Main_("addListener", "l2"),
                 Main_("addListener", "l3"), Main_("removeListener", "l3")}, Returns, TRUE, FALSE),
   \* quit from two threads, and the user's interrupt
   Program(App, {Main_("quit", "first"), Op("quit", "second", "sched"), Main_("addListener", "up"),
                 Main_("addListener", "down")}, Plainly, TRUE, TRUE),
   \* tasks of the scheduler that use core while POX starts and stops
   Program(App, {Op("register", "a", "sched"), Op("call_when_ready", "w1", "sched"),
                 Op("quit", "second", "sched"), Main_("addListener", "l1"),
                 Main_("addListener", "down")}, Plainly, TRUE, FALSE)}
=============================================================================
