------------------------------- MODULE Revent -------------------------------
(***************************************************************************)
(* pox/lib/revent/revent.py: the listeners of an event source.             *)
(*                                                                         *)
(* _eventMixin_handlers[eventType] is a Python list that a running         *)
(* raiseEvent iterates over without a copy.  addListener changes that list *)
(* in place, removeListener puts a new list in its place.  A dispatch is   *)
(* therefore a frame that holds its list and whether that is still the     *)
(* list of the source (live).                                              *)
(***************************************************************************)
EXTENDS Integers, Sequences, SequencesExt, FiniteSets

NoPriority == -1    \* None, which sorts below every integer

(* What a handler may return: the name of the value, and whether it has    *)
(* set event.halt itself.                                                  *)
Returns == [rv : {"None", "Continue", "False", "True", "Halt", "Remove", "HaltAndRemove"}, halt : BOOLEAN]

EventReturn(rv) ==
  [halt   |-> rv \in {"True", "Halt", "HaltAndRemove"},
   remove |-> rv \in {"False", "Remove", "HaltAndRemove"}]

(* An entry of the list: (priority, handler, once, eid).                   *)
Entry(l, priority, once, eid) == [handler |-> l, priority |-> priority, once |-> once, eid |-> eid]

(* Which of two entries stands first: the one of higher priority, and of   *)
(* one priority the one that came first.                                   *)
Before(x, y) == x.priority > y.priority \/ (x.priority = y.priority /\ x.eid < y.eid)
Sorted(lst) == \A j, k \in DOMAIN lst : j < k => Before(lst[j], lst[k])

(* list.sort(reverse = True, key = priority), which is stable.             *)
BySort(lst) == CHOOSE s \in [DOMAIN lst -> Range(lst)] : Sorted(s)

(* Fault: a priority is noted and the list is not sorted.                  *)
Added_unsorted(lst, e) == Append(lst, e)

(* addListener: the list with a new entry.                                 *)
Added(lst, e) == IF e.priority = NoPriority THEN Append(lst, e) ELSE BySort(Append(lst, e))

(* removeListener, given an eid, which at most one entry has.              *)
Without(lst, eid) ==
  LET places == {k \in DOMAIN lst : lst[k].eid = eid}
  IN IF places = {} THEN lst ELSE RemoveAt(lst, CHOOSE k \in places : TRUE)

(* raiseEvent begins: the dispatch of an event to the list; cur is the     *)
(* entry whose handler was called last.  safe stands for                   *)
(* raiseEventNoErrors.  start and called are history: the eids of the list *)
(* at first, and those called.                                             *)
Dispatch(event, lst, safe) ==
  [fn |-> "raise", event |-> event, lst |-> lst, live |-> TRUE, i |-> 1, cur |-> Head(lst),
   halt |-> FALSE, safe |-> safe, start |-> {e.eid : e \in Range(lst)}, called |-> {}]

Over(d) == d.i > Len(d.lst)
Invoked(d) == [d EXCEPT !.i = @ + 1, !.cur = d.lst[d.i], !.called = @ \cup {d.lst[d.i].eid}]

(* The handler called last has returned r: whether it is removed, and      *)
(* whether the loop is left.  A handler that returns None is not asked for *)
(* event.halt.                                                             *)
Removes(d, r) == d.cur.once \/ EventReturn(r.rv).remove
Halts(d, r) == r.rv # "None" /\ (EventReturn(r.rv).halt \/ d.halt \/ r.halt)

(* What addListener and removeListener do to a dispatch under way, the     *)
(* latter for the event types whose lists it replaces.                     *)
DispatchAdded(d, event, e) ==
  IF d.fn = "raise" /\ d.live /\ d.event = event THEN [d EXCEPT !.lst = Added(@, e)] ELSE d
(* Fault: removeListener deletes from the list itself.                     *)
DispatchRemoved_in_place(d, events, eid) ==
  IF d.fn = "raise" /\ d.event \in events THEN [d EXCEPT !.lst = Without(@, eid)] ELSE d
DispatchRemoved(d, events, eid) ==
  IF d.fn = "raise" /\ d.event \in events THEN [d EXCEPT !.live = FALSE] ELSE d
=============================================================================
