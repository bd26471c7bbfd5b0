------------------------------ MODULE MCRecoco ------------------------------
(* Programs for the model checker: calls from two threads, one of which     *)
(* cancels a timer; a timer and a socket; a blocking function; and in each  *)
(* a thread that stops POX.                                                 *)
EXTENDS Recoco

program_of(ts, cs, n, time) == [tasks |-> ts, calls |-> cs, input |-> n, until |-> time]

MCPrograms ==
  { program_of({"timer"}, [a |-> "timer"], 0, 1),
    program_of({}, [a |-> "any", b |-> "any"], 0, 0),
    program_of({"once"}, [c |-> quit], 0, 2),
    program_of({"reader"}, [c |-> quit], 1, 0),
    program_of({"timer", "reader"}, <<>>, 1, 1),
    program_of({"blocker"}, [c |-> quit], 0, 0) }
=============================================================================
