-------------------------------- MODULE Boot --------------------------------
(***************************************************************************)
(* The command line of POX, as pox/boot.py takes it apart: which launch    *)
(* functions are called, in which order and with which options.            *)
(*                                                                         *)
(* A word of the command line is a component with the function to launch,  *)
(* or an option of the component before it.                                *)
(***************************************************************************)
EXTENDS Integers, Sequences, SequencesExt, FiniteSets

CONSTANT
  Modules  \* name -> [launches, multi, params, required]: the functions the
           \* module has, whether they take __INSTANCE__, the parameters they
           \* have and those without a default; a name that is not in it
           \* cannot be imported

Name(n, f) == [name |-> n, fn |-> f, option |-> ""]
Option(o) == [name |-> "", fn |-> "", option |-> o]
IsName(w) == w.option = ""

(* boot(): the options before the first component are POX's own, and the   *)
(* command line goes on with "py --disable".                               *)
Leading(argv) == LET first == {i \in DOMAIN argv : IsName(argv[i])}
                 IN IF first = {} THEN Len(argv) ELSE (CHOOSE i \in first : \A j \in first : i <= j) - 1
Prepared(argv) ==
  SubSeq(argv, 1, Leading(argv)) \o <<Name("py", "launch"), Option("disable")>>
    \o SubSeq(argv, Leading(argv) + 1, Len(argv))

(* POXOptions.process_options: an option POX does not know ends it, as do  *)
(* those that only print something.                                        *)
process_options(argv) ==
  {argv[i].option : i \in 1..Leading(argv)} \subseteq
    {"verbose", "enable_openflow", "log_config", "no_openflow", "debug"}

(* The k-th of some places, in ascending order.                            *)
nth(places, k) == CHOOSE i \in places : Cardinality({j \in places : j <= i}) = k

(* _do_launch, first part: the components in order, and for every name the *)
(* options of each of its instances, those up to the next component.       *)
names_in(argv) == {i \in DOMAIN argv : IsName(argv[i])}
component_order(argv) == [n \in 1..Cardinality(names_in(argv)) |-> argv[nth(names_in(argv), n)]]
curargs(argv, i) ==
  LET later == {j \in names_in(argv) : j > i}
      end == IF later = {} THEN Len(argv) ELSE nth(later, 1) - 1
  IN {argv[k].option : k \in i + 1..end}
instances(argv, w) ==
  LET own == {i \in names_in(argv) : argv[i] = w}
  IN [k \in 1..Cardinality(own) |-> curargs(argv, nth(own, k))]

(* _do_imports: everything is imported before anything is launched.        *)
_do_imports(argv) == \A n \in DOMAIN component_order(argv) : component_order(argv)[n].name \in DOMAIN Modules

(* Fault: every instance is given the options of the first.                *)
instance_first(argv, n) ==
  LET order == component_order(argv)
      w == order[n]
  IN [word |-> w, number |-> Cardinality({k \in 1..n - 1 : order[k] = w}),
      total |-> Len(instances(argv, w)), params |-> instances(argv, w)[1]]

(* _do_launch, second part: the n-th component, its instance number, how   *)
(* many instances there are, and the options it is called with.            *)
instance(argv, n) ==
  LET order == component_order(argv)
      w == order[n]
      number == Cardinality({k \in 1..n - 1 : order[k] = w})
  IN [word |-> w, number |-> number, total |-> Len(instances(argv, w)),
      params |-> instances(argv, w)[number + 1]]

(* What becomes of an instance: its function is called, startup is         *)
(* abandoned, or there is nothing to call.                                 *)
verdict(x) ==
  LET m == Modules[x.word.name]
  IN IF x.word.fn \in m.launches
     THEN IF (~m.multi /\ x.total # 1) \/ ~(x.params \subseteq m.params) \/ ~(m.required \subseteq x.params)
          THEN "refused" ELSE "called"
     ELSE IF x.params # {} \/ x.word.fn # "launch" THEN "refused" ELSE "skipped"
=============================================================================
