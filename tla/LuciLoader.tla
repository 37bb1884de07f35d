----------------------------- MODULE LuciLoader -----------------------------
(***************************************************************************)
(* The class loader of the web interface (LuCI.require in luci.js).  A     *)
(* class file is requested once; classes[name] holds the promise of it     *)
(* from then on, and the instance in the end.  A file that arrived is      *)
(* scanned for its 'require' lines; the class is instantiated when all     *)
(* classes named there are.                                                *)
(***************************************************************************)
EXTENDS Integers, Sequences, FiniteSets, SequencesExt

CONSTANTS
    Classes,    \* classes with a file of their own
    Requires    \* the 'require' lines of a class in their order

ASSUME LoaderAssumption == Requires \in [Classes -> Seq(Classes)]

VARIABLE
    classes     \* classes[name]: its state, and the chain of requires it was
                \* first requested with ("from")

ClassStates == {"absent", "requested", "waiting", "ready", "failed"}

(* Type invariant of the loader. *)
LoaderTypeOK == classes \in [Classes -> [st : ClassStates, from : SUBSET Classes]]

NoClasses == [c \in Classes |-> [st |-> "absent", from |-> {}]]

(* require(name, from) of a class that is not known yet *)
require(cl, c, from) ==
    IF cl[c].st # "absent" THEN cl
    ELSE [cl EXCEPT ![c] = [st |-> "requested", from |-> {c} \cup from]]

(* A known class that is among those waiting for this one: DependencyError *)
Circular(cl, c, d) == cl[d].st # "absent" /\ d \in cl[c].from

(* compileClass up to Promise.all: the requires are done in order up to    *)
(* the first that throws                                                   *)
Scan(cl, c) ==
    LET Step(r, d) == IF r.thrown \/ Circular(r.cl, c, d) THEN [r EXCEPT !.thrown = TRUE]
                      ELSE [r EXCEPT !.cl = require(@, d, cl[c].from)]
        end == FoldLeft(Step, [cl |-> cl, thrown |-> FALSE], Requires[c])
    IN  [end.cl EXCEPT ![c].st = IF end.thrown THEN "failed" ELSE "waiting"]

FileArrives(c) ==
    /\ classes[c].st = "requested"
    /\ classes' = Scan(classes, c)

(* The request fails, or the source cannot be evaluated.  The rejected     *)
(* promise stays in classes[name].                                         *)
FileFails(c) ==
    /\ classes[c].st = "requested"
    /\ classes' = [classes EXCEPT ![c].st = "failed"]

(* Promise.all(depends) settles *)
DependsSettle(c) ==
    LET deps == ToSet(Requires[c])
    IN  /\ classes[c].st = "waiting"
        /\ \/ /\ \A d \in deps : classes[d].st = "ready"
              /\ classes' = [classes EXCEPT ![c].st = "ready"]
           \/ /\ \E d \in deps : classes[d].st = "failed"
              /\ classes' = [classes EXCEPT ![c].st = "failed"]
=============================================================================
