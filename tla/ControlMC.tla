------------------------------- MODULE ControlMC -------------------------------
(***************************************************************************)
(* Small instances of components that share no state, checked in one run:  *)
(* the first state chooses which of them moves, so the state graph is the  *)
(* sum of theirs.  One of them is the execution of a task whose delivery   *)
(* missed its heartbeat and goes on beside its successor; its own runs     *)
(* have the deliveries that never overlap.                                 *)
(***************************************************************************)
EXTENDS ControlPlane, TaskExecution, TLC

CONSTANTS a, b, c, x, y, px, ext, k1, o1, o2, i1, p1, p2, A, B, s1, s2, b1, r1, t1, t2, t3, h1, h2, d1, d2

VARIABLE focus

(* CURRENT catalogs: the first is complete; the others lose or gain        *)
(* services, operations and relations, one is not covered by manifests.    *)
Rel(f, t) == [from |-> f, to |-> t]
Cat(ss, ops, rels, all) == [services |-> ss, ops |-> ops, rels |-> rels, whole |-> all]
MCCatalogs == {Cat({a, b, c}, {<<a, x>>}, {Rel(a, b)}, TRUE),
               Cat({a, b}, {<<a, x>>, <<b, y>>}, {Rel(b, a)}, TRUE),
               Cat({a, b}, {}, {Rel(a, b), Rel(b, ext)}, TRUE),
               Cat({a, b, c}, {<<a, x>>}, {Rel(a, b), Rel(c, b)}, FALSE),
               Cat({a, b, c}, {<<a, x>>}, {Rel(a, b), Rel(c, b)}, TRUE)}

Ch(kind, action, ss, ops, open) ==
  [kind |-> kind, action |-> action, services |-> ss, ops |-> ops, open |-> open]
MCAsks == {{Ch("operation", "remove", {a}, {x}, FALSE)},
           {Ch("dependency", "add", {a}, {}, FALSE)},
           {Ch("service", "remove", {c}, {}, TRUE), Ch("operation", "remove", {a}, {x}, FALSE)},
           {Ch("service", "add", {px}, {}, FALSE)},
           {Ch("service", "remove", {b, c}, {}, FALSE)},
           {Ch("contract", "remove", {a}, {}, FALSE)}}

FocusInit ==
  /\ TargetInit /\ RegistryInit /\ TalkInit /\ LinkInit /\ Init
  /\ focus \in {"target", "registry", "talk", "link", "execution"}
  /\ focus # "target" => current = CHOOSE cat \in Catalogs : TRUE
  /\ \A p \in Projects : checkout[p] = A   \* one edit makes them differ

FocusNext ==
  /\ UNCHANGED focus
  /\ \/ focus = "target" /\ TargetNext /\ UNCHANGED <<registryVars, talkVars, linkVars, vars>>
     \/ focus = "registry" /\ RegistryNext /\ UNCHANGED <<targetVars, talkVars, linkVars, vars>>
     \/ focus = "talk" /\ TalkNext /\ UNCHANGED <<targetVars, registryVars, linkVars, vars>>
     \/ focus = "link" /\ LinkNext /\ UNCHANGED <<targetVars, registryVars, talkVars, vars>>
     \/ focus = "execution" /\ OverlapNext /\ UNCHANGED <<targetVars, registryVars, talkVars, linkVars>>

FocusSpec == FocusInit /\ [][FocusNext]_<<focus, targetVars, registryVars, talkVars, linkVars, vars>>

(* Bound: at most two scans, rebuilds and readers are under way at once.   *)
TwoAtOnce ==
  LET busy(table) == {n \in DOMAIN table : table[n].pc # "idle"} IN
    focus = "registry" => Cardinality(busy(scan)) + Cardinality(busy(build)) + Cardinality(busy(reader)) <= 2

Alike == Permutations(Projects) \cup Permutations(Scanners) \cup Permutations({d1, d2})
=============================================================================
