----------------------------- MODULE TargetPolicy -----------------------------
(***************************************************************************)
(* What a TARGET proposal may say of the CURRENT catalog, what it touches, *)
(* and how it is compared with a later catalog: the pure policy of         *)
(* internal/domain/architecture_target.go and usecase/architecturetarget.  *)
(* A catalog is [services, ops, rels, whole]: operations are pairs         *)
(* <<service, operation>>, relations [from, to] with a service or an       *)
(* unresolved external target, whole says that every service is covered by *)
(* a current manifest.  Its fingerprint is the record itself.  A change is *)
(* [kind, action, services, ops, open]: it has the scope of an operation   *)
(* when it names operations, and open says that it leaves areas unresolved.*)
(* Texts, evidence and their bounds are left out.                          *)
(***************************************************************************)
EXTENDS Naturals, FiniteSets

CONSTANTS
  Services,   \* ids of services a catalog may hold
  Proposed,   \* ids with the prefix "proposed:"
  External    \* the unresolved target of a relation

Actions == {"add", "change", "remove"}

KindActions == [service |-> Actions, dependency |-> Actions, operation |-> Actions,
                contract |-> {"add", "change"}, event |-> {"add", "change"},
                responsibility |-> {"add", "change"}, process |-> {"add", "change"}]

KindScopes == [service |-> {"service"}, dependency |-> {"service"}, responsibility |-> {"service"},
               operation |-> {"operation"}, process |-> {"operation"},
               contract |-> {"service", "operation"}, event |-> {"service", "operation"}]

Scope(c) == IF c.ops = {} THEN "service" ELSE "operation"

(* Proposed ids are for additions; a new service or operation must be one. *)
ProposedIdsFit(c) ==
  /\ (c.services \cup c.ops) \cap Proposed # {} => c.action = "add"
  /\ c.kind = "service" /\ c.action = "add" => c.services \subseteq Proposed
  /\ c.kind = "operation" /\ c.action = "add" => c.ops \subseteq Proposed

ValidChange(c) ==
  /\ c.action \in KindActions[c.kind]
  /\ Scope(c) \in KindScopes[c.kind]
  /\ c.services # {}
  /\ ProposedIdsFit(c)

(* validateVerifiedCurrent: only a complete catalog may seed a TARGET.     *)
Verified(cat) == cat.whole /\ cat.services # {}

(* Everything a change names is in the catalog, unless the change adds it. *)
NamesKnown(cat, c) ==
  /\ \A s \in c.services :
       IF c.kind = "service" /\ c.action = "add" THEN s \in Proposed \ cat.services
       ELSE s \in cat.services
  /\ \A o \in c.ops :
       IF c.kind = "operation" /\ c.action = "add" THEN o \in Proposed
       ELSE \E s \in c.services : <<s, o>> \in cat.ops

-----------------------------------------------------------------------------
(* The impact of a change: the services it names, and every service that   *)
(* relations connect to one of them, in either direction.                  *)
Downstream(cat, X) == {r.to : r \in {q \in cat.rels : q.from \in X /\ q.to # External}}
Neighbours(cat, X) == Downstream(cat, X) \cup {r.from : r \in {q \in cat.rels : q.to \in X}}

DirectOnly(cat, c) == c.services \cup Neighbours(cat, c.services)
ImpactServices(cat, c) ==
  LET reach[n \in 0..Cardinality(Services)] ==
        IF n = 0 THEN c.services \ Proposed
        ELSE reach[n - 1] \cup Neighbours(cat, reach[n - 1])
  IN (c.services \cap Proposed) \cup reach[Cardinality(Services)]

(* A relation of an affected service leads outside the catalog.            *)
ImpactUnresolved(cat, c) ==
  \E r \in cat.rels : r.from \in ImpactServices(cat, c) /\ r.to = External

(* affectedExistingProjects over a proposal's diff and impact              *)
AffectedProjects(p) == UNION {ImpactServices(p.base, c) : c \in p.changes}

(* What an implementation plan may be made of: nothing only proposed,      *)
(* nothing left unresolved.                                                *)
Implementable(p) ==
  \A c \in p.changes :
    /\ ~c.open /\ (c.services \cup c.ops) \cap Proposed = {}
    /\ ~ImpactUnresolved(p.base, c)

(* CanTransitionArchitectureTarget                                         *)
CanTransition(from, to) ==
  \/ from = "draft" /\ to = "submitted"
  \/ from = "submitted" /\ to \in {"approved", "rejected", "changes_requested", "superseded"}
  \/ from = "changes_requested" /\ to = "superseded"

-----------------------------------------------------------------------------
(* Verification of one change against a later catalog.                     *)
AddedExists(cat, c) ==
  IF Scope(c) = "service" THEN c.services \subseteq cat.services
  ELSE c.services \X c.ops \subseteq cat.ops

RemovedAbsent(cat, c) ==
  IF Scope(c) = "service" THEN c.services \cap cat.services = {}
  ELSE (c.services \X c.ops) \cap cat.ops = {}

VerifyChange(cat, c) ==
  LET seen == \/ c.action = "add" /\ AddedExists(cat, c)
              \/ c.action = "remove" /\ RemovedAbsent(cat, c)
  IN IF ~seen THEN "DRIFT" ELSE IF c.open THEN "PARTIALLY_IMPLEMENTED" ELSE "MATCHED"

(* The report of a whole proposal.                                         *)
Report(p, cat) ==
  LET results == {VerifyChange(cat, c) : c \in p.changes} IN
  IF ~Verified(cat) THEN "VERIFICATION_PENDING"
  ELSE IF cat = p.base THEN "NOT_IMPLEMENTED"
  ELSE IF results = {"MATCHED"} THEN "MATCHED"
  ELSE IF results = {"DRIFT"} THEN "DRIFT" ELSE "PARTIALLY_IMPLEMENTED"
=============================================================================
