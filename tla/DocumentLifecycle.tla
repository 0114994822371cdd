-------------------------- MODULE DocumentLifecycle --------------------------
(***************************************************************************)
(* What the document API promises, with no lease, token, worker or broker: *)
(* a document moves through the states the README names, an edition is     *)
(* published as a whole, and what a READY document serves is exactly its   *)
(* current edition.  DocumentQueue implements this module.                 *)
(***************************************************************************)
EXTENDS Integers

CONSTANT Docs

VARIABLES phase,        \* the externally visible document.status
          edition,      \* document.version
          served        \* edition whose chunks and artefacts are in place

lifecycleVars == <<phase, edition, served>>

Phase == {"ABSENT", "PENDING_REVIEW", "REJECTED", "QUEUED", "PROCESSING",
          "READY", "FAILED", "DELETED"}

Active == {"QUEUED", "PROCESSING"}

LifecycleInit ==
    /\ phase = [d \in Docs |-> "ABSENT"]
    /\ edition = [d \in Docs |-> 0]
    /\ served = [d \in Docs |-> 0]

Become(d, p) == phase' = [phase EXCEPT ![d] = p]

Admit(d, p) ==
    /\ phase[d] = "ABSENT" /\ p \in {"QUEUED", "PENDING_REVIEW"}
    /\ Become(d, p)
    /\ edition' = [edition EXCEPT ![d] = 1]
    /\ UNCHANGED served

Review(d, p) ==
    /\ phase[d] = "PENDING_REVIEW" /\ p \in {"QUEUED", "REJECTED"}
    /\ Become(d, p)
    /\ UNCHANGED <<edition, served>>

\* A worker starts, or takes over work that was already under way.
Start(d) ==
    /\ phase[d] \in Active
    /\ Become(d, "PROCESSING")
    /\ UNCHANGED <<edition, served>>

\* The edition being worked on becomes the one that is served.
Publish(d) ==
    /\ phase[d] = "PROCESSING"
    /\ Become(d, "READY")
    /\ served' = [served EXCEPT ![d] = edition[d]]
    /\ UNCHANGED edition

\* The attempt failed: try again later or give up; served stays as it was.
PutBack(d) ==
    /\ phase[d] = "PROCESSING"
    /\ Become(d, "QUEUED")
    /\ UNCHANGED <<edition, served>>

GiveUp(d) ==
    /\ phase[d] = "PROCESSING"
    /\ Become(d, "FAILED")
    /\ UNCHANGED <<edition, served>>

Resubmit(d) ==
    /\ phase[d] \in {"FAILED", "PROCESSING"}
    /\ Become(d, "QUEUED")
    /\ UNCHANGED <<edition, served>>

NewEdition(d) ==
    /\ phase[d] \in {"READY", "FAILED"}
    /\ Become(d, "QUEUED")
    /\ edition' = [edition EXCEPT ![d] = @ + 1]
    /\ UNCHANGED served

Remove(d) ==
    /\ phase[d] \in {"READY", "FAILED", "PENDING_REVIEW", "REJECTED"}
    /\ Become(d, "DELETED")
    /\ edition' = [edition EXCEPT ![d] = 0]
    /\ served' = [served EXCEPT ![d] = 0]

LifecycleStep(d) ==
    \/ \E p \in Phase : Admit(d, p) \/ Review(d, p)
    \/ Start(d) \/ Publish(d) \/ PutBack(d) \/ GiveUp(d)
    \/ Resubmit(d) \/ NewEdition(d) \/ Remove(d)

LifecycleNext == \E d \in Docs : LifecycleStep(d)

LifecycleSpec == LifecycleInit /\ [][LifecycleNext]_lifecycleVars
=============================================================================
