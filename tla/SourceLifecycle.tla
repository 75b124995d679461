-------------------------- MODULE SourceLifecycle --------------------------
(***************************************************************************)
(* What the ingest pipeline promises about the versions of one source:     *)
(* observed, then possibly current (searchable), finally retired.  How     *)
(* they come to be parsed, by which worker, under which job and after how  *)
(* many crashes is not said here: IngestQueue says it, and implements      *)
(* this.                                                                   *)
(***************************************************************************)
EXTENDS Versions

VARIABLE life    \* the stage each version has reached

Stages == {"absent", "candidate", "current", "retired"}

\* life with d at stage s and every registered older version retired.
Settle(d, s) ==
    [e \in Docs |->
        IF e = d THEN s
        ELSE IF e \in Older(d) /\ life[e] # "absent" THEN "retired"
        ELSE life[e]]

LifecycleInit == life = [d \in Docs |-> "absent"]

Register(d) ==
    /\ life[d] = "absent"
    /\ \A e \in Newer(d) : life[e] = "absent"
    /\ life' = [life EXCEPT ![d] = "candidate"]

\* The version becomes, or is rebuilt as, the one that is served.
Promote(d) ==
    /\ life[d] \in {"candidate", "current"}
    /\ \A e \in Newer(d) : life[e] # "current"
    /\ life' = Settle(d, "current")

\* A candidate that finishes after a newer version went live retires itself.
Yield(d) ==
    /\ life[d] = "candidate"
    /\ \E e \in Newer(d) : life[e] = "current"
    /\ life' = Settle(d, "retired")

\* An editor archives the version.
Withdraw(d) ==
    /\ life[d] # "absent"
    /\ life' = [life EXCEPT ![d] = "retired"]

LifecycleNext ==
    \E d \in Docs : Register(d) \/ Promote(d) \/ Yield(d) \/ Withdraw(d)

LifecycleSpec == LifecycleInit /\ [][LifecycleNext]_life

=============================================================================
