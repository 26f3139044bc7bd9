---------------------------- MODULE PackageStore ----------------------------
(***************************************************************************)
(* What installing and removing an extension promise their callers: the    *)
(* package, its managed command and the record of the command's owner      *)
(* change together or not at all, and an error means that nothing changed. *)
(***************************************************************************)
CONSTANTS Procs,    \* processes that install and remove
          Paths,    \* the places an installation occupies
          Targets,  \* what may be asked for: a version, or to have it gone
          Parts,    \* Parts[v]: the places v occupies
          None      \* nothing

VARIABLES installed,  \* place -> the version there
          asked,      \* process -> what its call is to bring about
          applied,    \* processes whose call has taken effect
          answer      \* process -> what its call returned

vars == <<installed, asked, applied, answer>>

Whole(v) == [q \in Paths |-> IF q \in Parts[v] THEN v ELSE None]

Init ==
    /\ installed = [q \in Paths |-> None]
    /\ asked = [p \in Procs |-> None]
    /\ applied = {}
    /\ answer = [p \in Procs |-> "none"]

Ask(p, v) ==
    /\ asked[p] = None
    /\ answer[p] = "none"
    /\ asked' = [asked EXCEPT ![p] = v]
    /\ UNCHANGED <<installed, applied, answer>>

Apply(p) ==
    /\ asked[p] # None /\ p \notin applied
    /\ installed' = Whole(asked[p])
    /\ applied' = applied \union {p}
    /\ UNCHANGED <<asked, answer>>

Answer(p) ==
    /\ asked[p] # None
    /\ asked' = [asked EXCEPT ![p] = None]
    /\ answer' = [answer EXCEPT ![p] = IF p \in applied THEN "ok" ELSE "error"]
    /\ applied' = applied \ {p}
    /\ UNCHANGED installed

(* The caller has its answer. *)
Hear(p) ==
    /\ answer[p] # "none"
    /\ answer' = [answer EXCEPT ![p] = "none"]
    /\ UNCHANGED <<installed, asked, applied>>

(* The process dies: nobody hears whether its call took effect. *)
Crash(p) ==
    /\ asked' = [asked EXCEPT ![p] = None]
    /\ answer' = [answer EXCEPT ![p] = "none"]
    /\ applied' = applied \ {p}
    /\ UNCHANGED installed

Next ==
    \E p \in Procs :
        \/ Apply(p) \/ Answer(p) \/ Hear(p) \/ Crash(p)
        \/ \E v \in Targets : Ask(p, v)

Spec == Init /\ [][Next]_vars
=============================================================================
