---------------------- MODULE ManagedProcesses_proof ----------------------
(***************************************************************************)
(* Proofs about ManagedProcesses.  The first part says what the operators  *)
(* make of one record, the second what a step may do to one process; the   *)
(* invariants follow from that, whatever the action was.                   *)
(***************************************************************************)
EXTENDS ManagedProcesses, FiniteSetTheorems, TLAPS

Alive == {"root", "orphans"}
Given == {"reused", "struck"}

(* What a record may say of a group in state g. *)
Fits(r, g) ==
    /\ r.pid <=> g # "none"
    /\ r.confirmed => g \notin Alive
    /\ r.mine /\ r.status \in Terminal => ~ r.lease
    /\ g \in Alive => r.status \notin Terminal /\ (r.mine => r.lease)
    /\ g \in Given => r.child \in {"closed", "gone"} /\ r.stop # "sure" /\ r.ending # "sure"

(* What a file may say of it. *)
FileFits(m, g) ==
    /\ m.pid <=> g # "none"
    /\ m.confirmed => g \notin Alive
    /\ g \in Alive => m.status \notin Terminal

(* A record r may be replaced by q. *)
Follows(r, q) ==
    /\ q.mine = r.mine
    /\ q.identity => r.identity
    /\ q.lease => r.lease
    /\ InUse(q) => InUse(r)

(* A group may come from g to h. *)
Decays(g, h) ==
    /\ h \in Groups \ {"struck"}
    /\ h = "none" <=> g = "none"
    /\ h \in Alive => g \in Alive
    /\ h \in Given => g = h
-----------------------------------------------------------------------------
(* The operators on one record. *)

LEMMA RecordForm ==
    ASSUME NEW r \in Records
    PROVE  /\ r.status \in Statuses /\ r.pid \in BOOLEAN /\ r.identity \in BOOLEAN
           /\ r.confirmed \in BOOLEAN /\ r.rootExit \in BOOLEAN /\ r.ended \in BOOLEAN
           /\ r.mine \in BOOLEAN /\ r.lease \in BOOLEAN
           /\ r.child \in {"live", "exited", "closed", "gone"}
           /\ r.stop \in {"no", "sure", "verify", "flush"}
           /\ r.ending \in {"no", "sure", "verify"}
           /\ r.broken \in BOOLEAN /\ r.unsaved \in BOOLEAN
PROOF BY DEF Records

LEMMA MetadataFits ==
    ASSUME NEW r \in Records, NEW g, Fits(r, g)
    PROVE  MetadataOf(r) \in Metadata /\ FileFits(MetadataOf(r), g)
PROOF BY DEF Records, Metadata, MetadataOf, Fits, FileFits

LEMMA GateFits ==
    ASSUME NEW r \in Records, NEW g, Fits(r, g)
    PROVE  Gate(r) \in {"sure", "verify"} /\ (g \in Given => Gate(r) = "verify")
PROOF BY DEF Gate, Fits, Given

(* After a decay the record fits as before. *)
LEMMA FitsOn ==
    ASSUME NEW r \in Records, NEW g \in Groups, NEW h, Fits(r, g), Decays(g, h)
    PROVE  Fits(r, h)
PROOF BY DEF Fits, Decays, Alive, Given, Groups

LEMMA FileFitsOn ==
    ASSUME NEW m \in Metadata, NEW g \in Groups, NEW h, FileFits(m, g), Decays(g, h)
    PROVE  FileFits(m, h)
PROOF BY DEF FileFits, Decays, Alive, Given, Groups

LEMMA BrokenFits ==
    ASSUME NEW r \in Records, NEW g, Fits(r, g)
    PROVE  Broken(r) \in Records /\ Fits(Broken(r), g) /\ Follows(r, Broken(r))
PROOF
<1>1. Gate(r) \in {"sure", "verify"} /\ (g \in Given => Gate(r) = "verify")
  BY GateFits
<1>2. Broken(r) \in Records
  BY <1>1 DEF Broken, Records
<1>3. Fits(Broken(r), g)
  BY <1>1 DEF Broken, Records, Fits
<1>4. Follows(r, Broken(r))
  BY DEF Broken, Records, Follows, InUse
<1> QED BY <1>2, <1>3, <1>4

(* A group that is gone for the probe is not alive. *)
LEMMA Unseen ==
    ASSUME NEW p \in Starts, ~ Seen(p)
    PROVE  os[p] \notin Alive
PROOF BY DEF Seen, Alive

LEMMA FinishedFits ==
    ASSUME NEW p \in Starts, NEW r \in Records, NEW g, Fits(r, g),
           g \in Alive => os[p] \in Alive,
           NEW status \in Terminal
    PROVE  /\ Finished(p, r, status) \in Records
           /\ Fits(Finished(p, r, status), g)
           /\ Follows(r, Finished(p, r, status))
PROOF
<1> DEFINE sure == r.confirmed \/ GroupGone(p, r)
           late == [r EXCEPT !.rootExit = TRUE]
           orphan == [r EXCEPT !.rootExit = TRUE, !.status = "orphaned", !.ended = FALSE,
                               !.child = "gone", !.unsaved = ~ r.broken]
           done == [Released(r) EXCEPT !.rootExit = TRUE, !.status = status, !.ended = TRUE,
                                       !.confirmed = sure, !.child = "gone", !.unsaved = ~ r.broken]
<1>1. sure \in BOOLEAN /\ (sure => g \notin Alive)
  BY Unseen, RecordForm DEF GroupGone, Fits
<1>2. late \in Records /\ Fits(late, g) /\ Follows(r, late)
  BY DEF Records, Fits, Follows, InUse
<1>3. orphan \in Records /\ Fits(orphan, g) /\ Follows(r, orphan)
  <2>1. r.broken \in BOOLEAN /\ "orphaned" \in Statuses \ Terminal
    BY DEF Records, Statuses, Terminal
  <2>2. orphan \in Records
    BY <2>1 DEF Records
  <2>3. Fits(orphan, g)
    BY <2>1 DEF Records, Fits
  <2>4. Follows(r, orphan)
    BY DEF Records, Follows, InUse
  <2> QED BY <2>2, <2>3, <2>4
<1>4. CASE r.pid /\ ~ sure
  <2>1. Finished(p, r, status) \in {r, late, orphan}
    BY <1>4 DEF Finished
  <2> QED BY <2>1, <1>2, <1>3 DEF Follows
<1>5. CASE ~ (r.pid /\ ~ sure)
  <2>1. Finished(p, r, status) \in {r, late, done}
    BY <1>5 DEF Finished
  <2>2. g \notin Alive
    BY <1>1, <1>5 DEF Fits, Alive
  <2>3. done \in Records
    BY <1>1 DEF Records, Released, Statuses
  <2>4. Fits(done, g)
    BY <2>2, <1>1 DEF Fits, Records, Released
  <2>5. Follows(r, done)
    BY DEF Follows, InUse, Records, Released, Terminal
  <2> QED BY <2>1, <1>2, <2>3, <2>4, <2>5 DEF Follows
<1> QED BY <1>4, <1>5

LEMMA SettledFits ==
    ASSUME NEW p \in Starts, NEW r \in Records, Fits(r, os[p])
    PROVE  /\ Settled(p, r) \in Records
           /\ Fits(Settled(p, r), os[p])
           /\ Follows(r, Settled(p, r))
PROOF
<1> DEFINE q == [r EXCEPT !.confirmed = TRUE]
<1>1. CASE GroupGone(p, r)
  <2>1. os[p] \notin Alive
    BY <1>1, Unseen DEF GroupGone
  <2>2. q \in Records /\ Fits(q, os[p]) /\ Follows(r, q)
    BY <2>1 DEF Records, Fits, Follows, InUse
  <2>3. "exited" \in Terminal
    BY DEF Terminal
  <2>4. /\ Finished(p, q, "exited") \in Records
        /\ Fits(Finished(p, q, "exited"), os[p])
        /\ Follows(q, Finished(p, q, "exited"))
    BY <2>2, <2>3, FinishedFits
  <2>5. Follows(r, Finished(p, q, "exited"))
    BY <2>2, <2>4 DEF Follows
  <2> QED BY <2>4, <2>5 DEF Settled, Follows
<1>2. CASE ~ GroupGone(p, r)
  BY <1>2 DEF Settled, Follows
<1> QED BY <1>1, <1>2

LEMMA RestoredFits ==
    ASSUME NEW p \in Starts, disk[p] \in Metadata, FileFits(disk[p], os[p])
    PROVE  /\ Restored(p) \in Records /\ Fits(Restored(p), os[p])
           /\ ~ Restored(p).mine /\ ~ Restored(p).lease /\ ~ InUse(Restored(p))
PROOF
<1> DEFINE m == disk[p]
           r == RecordOf(m)
           seen == [r EXCEPT !.status = "orphaned"]
           lost == [r EXCEPT !.status = "orphaned", !.rootExit = TRUE, !.ended = FALSE]
           gone == [r EXCEPT !.status = "stopped", !.rootExit = TRUE, !.ended = TRUE]
<1>1. r \in Records /\ ~ r.mine /\ ~ r.lease /\ r.child = "gone" /\ r.stop = "no" /\ r.ending = "no"
  BY DEF RecordOf, Records, Metadata
<1>2. seen \in Records /\ Fits(seen, os[p]) /\ ~ seen.mine /\ ~ seen.lease /\ ~ InUse(seen)
  BY <1>1 DEF RecordOf, Records, FileFits, Fits, InUse, Statuses, Terminal
<1>a. "orphaned" \in Statuses \ Terminal /\ "stopped" \in Statuses
  BY DEF Statuses, Terminal
<1>b. r.pid = m.pid /\ r.confirmed = m.confirmed
  BY DEF RecordOf
<1>3. lost \in Records /\ Fits(lost, os[p]) /\ ~ lost.mine /\ ~ lost.lease /\ ~ InUse(lost)
  <2>1. lost \in Records /\ ~ lost.mine /\ ~ lost.lease /\ ~ InUse(lost)
    BY <1>1, <1>a DEF Records, InUse
  <2>2. Fits(lost, os[p])
    BY <1>1, <1>a, <1>b DEF Records, FileFits, Fits
  <2> QED BY <2>1, <2>2
<1>4. CASE m.status \in Terminal
  <2>1. Restored(p) = r
    BY <1>4 DEF Restored
  <2>2. Fits(r, os[p]) /\ ~ InUse(r)
    BY <1>1, <1>4 DEF RecordOf, FileFits, Fits, InUse, Terminal
  <2> QED BY <2>1, <2>2, <1>1
<1>5. CASE m.status \notin Terminal /\ m.pid /\ Seen(p)
  BY <1>5, <1>2 DEF Restored
<1>6. CASE m.status \notin Terminal /\ ~ (m.pid /\ Seen(p))
  <2>1. os[p] \notin Alive
    BY <1>6, Unseen DEF FileFits, Alive
  <2>2. gone \in Records /\ Fits(gone, os[p]) /\ ~ gone.mine /\ ~ gone.lease /\ ~ InUse(gone)
    <3>1. gone \in Records /\ ~ gone.mine /\ ~ gone.lease /\ ~ InUse(gone)
      BY <1>1, <1>a DEF Records, InUse
    <3>2. Fits(gone, os[p])
      BY <1>1, <1>b, <2>1 DEF Records, FileFits, Fits
    <3> QED BY <3>1, <3>2
  <2>3. Restored(p) \in {lost, gone}
    BY <1>6 DEF Restored
  <2> QED BY <2>2, <2>3, <1>3
<1> QED BY <1>4, <1>5, <1>6

LEMMA DeadFits ==
    ASSUME NEW p \in Starts, NEW r \in Records, Fits(r, os[p]), ~ (r.pid /\ Seen(p))
    PROVE  Dead(r) \in Records /\ Fits(Dead(r), os[p]) /\ Follows(r, Dead(r))
PROOF
<1>1. os[p] \notin Alive
  BY Unseen DEF Fits, Alive
<1>2. Dead(r) \in Records
  BY DEF Dead, Released, Records, Statuses, Terminal
<1>3. Fits(Dead(r), os[p])
  BY <1>1 DEF Dead, Released, Records, Fits
<1>4. Follows(r, Dead(r))
  BY DEF Dead, Released, Records, Follows, InUse
<1> QED BY <1>2, <1>3, <1>4

LEMMA ReadFits ==
    ASSUME NEW p \in Starts, NEW r \in Records, Fits(r, os[p]), NEW verdict \in Readings(p)
    PROVE  Read(r, verdict) \in Records /\ Fits(Read(r, verdict), os[p]) /\ Follows(r, Read(r, verdict))
PROOF
<1>1. CASE verdict = "mismatch"
  <2>1. os[p] \notin Alive
    BY <1>1 DEF Readings, Alive
  <2>2. Released(r) \in Records /\ Fits(Released(r), os[p]) /\ Follows(r, Released(r))
    BY <2>1 DEF Released, Records, Fits, Follows, InUse
  <2> QED BY <1>1, <2>2 DEF Read
<1>2. CASE verdict # "mismatch"
  BY <1>2 DEF Read, Follows
<1> QED BY <1>1, <1>2

(* A termination strikes nobody whose gate is not sure by mistake. *)
LEMMA TerminationsDecay ==
    ASSUME NEW p \in Starts, NEW gate, os[p] \in Groups \ {"struck"},
           os[p] \in Given => gate # "sure",
           NEW t \in Terminations(p, gate)
    PROVE  Decays(os[p], t[1]) /\ t[2] \in BOOLEAN /\ (t[2] => t[1] \notin Alive)
PROOF
<1>1. CASE t \in Signalled(p) /\ os[p] \notin Given
  <2>1. CASE ~ Seen(p)
    <3>1. t = <<os[p], TRUE>> /\ os[p] \in {"none", "dead"}
      BY <1>1, <2>1 DEF Signalled, Seen
    <3> QED BY <3>1 DEF Decays, Groups, Alive, Given
  <2>2. CASE Seen(p)
    <3>1. os[p] \in {"root", "orphans"}
      BY <1>1, <2>2 DEF Seen, Groups, Given
    <3>2. t \in {<<"dead", TRUE>>, <<os[p], FALSE>>, <<"orphans", FALSE>>}
      BY <1>1, <2>2, <3>1 DEF Signalled, Ours
    <3>3. CASE t = <<"dead", TRUE>>
      BY <3>1, <3>3 DEF Decays, Groups, Alive, Given
    <3>4. CASE t = <<os[p], FALSE>>
      BY <3>1, <3>4 DEF Decays, Groups, Alive, Given
    <3>5. CASE t = <<"orphans", FALSE>>
      BY <3>1, <3>5 DEF Decays, Groups, Alive, Given
    <3> QED BY <3>2, <3>3, <3>4, <3>5
  <2> QED BY <2>1, <2>2
<1>2. CASE t = <<os[p], FALSE>>
  BY <1>2 DEF Decays, Groups, Alive, Given
<1>3. CASE t \in Signalled(p) /\ os[p] \in Given
  <2>1. Seen(p) /\ gate # "sure"
    BY <1>3 DEF Seen, Given
  <2>2. "verified" \notin Readings(p)
    BY <1>3 DEF Readings, Given
  <2>3. t = <<os[p], FALSE>>
    BY <2>1, <2>2 DEF Terminations
  <2> QED BY <2>3, <1>2
<1> QED BY <1>1, <1>2, <1>3 DEF Terminations
-----------------------------------------------------------------------------
(* What a step may do to the record, the file and the group of a process.  *)

StoreTypes ==
    /\ rec \in [Starts -> Records \union {None}]
    /\ disk \in [Starts -> Metadata \union {None}]
    /\ os \in [Starts -> Groups \ {"struck"}]
    /\ spoiled \subseteq Starts

(* Records and files fit the groups, and a live process has a file unless  *)
(* it could not be written.                                                *)
Fitting ==
    \A p \in Starts :
        /\ Known(p) => Fits(rec[p], os[p])
        /\ disk[p] # None => FileFits(disk[p], os[p])
        /\ os[p] \in Alive => p \in spoiled \/ disk[p] # None

Store == StoreTypes /\ Fitting

Reshaped ==
    /\ rec' = [p \in Starts |-> rec'[p]]
    /\ disk' = [p \in Starts |-> disk'[p]]
    /\ os' = [p \in Starts |-> os'[p]]
    /\ spoiled \subseteq spoiled' /\ spoiled' \subseteq Starts

Same(p) == rec'[p] = rec[p] /\ disk'[p] = disk[p] /\ os'[p] = os[p]

Filed(p) == disk'[p] = disk[p] \/ disk'[p] = MetadataOf(rec'[p])

Rewritten(p) ==
    /\ Known(p) /\ rec'[p] \in Records /\ Filed(p)
    /\ Follows(rec[p], rec'[p])
    /\ Fits(rec'[p], os'[p])
    /\ Decays(os[p], os'[p])

Identified(p) ==
    /\ Known(p) /\ pc[p] = "identifying" /\ Filed(p) /\ os'[p] = os[p]
    /\ rec'[p] = [rec[p] EXCEPT !.identity = TRUE]

ReadBack(p) ==
    /\ ~ Known(p) /\ disk[p] # None /\ Filed(p) /\ os'[p] = os[p]
    /\ rec'[p] = Restored(p)

Removed(p) ==
    /\ pc[p] = "discarding" /\ pc'[p] = "ended"
    /\ rec'[p] = None /\ disk'[p] = None
    /\ Decays(os[p], os'[p]) /\ os'[p] \notin Alive

Forgotten(p) ==
    /\ rec'[p] = None /\ disk'[p] = disk[p] /\ os'[p] = os[p]
    /\ pc'[p] \in {"idle", "ended"}
    /\ job' = None /\ \A k \in Stops : stops'[k].at # "reading"

Decayed(p) ==
    /\ ~ Known(p) /\ rec'[p] = rec[p] /\ disk'[p] = disk[p]
    /\ Decays(os[p], os'[p])

Recycled(p) ==
    /\ rec'[p] = rec[p] /\ disk'[p] = disk[p]
    /\ os[p] = "dead" /\ os'[p] = "reused" /\ pc[p] = "ended" /\ pc'[p] = "ended"
    /\ Known(p) => rec[p].child \in {"closed", "gone"} /\ ~ Stopping(rec[p])

(* What may happen to a process without a slot being taken. *)
Steady(p) ==
    \/ Same(p) \/ Rewritten(p) \/ Identified(p) \/ ReadBack(p) \/ Removed(p)
    \/ Forgotten(p) \/ Decayed(p) \/ Recycled(p)

Taken(p) ==
    /\ Known(p) /\ ~ rec[p].mine /\ disk'[p] = disk[p] /\ os'[p] = os[p]
    /\ rec'[p] = [rec[p] EXCEPT !.lease = TRUE]

Launched(p) ==
    /\ pc[p] = "queued"
    /\ \E pid \in BOOLEAN :
         /\ os'[p] = IF pid THEN "root" ELSE "none"
         /\ \/ /\ rec'[p] = NewRecord(pid) /\ disk'[p] = MetadataOf(rec'[p])
               /\ pc'[p] = "launching"
            \/ /\ rec'[p] = [NewRecord(pid) EXCEPT !.broken = TRUE, !.ending = "sure"]
               /\ disk'[p] = disk[p] /\ p \in spoiled' /\ pc'[p] = "discarding"

(* Every step is one of these. *)
Stored ==
    /\ Reshaped
    /\ \/ \A p \in Starts : Steady(p)
       \/ \E s \in Starts :
            /\ Held < Limit /\ (Taken(s) \/ Launched(s))
            /\ \A p \in Starts \ {s} : Same(p)

(* A write of the record of p. *)
Writes(p) ==
    /\ rec' = [q \in Starts |-> rec'[q]] /\ disk' = [q \in Starts |-> disk'[q]]
    /\ \A q \in Starts \ {p} : rec'[q] = rec[q] /\ disk'[q] = disk[q]
    /\ rec'[p] \in Records /\ Filed(p)
    /\ spoiled \subseteq spoiled' /\ spoiled' \subseteq Starts

LEMMA SavedWrites ==
    ASSUME StoreTypes, NEW p \in Starts, NEW r \in Records, Saved(p, r)
    PROVE  Writes(p) /\ rec'[p] = r
PROOF BY DEF StoreTypes, Saved, Writes, Filed

LEMMA UnsavedWrites ==
    ASSUME StoreTypes, NEW p \in Starts, NEW r \in Records, Unsaved(p, r)
    PROVE  Writes(p) /\ rec'[p] = r
PROOF BY DEF StoreTypes, Unsaved, Writes, Filed

LEMMA AssignmentWrites ==
    ASSUME StoreTypes, NEW p \in Starts, NEW r \in Records,
           rec' = [rec EXCEPT ![p] = r], UNCHANGED <<disk, spoiled>>
    PROVE  Writes(p) /\ rec'[p] = r
PROOF BY DEF StoreTypes, Writes, Filed

LEMMA FollowsOn ==
    ASSUME NEW r, NEW q, NEW x, Follows(r, q), Follows(q, x)
    PROVE  Follows(r, x)
PROOF BY DEF Follows

(* safePersistMetadata and its relatives leave a record that fits. *)
LEMMA TryPersistWrites ==
    ASSUME StoreTypes, NEW p \in Starts, NEW r \in Records, NEW g, Fits(r, g),
           Follows(rec[p], r), TryPersist(p, r)
    PROVE  Writes(p) /\ Fits(rec'[p], g) /\ Follows(rec[p], rec'[p])
PROOF BY SavedWrites, UnsavedWrites DEF TryPersist

LEMMA SafePersistWrites ==
    ASSUME StoreTypes, NEW p \in Starts, NEW r \in Records, NEW g, Fits(r, g),
           Follows(rec[p], r), SafePersist(p, r)
    PROVE  Writes(p) /\ Fits(rec'[p], g) /\ Follows(rec[p], rec'[p])
PROOF
<1>1. Broken(r) \in Records /\ Fits(Broken(r), g) /\ Follows(rec[p], Broken(r))
  BY BrokenFits, FollowsOn
<1> QED BY <1>1, SavedWrites, UnsavedWrites DEF SafePersist

LEMMA BeginStopWrites ==
    ASSUME StoreTypes, NEW p \in Starts, NEW r \in Records, NEW g, Fits(r, g),
           Follows(rec[p], r), BeginStop(p, r)
    PROVE  Writes(p) /\ Fits(rec'[p], g) /\ Follows(rec[p], rec'[p])
PROOF
<1> DEFINE q == [r EXCEPT !.status = "stopping", !.stop = Gate(r)]
<1>1. Gate(r) \in {"sure", "verify"} /\ (g \in Given => Gate(r) = "verify")
  BY GateFits
<1>2. "stopping" \in Statuses \ Terminal
  BY DEF Statuses, Active, Terminal
<1>3. q \in Records
  BY <1>1, <1>2 DEF Records
<1>4. Fits(q, g)
  BY <1>1, <1>2 DEF Records, Fits
<1>5. Follows(rec[p], q)
  BY DEF Records, Follows, InUse
<1>6. CASE SafePersist(p, q)
  BY <1>3, <1>4, <1>5, <1>6, SafePersistWrites
<1>7. CASE rec' = [rec EXCEPT ![p] = r] /\ UNCHANGED <<disk, spoiled>>
  BY <1>7, AssignmentWrites
<1> QED BY <1>6, <1>7 DEF BeginStop

(* A write with the group as it was, and one with a group that decayed. *)
LEMMA WriteStored ==
    ASSUME StoreTypes, NEW p \in Starts, Known(p), Writes(p),
           Follows(rec[p], rec'[p]), Fits(rec'[p], os'[p]), Decays(os[p], os'[p]),
           os' = [os EXCEPT ![p] = os'[p]]
    PROVE  Stored
PROOF
<1>1. Reshaped
  BY DEF StoreTypes, Writes, Reshaped
<1>2. Rewritten(p)
  BY DEF Writes, Rewritten
<1>3. \A q \in Starts \ {p} : Same(q)
  BY DEF StoreTypes, Writes, Same
<1> QED BY <1>1, <1>2, <1>3 DEF Stored, Steady

LEMMA QuietWriteStored ==
    ASSUME StoreTypes, NEW p \in Starts, Known(p), Writes(p),
           Follows(rec[p], rec'[p]), Fits(rec'[p], os[p]), UNCHANGED os
    PROVE  Stored
PROOF
<1>1. Decays(os[p], os'[p])
  BY DEF StoreTypes, Decays
<1>2. os' = [os EXCEPT ![p] = os'[p]]
  BY DEF StoreTypes
<1>3. Fits(rec'[p], os'[p])
  OBVIOUS
<1> QED BY <1>1, <1>2, <1>3, WriteStored

LEMMA NothingStored ==
    ASSUME StoreTypes, UNCHANGED <<rec, disk, os, spoiled>>
    PROVE  Stored
PROOF
<1>1. Reshaped
  BY DEF StoreTypes, Reshaped
<1>2. \A q \in Starts : Same(q)
  BY DEF Same
<1> QED BY <1>1, <1>2 DEF Stored, Steady
-----------------------------------------------------------------------------
(* Where the records are while the calls wait. *)

Beyond == {"launching", "discarding", "identifying", "settling", "cleaning", "stopping"}

Control ==
    /\ pc \in [Starts -> Controls]
    /\ \A s \in Starts :
         /\ pc[s] \in Beyond => Known(s) /\ rec[s].mine
         /\ pc[s] \in Waiting \union {"idle"} => ~ Known(s) /\ disk[s] = None /\ os[s] = "none"
         /\ pc[s] = "discarding" => ~ rec[s].identity
         /\ pc[s] # "ended" => os[s] \notin Given

(* The record a stop is reading the identity of is there to stay. *)
Asked ==
    /\ stops \in [Stops -> [at : {"idle", "reading", "waiting", "done"}, of : Starts \union {None}]]
    /\ \A k \in Stops : stops[k].at = "reading" =>
         /\ stops[k].of \in Starts
         /\ Known(stops[k].of) /\ pc[stops[k].of] # "discarding"

(* So are those a restoration looks at; it has slots to give. *)
Subjects(j) == j.todo \union j.live \union ({j.at} \ {None})

Restoring ==
    /\ restoring \in Seq(Starts)
    /\ job \in Jobs \union {None}
    /\ job # None =>
         /\ restoring # <<>>
         /\ \A p \in Subjects(job) : Known(p) /\ ~ rec[p].mine
         /\ job.phase = "take" => job.free # 0

Room == Held \in Nat /\ Held <= Limit

Base == Store /\ Control /\ Asked /\ Restoring /\ Room

LEMMA KnownFits ==
    ASSUME Base, NEW p \in Starts, Known(p)
    PROVE  rec[p] \in Records /\ Fits(rec[p], os[p]) /\ Follows(rec[p], rec[p])
PROOF BY DEF Base, Store, StoreTypes, Fitting, Known, Follows

LEMMA HydratesStored ==
    ASSUME Base, Hydrates, UNCHANGED os
    PROVE  Stored
PROOF
<1>1. Reshaped
  <2>1. rec' = [p \in Starts |-> rec'[p]] /\ os' = [p \in Starts |-> os'[p]]
    BY DEF Base, Store, StoreTypes, Hydrates, Hydrated
  <2>2. disk' = [p \in Starts |-> disk'[p]]
    BY DEF Hydrates
  <2>3. spoiled \subseteq spoiled' /\ spoiled' \subseteq Starts
    BY DEF Base, Store, StoreTypes, Hydrates, New
  <2> QED BY <2>1, <2>2, <2>3 DEF Reshaped
<1>2. ASSUME NEW p \in Starts PROVE Steady(p)
  <2>1. disk'[p] = disk[p] \/ (p \in New /\ disk'[p] = MetadataOf(Restored(p)))
    BY DEF Hydrates, New
  <2>2. rec'[p] = IF p \in New THEN Restored(p)
                  ELSE IF Known(p) THEN Settled(p, rec[p]) ELSE None
    BY DEF Hydrates, Hydrated
  <2>3. CASE p \in New
    <3>1. ReadBack(p)
      BY <2>1, <2>2, <2>3 DEF New, ReadBack, Filed
    <3> QED BY <3>1 DEF Steady
  <2>4. CASE Known(p)
    <3>1. rec'[p] = Settled(p, rec[p]) /\ disk'[p] = disk[p]
      BY <2>1, <2>2, <2>4 DEF New
    <3>2. rec'[p] \in Records /\ Fits(rec'[p], os[p]) /\ Follows(rec[p], rec'[p])
      BY <3>1, <2>4, KnownFits, SettledFits
    <3>3. Decays(os[p], os'[p])
      BY DEF Base, Store, StoreTypes, Decays
    <3> QED BY <2>4, <3>1, <3>2, <3>3 DEF Steady, Rewritten, Filed
  <2>5. CASE ~ Known(p) /\ p \notin New
    <3>1. Same(p)
      BY <2>1, <2>2, <2>5 DEF Same, Known
    <3> QED BY <3>1 DEF Steady
  <2> QED BY <2>3, <2>4, <2>5
<1> QED BY <1>1, <1>2 DEF Stored

(* Processes. *)
LEMMA SaveStored ==
    ASSUME Base, NEW p \in Starts, Save(p)
    PROVE  Stored
PROOF
<1> DEFINE r == [rec[p] EXCEPT !.unsaved = FALSE]
<1>1. Known(p) /\ rec[p] \in Records /\ Fits(rec[p], os[p]) /\ StoreTypes
  BY KnownFits DEF Save, Base, Store
<1>2. r \in Records /\ Fits(r, os[p]) /\ Follows(rec[p], r)
  BY <1>1 DEF Records, Fits, Follows, InUse
<1>3. SafePersist(p, r) /\ UNCHANGED os
  BY DEF Save
<1> QED BY <1>1, <1>2, <1>3, SafePersistWrites, QuietWriteStored

LEMMA EndStopStored ==
    ASSUME Base, NEW p \in Starts, EndStop(p)
    PROVE  Stored
PROOF
<1>1. /\ Known(p) /\ rec[p] \in Records /\ Fits(rec[p], os[p]) /\ StoreTypes
      /\ os[p] \in Groups \ {"struck"}
  BY KnownFits DEF EndStop, Base, Store, StoreTypes
<1>2. PICK t \in Terminations(p, rec[p].stop) :
        LET r == [rec[p] EXCEPT !.confirmed = t[2], !.stop = "flush"]
        IN  /\ os' = [os EXCEPT ![p] = t[1]]
            /\ IF t[2]
               THEN rec' = [rec EXCEPT ![p] = Finished(p, r, "stopped")] /\ UNCHANGED <<disk, spoiled>>
               ELSE SafePersist(p, [r EXCEPT !.status = "orphaned", !.ended = FALSE])
  BY DEF EndStop
<1> DEFINE g == t[1]
           r == [rec[p] EXCEPT !.confirmed = t[2], !.stop = "flush"]
           left == [r EXCEPT !.status = "orphaned", !.ended = FALSE]
<1>3. Decays(os[p], g) /\ t[2] \in BOOLEAN /\ (t[2] => g \notin Alive)
  BY <1>1, <1>2, TerminationsDecay DEF Fits
<1>4. os'[p] = g /\ os' = [os EXCEPT ![p] = os'[p]]
  BY <1>1, <1>2 DEF StoreTypes
<1>5. Fits(rec[p], g) /\ (g \in Alive => os[p] \in Alive)
  BY <1>1, <1>3, FitsOn DEF Decays
<1>6. r \in Records /\ Fits(r, g) /\ Follows(rec[p], r)
  BY <1>1, <1>3, <1>5 DEF Records, Fits, Follows, InUse
<1>7. CASE t[2]
  <2>1. "stopped" \in Terminal
    BY DEF Terminal
  <2>2. /\ Finished(p, r, "stopped") \in Records
        /\ Fits(Finished(p, r, "stopped"), g) /\ Follows(r, Finished(p, r, "stopped"))
    BY <1>5, <1>6, <2>1, FinishedFits
  <2>3. rec' = [rec EXCEPT ![p] = Finished(p, r, "stopped")] /\ UNCHANGED <<disk, spoiled>>
    BY <1>2, <1>7
  <2>4. Writes(p) /\ rec'[p] = Finished(p, r, "stopped")
    BY <1>1, <2>2, <2>3, AssignmentWrites
  <2>5. Follows(rec[p], rec'[p])
    BY <1>6, <2>2, <2>4, FollowsOn
  <2> QED BY <1>1, <1>3, <1>4, <2>2, <2>4, <2>5, WriteStored
<1>8. CASE ~ t[2]
  <2>1. "orphaned" \in Statuses \ Terminal
    BY DEF Statuses, Terminal
  <2>2. left \in Records /\ Fits(left, g) /\ Follows(rec[p], left)
    <3>1. left \in Records
      BY <1>6, <2>1 DEF Records
    <3>2. Fits(left, g)
      BY <1>6, <2>1 DEF Records, Fits
    <3>3. Follows(rec[p], left)
      BY <1>6, <2>1 DEF Records, Follows, InUse
    <3> QED BY <3>1, <3>2, <3>3
  <2>3. SafePersist(p, left)
    BY <1>2, <1>8
  <2>4. Writes(p) /\ Fits(rec'[p], g) /\ Follows(rec[p], rec'[p])
    BY <1>1, <2>2, <2>3, SafePersistWrites
  <2> QED BY <1>1, <1>3, <1>4, <2>4, WriteStored
<1> QED BY <1>7, <1>8

LEMMA FlushStored ==
    ASSUME Base, NEW p \in Starts, Flush(p)
    PROVE  Stored
PROOF
<1> DEFINE r == [rec[p] EXCEPT !.unsaved = FALSE, !.stop = "no"]
           b == [r EXCEPT !.broken = TRUE]
<1>1. Known(p) /\ rec[p] \in Records /\ Fits(rec[p], os[p]) /\ StoreTypes /\ UNCHANGED os
  BY KnownFits DEF Flush, Base, Store
<1>2. r \in Records /\ Fits(r, os[p]) /\ Follows(rec[p], r)
  BY <1>1 DEF Records, Fits, Follows, InUse
<1>3. b \in Records /\ Fits(b, os[p]) /\ Follows(rec[p], b)
  <2>1. b \in Records /\ Fits(b, os[p])
    BY <1>2 DEF Records, Fits
  <2>2. Follows(rec[p], b)
    BY <1>2 DEF Records, Follows, InUse
  <2> QED BY <2>1, <2>2
<1>4. \/ rec' = [rec EXCEPT ![p] = r] /\ UNCHANGED <<disk, spoiled>>
      \/ Saved(p, r)
      \/ Unsaved(p, b)
  BY DEF Flush
<1>5. Writes(p) /\ rec'[p] \in {r, b}
  BY <1>1, <1>2, <1>3, <1>4, AssignmentWrites, SavedWrites, UnsavedWrites
<1> QED BY <1>1, <1>2, <1>3, <1>5, QuietWriteStored

LEMMA EndFailureStored ==
    ASSUME Base, NEW p \in Starts, EndFailure(p)
    PROVE  Stored
PROOF
<1>1. /\ Known(p) /\ rec[p] \in Records /\ Fits(rec[p], os[p]) /\ StoreTypes
      /\ os[p] \in Groups \ {"struck"}
  BY KnownFits DEF EndFailure, Base, Store, StoreTypes
<1>2. PICK t \in Terminations(p, rec[p].ending) :
        LET r == [rec[p] EXCEPT !.confirmed = t[2], !.ending = "no", !.ended = t[2]]
        IN  /\ os' = [os EXCEPT ![p] = t[1]]
            /\ TryPersist(p, IF t[2] THEN [Released(r) EXCEPT !.status = "failed", !.child = "gone"]
                             ELSE [r EXCEPT !.status = "orphaned"])
  BY DEF EndFailure
<1> DEFINE g == t[1]
           r == [rec[p] EXCEPT !.confirmed = t[2], !.ending = "no", !.ended = t[2]]
           over == [Released(r) EXCEPT !.status = "failed", !.child = "gone"]
           left == [r EXCEPT !.status = "orphaned"]
           q == IF t[2] THEN over ELSE left
<1>3. Decays(os[p], g) /\ t[2] \in BOOLEAN /\ (t[2] => g \notin Alive)
  BY <1>1, <1>2, TerminationsDecay DEF Fits
<1>4. os'[p] = g /\ os' = [os EXCEPT ![p] = os'[p]]
  BY <1>1, <1>2 DEF StoreTypes
<1>5. r \in Records /\ Fits(r, g) /\ Follows(rec[p], r)
  <2>1. Fits(rec[p], g)
    BY <1>1, <1>3, FitsOn
  <2>2. r \in Records
    BY <1>1, <1>3 DEF Records
  <2>3. Fits(r, g)
    BY <2>1, <1>1, <1>3 DEF Records, Fits
  <2>4. Follows(rec[p], r)
    BY <1>1 DEF Records, Follows, InUse
  <2> QED BY <2>2, <2>3, <2>4
<1>6. /\ "orphaned" \in Statuses \ Terminal /\ "failed" \in Statuses
  BY DEF Statuses, Terminal
<1>7. q \in Records
  BY <1>5, <1>6 DEF Records, Released
<1>8. Fits(q, g)
  BY <1>3, <1>5, <1>6 DEF Records, Released, Fits
<1>9. Follows(rec[p], q)
  BY <1>5 DEF Records, Released, Follows, InUse
<1>10. TryPersist(p, q)
  BY <1>2
<1>11. Writes(p) /\ Fits(rec'[p], g) /\ Follows(rec[p], rec'[p])
  BY <1>1, <1>7, <1>8, <1>9, <1>10, TryPersistWrites
<1> QED BY <1>1, <1>3, <1>4, <1>11, WriteStored

LEMMA ExitsStored ==
    ASSUME Base, NEW p \in Starts, Exits(p)
    PROVE  Stored
PROOF
<1>1. StoreTypes /\ os[p] \in Alive /\ os[p] \in Groups \ {"struck"}
  BY DEF Exits, Ours, Alive, Base, Store, StoreTypes
<1>2. PICK g \in {"dead", "orphans"} : os' = [os EXCEPT ![p] = g]
  BY DEF Exits
<1>3. os'[p] = g /\ os' = [os EXCEPT ![p] = os'[p]] /\ Decays(os[p], g)
  BY <1>1, <1>2 DEF StoreTypes, Decays, Groups, Alive, Given
<1>4. UNCHANGED <<disk, spoiled>>
  BY DEF Exits
<1>5. CASE Known(p)
  <2> DEFINE r == IF rec[p].child = "live" THEN [rec[p] EXCEPT !.child = "exited"] ELSE rec[p]
  <2>1. rec[p] \in Records /\ Fits(rec[p], g) /\ g \notin Given
    BY <1>1, <1>3, <1>5, KnownFits, FitsOn DEF Given
  <2>2. r \in Records /\ Fits(r, g) /\ Follows(rec[p], r)
    BY <2>1 DEF Records, Fits, Follows, InUse
  <2>3. rec' = [rec EXCEPT ![p] = r]
    BY <1>1, <1>5 DEF Exits, StoreTypes
  <2>4. Writes(p) /\ rec'[p] = r
    BY <1>1, <1>4, <2>2, <2>3, AssignmentWrites
  <2> QED BY <1>1, <1>3, <1>5, <2>2, <2>4, WriteStored
<1>6. CASE ~ Known(p)
  <2>1. rec' = rec
    BY <1>6 DEF Exits
  <2>2. Reshaped
    BY <1>1, <1>2, <1>4, <2>1 DEF StoreTypes, Reshaped
  <2>3. Decayed(p)
    BY <1>3, <1>4, <1>6, <2>1 DEF Decayed
  <2>4. \A q \in Starts \ {p} : Same(q)
    BY <1>1, <1>2, <1>4, <2>1 DEF StoreTypes, Same
  <2> QED BY <2>2, <2>3, <2>4 DEF Stored, Steady
<1> QED BY <1>5, <1>6

LEMMA CloseStored ==
    ASSUME Base, NEW p \in Starts, Close(p)
    PROVE  Stored
PROOF
<1> DEFINE r == [rec[p] EXCEPT !.child = "closed"]
           status == IF rec[p].status = "stopping" THEN "stopped" ELSE "exited"
           q == Finished(p, r, status)
<1>1. Known(p) /\ rec[p] \in Records /\ Fits(rec[p], os[p]) /\ StoreTypes
  BY KnownFits DEF Close, Base, Store
<1>2. r \in Records /\ Fits(r, os[p]) /\ Follows(rec[p], r)
  BY <1>1 DEF Records, Fits, Follows, InUse
<1>3. status \in Terminal
  BY DEF Terminal
<1>4. q \in Records /\ Fits(q, os[p]) /\ Follows(r, q)
  BY <1>2, <1>3, FinishedFits
<1>5. rec' = [rec EXCEPT ![p] = q] /\ UNCHANGED <<disk, spoiled, os>>
  BY <1>1 DEF Close, StoreTypes
<1>6. Follows(rec[p], q)
  BY <1>2, <1>4, FollowsOn
<1>7. Writes(p) /\ rec'[p] = q
  BY <1>1, <1>4, <1>5, AssignmentWrites
<1> QED BY <1>1, <1>4, <1>5, <1>6, <1>7, QuietWriteStored

LEMMA RecycleStored ==
    ASSUME Base, NEW p \in Starts, Recycle(p)
    PROVE  Stored
PROOF
<1>1. StoreTypes /\ UNCHANGED <<rec, disk, spoiled, pc>> /\ os' = [os EXCEPT ![p] = "reused"]
  BY DEF Recycle, Base, Store, store, calls
<1>2. Reshaped
  BY <1>1 DEF StoreTypes, Reshaped
<1>3. Recycled(p)
  BY <1>1 DEF StoreTypes, Recycle, Recycled
<1>4. \A q \in Starts \ {p} : Same(q)
  BY <1>1 DEF StoreTypes, Same
<1> QED BY <1>2, <1>3, <1>4 DEF Stored, Steady

(* Starts. *)
LEMMA LaunchStored ==
    ASSUME Base, NEW s \in Starts, Launch(s)
    PROVE  Stored /\ (Launched(s) \/ Leaves(s))
PROOF
<1>1. StoreTypes /\ pc \in [Starts -> Controls] /\ pc[s] = "queued" /\ Held < Limit
  BY DEF Launch, Base, Store, Control
<1>2. CASE Leaves(s) /\ UNCHANGED <<store, os>>
  BY <1>1, <1>2, NothingStored DEF store
<1>3. ASSUME NEW pid \in BOOLEAN,
             os' = [os EXCEPT ![s] = IF pid THEN "root" ELSE "none"],
             \/ Goes(s, "launching") /\ Saved(s, NewRecord(pid))
             \/ /\ Goes(s, "discarding")
                /\ Unsaved(s, [NewRecord(pid) EXCEPT !.broken = TRUE, !.ending = "sure"])
      PROVE  Stored /\ Launched(s)
  <2> DEFINE r == NewRecord(pid)
             b == [r EXCEPT !.broken = TRUE, !.ending = "sure"]
  <2>1. r \in Records /\ b \in Records
    BY DEF NewRecord, Records, Statuses, Active
  <2>2. CASE Goes(s, "launching") /\ Saved(s, r)
    <3>1. Writes(s) /\ rec'[s] = r /\ disk'[s] = MetadataOf(r)
      BY <1>1, <2>1, <2>2, SavedWrites DEF Saved, StoreTypes
    <3>2. pc'[s] = "launching" /\ os'[s] = IF pid THEN "root" ELSE "none"
      BY <1>1, <1>3, <2>2 DEF Goes, StoreTypes
    <3>3. Launched(s)
      BY <1>1, <3>1, <3>2 DEF Launched
    <3>4. Reshaped /\ \A p \in Starts \ {s} : Same(p)
      BY <1>1, <1>3, <3>1 DEF Writes, StoreTypes, Reshaped, Same
    <3> QED BY <1>1, <3>3, <3>4 DEF Stored
  <2>3. CASE Goes(s, "discarding") /\ Unsaved(s, b)
    <3>1. Writes(s) /\ rec'[s] = b /\ disk'[s] = disk[s] /\ s \in spoiled'
      BY <1>1, <2>1, <2>3, UnsavedWrites DEF Unsaved, StoreTypes
    <3>2. pc'[s] = "discarding" /\ os'[s] = IF pid THEN "root" ELSE "none"
      BY <1>1, <1>3, <2>3 DEF Goes, StoreTypes
    <3>3. Launched(s)
      BY <1>1, <3>1, <3>2 DEF Launched
    <3>4. Reshaped /\ \A p \in Starts \ {s} : Same(p)
      BY <1>1, <1>3, <3>1 DEF Writes, StoreTypes, Reshaped, Same
    <3> QED BY <1>1, <3>3, <3>4 DEF Stored
  <2> QED BY <1>3, <2>2, <2>3
<1>4. \/ Leaves(s) /\ UNCHANGED <<store, os>>
      \/ \E pid \in {TRUE, s \notin Fragile} :
            /\ os' = [os EXCEPT ![s] = IF pid THEN "root" ELSE "none"]
            /\ \/ Goes(s, "launching") /\ Saved(s, NewRecord(pid))
               \/ /\ Goes(s, "discarding")
                  /\ Unsaved(s, [NewRecord(pid) EXCEPT !.broken = TRUE, !.ending = "sure"])
  BY DEF Launch
<1> QED BY <1>2, <1>3, <1>4

LEMMA DiscardStored ==
    ASSUME Base, NEW s \in Starts, Discard(s)
    PROVE  Stored
PROOF
<1>1. /\ pc \in [Starts -> Controls] /\ pc[s] = "discarding" /\ Known(s) /\ StoreTypes
      /\ rec[s] \in Records /\ Fits(rec[s], os[s])
      /\ os[s] \in Groups \ {"struck"} /\ os[s] \notin Given
  BY KnownFits DEF Discard, Base, Store, StoreTypes, Control, Beyond
<1>2. PICK t \in Terminations(s, rec[s].ending) :
         /\ os' = [os EXCEPT ![s] = t[1]]
         /\ IF t[2]
            THEN /\ rec' = [rec EXCEPT ![s] = None]
                 /\ disk' = [disk EXCEPT ![s] = None]
                 /\ UNCHANGED spoiled
            ELSE TryPersist(s, [rec[s] EXCEPT !.ending = "no", !.confirmed = FALSE,
                                              !.status = "orphaned", !.ended = FALSE])
  BY DEF Discard
<1> DEFINE g == t[1]
           left == [rec[s] EXCEPT !.ending = "no", !.confirmed = FALSE,
                                  !.status = "orphaned", !.ended = FALSE]
<1>3. Decays(os[s], g) /\ (t[2] => g \notin Alive)
  BY <1>1, <1>2, TerminationsDecay
<1>4. os'[s] = g /\ os' = [os EXCEPT ![s] = os'[s]]
  BY <1>1, <1>2 DEF StoreTypes
<1>5. CASE t[2]
  <2>1. rec' = [rec EXCEPT ![s] = None] /\ disk' = [disk EXCEPT ![s] = None] /\ UNCHANGED spoiled
    BY <1>2, <1>5
  <2>2. Reshaped /\ \A p \in Starts \ {s} : Same(p)
    BY <1>1, <1>2, <2>1 DEF StoreTypes, Reshaped, Same
  <2>3. pc'[s] = "ended"
    BY <1>1 DEF Discard, Leaves
  <2>4. Removed(s)
    BY <1>1, <1>3, <1>4, <1>5, <2>1, <2>3 DEF StoreTypes, Removed
  <2> QED BY <2>2, <2>4 DEF Stored, Steady
<1>6. CASE ~ t[2]
  <2>1. Fits(rec[s], g)
    BY <1>1, <1>3, FitsOn
  <2>2. "orphaned" \in Statuses \ Terminal
    BY DEF Statuses, Terminal
  <2>3. left \in Records
    BY <1>1, <2>2 DEF Records
  <2>4. Fits(left, g)
    BY <1>1, <2>1, <2>2 DEF Records, Fits
  <2>5. Follows(rec[s], left)
    BY <1>1 DEF Records, Follows, InUse
  <2>6. TryPersist(s, left)
    BY <1>2, <1>6
  <2>7. Writes(s) /\ Fits(rec'[s], g) /\ Follows(rec[s], rec'[s])
    BY <1>1, <2>3, <2>4, <2>5, <2>6, TryPersistWrites
  <2> QED BY <1>1, <1>3, <1>4, <2>7, WriteStored
<1> QED BY <1>5, <1>6

LEMMA SpawnedStored ==
    ASSUME Base, NEW s \in Starts, Spawned(s)
    PROVE  Stored
PROOF
<1> DEFINE r == [rec[s] EXCEPT !.status = "running"]
<1>1. /\ Known(s) /\ StoreTypes /\ rec[s] \in Records /\ Fits(rec[s], os[s]) /\ UNCHANGED os
  BY KnownFits DEF Spawned, Base, Store, Control, Beyond
<1>2. CASE UNCHANGED store
  BY <1>1, <1>2, NothingStored DEF store
<1>3. CASE rec[s].status = "starting" /\ SafePersist(s, r)
  <2>1. "running" \in Statuses \ Terminal
    BY DEF Statuses, Active, Terminal
  <2>2. r \in Records
    BY <1>1, <2>1 DEF Records
  <2>3. Fits(r, os[s])
    BY <1>1, <1>3, <2>1 DEF Records, Fits
  <2>4. Follows(rec[s], r)
    BY <1>1, <1>3 DEF Records, Follows, InUse
  <2> QED BY <1>1, <1>3, <2>2, <2>3, <2>4, SafePersistWrites, QuietWriteStored
<1> QED BY <1>2, <1>3 DEF Spawned

LEMMA SpawnFailsStored ==
    ASSUME Base, NEW s \in Starts, SpawnFails(s)
    PROVE  Stored
PROOF
<1> DEFINE q == Finished(s, rec[s], "failed")
<1>1. /\ Known(s) /\ StoreTypes /\ rec[s] \in Records /\ Fits(rec[s], os[s])
  BY KnownFits DEF SpawnFails, Base, Store, Control, Beyond
<1>2. "failed" \in Terminal
  BY DEF Terminal
<1>3. q \in Records /\ Fits(q, os[s]) /\ Follows(rec[s], q)
  BY <1>1, <1>2, FinishedFits
<1>4. rec' = [rec EXCEPT ![s] = q] /\ UNCHANGED <<disk, spoiled, os>>
  BY DEF SpawnFails
<1>5. Writes(s) /\ rec'[s] = q
  BY <1>1, <1>3, <1>4, AssignmentWrites
<1> QED BY <1>1, <1>3, <1>4, <1>5, QuietWriteStored

LEMMA IdentifyStored ==
    ASSUME Base, NEW s \in Starts, Identify(s)
    PROVE  Stored
PROOF
<1> DEFINE r == [rec[s] EXCEPT !.identity = TRUE]
<1>1. /\ Known(s) /\ StoreTypes /\ rec[s] \in Records /\ UNCHANGED os /\ pc[s] = "identifying"
  BY KnownFits DEF Identify, Base, Store, Control, Beyond
<1>2. CASE UNCHANGED store
  BY <1>1, <1>2, NothingStored DEF store
<1>3. CASE Saved(s, r) \/ Unsaved(s, r)
  <2>1. r \in Records
    BY <1>1 DEF Records
  <2>2. Writes(s) /\ rec'[s] = r
    BY <1>1, <1>3, <2>1, SavedWrites, UnsavedWrites
  <2>3. Identified(s)
    BY <1>1, <2>2 DEF Identified, Writes
  <2>4. Reshaped /\ \A p \in Starts \ {s} : Same(p)
    BY <1>1, <2>2 DEF Writes, StoreTypes, Reshaped, Same
  <2> QED BY <2>3, <2>4 DEF Stored, Steady
<1> QED BY <1>2, <1>3 DEF Identify

LEMMA StoppingStored ==
    ASSUME Base, NEW s \in Starts, Interrupted(s) \/ Clean(s)
    PROVE  Stored
PROOF
<1>1. /\ Known(s) /\ StoreTypes /\ UNCHANGED os
      /\ rec[s] \in Records /\ Fits(rec[s], os[s]) /\ Follows(rec[s], rec[s])
  BY KnownFits DEF Interrupted, Clean, Base, Store, Control, Beyond
<1>2. CASE UNCHANGED store
  BY <1>1, <1>2, NothingStored DEF store
<1>3. CASE BeginStop(s, rec[s])
  BY <1>1, <1>3, BeginStopWrites, QuietWriteStored
<1> QED BY <1>2, <1>3 DEF Interrupted, Clean

(* Restorations. *)
LEMMA RestoreStored ==
    ASSUME Base, Restore
    PROVE  Stored
PROOF
<1>1. StoreTypes /\ os \in [Starts -> Groups \ {"struck"}]
  BY DEF Base, Store, StoreTypes
<1>2. CASE JobBegins \/ JobFails
  BY <1>1, <1>2, NothingStored DEF JobBegins, JobFails, store
<1>3. ASSUME NEW p \in Starts, JobVerifies(p) PROVE Stored
  <2> DEFINE verdict == Verdict(p, rec[p])
             q == IF verdict = "dead" THEN Dead(rec[p]) ELSE rec[p]
  <2>1. Known(p) /\ UNCHANGED os
    BY <1>3 DEF JobVerifies, Base, Restoring, Subjects
  <2>2. rec[p] \in Records /\ Fits(rec[p], os[p]) /\ Follows(rec[p], rec[p])
    BY <2>1, KnownFits
  <2>3. q \in Records /\ Fits(q, os[p]) /\ Follows(rec[p], q)
    <3>1. CASE verdict = "dead"
      <4>1. ~ (rec[p].pid /\ Seen(p))
        BY <3>1 DEF Verdict
      <4> QED BY <2>2, <3>1, <4>1, DeadFits
    <3>2. CASE verdict # "dead"
      BY <2>2, <3>2
    <3> QED BY <3>1, <3>2
  <2>4. UNCHANGED store \/ TryPersist(p, q)
    BY <1>3 DEF JobVerifies
  <2>5. CASE UNCHANGED store
    BY <1>1, <2>1, <2>5, NothingStored DEF store
  <2>6. CASE TryPersist(p, q)
    BY <1>1, <2>1, <2>3, <2>6, TryPersistWrites, QuietWriteStored
  <2> QED BY <2>4, <2>5, <2>6
<1>4. ASSUME JobReads PROVE Stored
  <2> DEFINE p == job.at
  <2>1. p \in Starts /\ Known(p) /\ UNCHANGED os
    BY <1>4 DEF JobReads, Base, Restoring, Subjects, Jobs
  <2>2. rec[p] \in Records /\ Fits(rec[p], os[p])
    BY <2>1, KnownFits
  <2>3. PICK verdict \in Readings(p) : TryPersist(p, Read(rec[p], verdict))
    BY <1>4 DEF JobReads
  <2>4. /\ Read(rec[p], verdict) \in Records /\ Fits(Read(rec[p], verdict), os[p])
        /\ Follows(rec[p], Read(rec[p], verdict))
    BY <2>1, <2>2, ReadFits
  <2> HIDE DEF p
  <2> QED BY <1>1, <2>1, <2>3, <2>4, TryPersistWrites, QuietWriteStored
<1>5. ASSUME NEW p \in Starts, JobTakes(p) PROVE Stored
  <2>1. Known(p) /\ ~ rec[p].mine /\ Held < Limit
    BY <1>5 DEF JobTakes, Base, Restoring, Subjects
  <2>2. rec' = [rec EXCEPT ![p].lease = TRUE] /\ UNCHANGED <<disk, spoiled, os>>
    BY <1>5 DEF JobTakes
  <2>3. Taken(p)
    BY <1>1, <2>1, <2>2 DEF StoreTypes, Taken
  <2>4. Reshaped /\ \A q \in Starts \ {p} : Same(q)
    BY <1>1, <2>2 DEF StoreTypes, Reshaped, Same
  <2> QED BY <2>1, <2>3, <2>4 DEF Stored
<1> QED BY <1>2, <1>3, <1>4, <1>5 DEF Restore

(* Stops. *)
LEMMA StopStored ==
    ASSUME Base, NEW k \in Stops, Stop(k)
    PROVE  Stored
PROOF
<1>1. StoreTypes
  BY DEF Base, Store
<1>2. CASE StopReturns(k)
  BY <1>1, <1>2, NothingStored DEF StopReturns, store
<1>3. ASSUME NEW p \in Starts, StopAsked(k, p) PROVE Stored
  <2> DEFINE r == Settled(p, rec[p])
             verdict == Verdict(p, r)
  <2>1. Known(p) /\ UNCHANGED os
    BY <1>3 DEF StopAsked
  <2>2. r \in Records /\ Fits(r, os[p]) /\ Follows(rec[p], r)
    BY <2>1, KnownFits, SettledFits
  <2>3. CASE rec' = [rec EXCEPT ![p] = r] /\ UNCHANGED <<disk, spoiled>>
    <3>1. Writes(p) /\ rec'[p] = r
      BY <1>1, <2>2, <2>3, AssignmentWrites
    <3> QED BY <1>1, <2>1, <2>2, <3>1, QuietWriteStored
  <2>4. CASE TryPersist(p, r)
    <3>1. Writes(p) /\ Fits(rec'[p], os[p]) /\ Follows(rec[p], rec'[p])
      BY <1>1, <2>2, <2>4, TryPersistWrites
    <3> QED BY <1>1, <2>1, <3>1, QuietWriteStored
  <2>5. CASE BeginStop(p, r)
    <3>1. Writes(p) /\ Fits(rec'[p], os[p]) /\ Follows(rec[p], rec'[p])
      BY <1>1, <2>2, <2>5, BeginStopWrites
    <3> QED BY <1>1, <2>1, <3>1, QuietWriteStored
  <2>6. CASE verdict = "dead" /\ BeginStop(p, Dead(r))
    <3>1. ~ (r.pid /\ Seen(p))
      BY <2>6 DEF Verdict
    <3>2. Dead(r) \in Records /\ Fits(Dead(r), os[p]) /\ Follows(r, Dead(r))
      BY <2>2, <3>1, DeadFits
    <3>3. Follows(rec[p], Dead(r))
      BY <2>2, <3>2, FollowsOn
    <3>4. Writes(p) /\ Fits(rec'[p], os[p]) /\ Follows(rec[p], rec'[p])
      BY <1>1, <2>6, <3>2, <3>3, BeginStopWrites
    <3> QED BY <1>1, <2>1, <3>4, QuietWriteStored
  <2>7. \/ rec' = [rec EXCEPT ![p] = r] /\ UNCHANGED <<disk, spoiled>>
        \/ TryPersist(p, r)
        \/ verdict = "dead" /\ BeginStop(p, Dead(r))
        \/ BeginStop(p, r)
    BY <1>3 DEF StopAsked, Verdict
  <2> QED BY <2>3, <2>4, <2>5, <2>6, <2>7
<1>4. ASSUME StopReads(k) PROVE Stored
  <2> DEFINE p == stops[k].of
  <2>1. p \in Starts /\ Known(p) /\ UNCHANGED os
    BY <1>4 DEF StopReads, Base, Asked
  <2>2. rec[p] \in Records /\ Fits(rec[p], os[p]) /\ Follows(rec[p], rec[p])
    BY <2>1, KnownFits
  <2>3. PICK verdict \in Readings(p) :
           BeginStop(p, rec[p]) \/ TryPersist(p, Read(rec[p], verdict))
    BY <1>4 DEF StopReads
  <2>4. /\ Read(rec[p], verdict) \in Records /\ Fits(Read(rec[p], verdict), os[p])
        /\ Follows(rec[p], Read(rec[p], verdict))
    BY <2>1, <2>2, ReadFits
  <2> HIDE DEF p
  <2>5. Writes(p) /\ Fits(rec'[p], os[p]) /\ Follows(rec[p], rec'[p])
    BY <1>1, <2>1, <2>2, <2>3, <2>4, TryPersistWrites, BeginStopWrites
  <2> QED BY <1>1, <2>1, <2>5, QuietWriteStored
<1> QED BY <1>2, <1>3, <1>4 DEF Stop

LEMMA RestartStored ==
    ASSUME Base, Restart
    PROVE  Stored
PROOF
<1>1. /\ rec' = [p \in Starts |-> None] /\ UNCHANGED <<disk, spoiled, os>>
      /\ pc' = [s \in Starts |-> IF pc[s] = "idle" THEN "idle" ELSE "ended"]
  BY DEF Restart
<1>2. Reshaped
  BY <1>1 DEF Base, Store, StoreTypes, Reshaped
<1>3. job' = None /\ \A k \in Stops : stops'[k].at # "reading"
  BY DEF Restart
<1>4. \A p \in Starts : Forgotten(p)
  BY <1>1, <1>3 DEF Forgotten
<1> QED BY <1>2, <1>4 DEF Stored, Steady

LEMMA EveryStepStores ==
    ASSUME Base, [Next]_vars
    PROVE  Stored
PROOF
<1>1. StoreTypes
  BY DEF Base, Store
<1>2. CASE UNCHANGED vars
  BY <1>1, <1>2, NothingStored DEF vars, store
<1>3. ASSUME NEW s \in Starts, Start(s) PROVE Stored
  <2>1. CASE Ask(s) \/ Abort(s) \/ GivesUp(s) \/ Settle(s) \/ StartFails(s)
    BY <1>1, <2>1, NothingStored DEF Ask, Abort, GivesUp, Settle, StartFails, store
  <2>2. CASE Reserved(s)
    BY <2>2, HydratesStored DEF Reserved
  <2> QED BY <1>3, <2>1, <2>2, LaunchStored, DiscardStored, SpawnedStored, SpawnFailsStored,
             IdentifyStored, StoppingStored DEF Start
<1>4. ASSUME NEW p \in Starts, Process(p) PROVE Stored
  BY <1>4, SaveStored, EndStopStored, FlushStored, EndFailureStored, ExitsStored, CloseStored,
     RecycleStored DEF Process
<1>5. CASE Hydrate
  BY <1>5, HydratesStored DEF Hydrate
<1> QED BY <1>2, <1>3, <1>4, <1>5, StopStored, RestoreStored, RestartStored DEF Next
-----------------------------------------------------------------------------
(* How the calls move. *)

Moved(s) ==
    \/ pc[s] = "idle" /\ pc'[s] = "reserving" /\ awaited'[s] = Unsettled(s)
    \/ pc[s] \in Waiting \union Beyond /\ pc'[s] = "ended"
    \/ /\ pc[s] = "reserving" /\ pc'[s] = "restoring"
       /\ \A t \in awaited[s] : pc[t] = "ended"
       /\ ~ Reusable(s, rec')
    \/ pc[s] = "restoring" /\ pc'[s] = "queued"
    \/ Launched(s)
    \/ /\ pc[s] \in Beyond /\ pc'[s] \in Beyond
       /\ pc'[s] \in {"launching", "discarding"} => pc'[s] = pc[s]

Moves ==
    /\ pc' = [s \in Starts |-> pc'[s]]
    /\ aborted' \subseteq Starts
    /\ awaited' \in [Starts -> SUBSET Starts]
    /\ \/ UNCHANGED <<pc, awaited>>
       \/ \E s \in Starts :
            /\ Moved(s)
            /\ \A t \in Starts \ {s} : pc'[t] = pc[t] /\ awaited'[t] = awaited[t]
       \/ \A s \in Starts : pc'[s] = IF pc[s] = "idle" THEN "idle" ELSE "ended"

Calls == aborted \subseteq Starts /\ awaited \in [Starts -> SUBSET Starts]

LEMMA MovesOne ==
    ASSUME Base, Calls, NEW s \in Starts, NEW to, NEW A \in SUBSET Starts,
           pc' = [pc EXCEPT ![s] = to], awaited' = [awaited EXCEPT ![s] = A],
           aborted' \subseteq Starts, pc'[s] = to => Moved(s)
    PROVE  Moves
PROOF
<1>1. pc \in [Starts -> Controls] /\ awaited \in [Starts -> SUBSET Starts]
  BY DEF Base, Control, Calls
<1>2. pc' = [t \in Starts |-> pc'[t]] /\ awaited' \in [Starts -> SUBSET Starts]
  BY <1>1
<1>3. \A t \in Starts \ {s} : pc'[t] = pc[t] /\ awaited'[t] = awaited[t]
  BY <1>1
<1>4. pc'[s] = to
  BY <1>1
<1> QED BY <1>2, <1>3, <1>4 DEF Moves

LEMMA GoesMoves ==
    ASSUME Base, Calls, NEW s \in Starts, NEW to, Goes(s, to), pc'[s] = to => Moved(s)
    PROVE  Moves
PROOF
<1>1. {} \in SUBSET Starts /\ aborted' \subseteq Starts
  BY DEF Goes, Calls
<1> QED BY <1>1, MovesOne DEF Goes

LEMMA LeavesMoves ==
    ASSUME Base, Calls, NEW s \in Starts, Leaves(s), pc[s] \in Waiting \union Beyond
    PROVE  Moves
PROOF
<1>1. aborted' \subseteq Starts
  BY DEF Leaves, Calls
<1>2. pc'[s] = "ended" => Moved(s)
  BY DEF Moved
<1> QED BY <1>1, <1>2, MovesOne DEF Leaves

LEMMA StaysMoves ==
    ASSUME Base, Calls, UNCHANGED <<pc, awaited>>, aborted' \subseteq Starts
    PROVE  Moves
PROOF BY DEF Base, Control, Calls, Moves

LEMMA StartMoves ==
    ASSUME Base, Calls, NEW s \in Starts, Start(s)
    PROVE  Moves
PROOF
<1>1. CASE Ask(s)
  <2>1. Unsettled(s) \in SUBSET Starts /\ aborted' \subseteq Starts
    BY <1>1 DEF Unsettled, Ask, Calls
  <2>2. pc'[s] = "reserving" => Moved(s)
    BY <1>1 DEF Ask, Moved, Base, Control, Calls
  <2> QED BY <1>1, <2>1, <2>2, MovesOne DEF Ask
<1>2. CASE Abort(s)
  BY <1>2, StaysMoves DEF Abort, Calls
<1>3. CASE Reserved(s)
  <2>1. CASE Leaves(s)
    BY <1>3, <2>1, LeavesMoves DEF Reserved, Waiting
  <2>2. CASE ~ Reusable(s, Hydrated) /\ Goes(s, "restoring")
    <3>1. rec' = Hydrated
      BY <1>3 DEF Reserved, Hydrates
    <3>2. pc'[s] = "restoring" => Moved(s)
      BY <1>3, <2>2, <3>1 DEF Reserved, Moved
    <3> QED BY <2>2, <3>2, GoesMoves
  <2> QED BY <1>3, <2>1, <2>2 DEF Reserved
<1>4. CASE GivesUp(s)
  BY <1>4, LeavesMoves DEF GivesUp
<1>5. CASE Launch(s)
  <2>1. CASE Leaves(s)
    BY <1>5, <2>1, LeavesMoves DEF Launch, Waiting
  <2>2. CASE ~ Leaves(s)
    <3>1. Launched(s)
      BY <1>5, <2>2, LaunchStored
    <3>2. PICK to : Goes(s, to)
      BY <1>5, <2>2 DEF Launch
    <3> QED BY <3>1, <3>2, GoesMoves DEF Moved
  <2> QED BY <2>1, <2>2
<1>6. CASE Discard(s)
  BY <1>6, LeavesMoves DEF Discard, Beyond
<1>7. CASE Spawned(s)
  BY <1>7, GoesMoves DEF Spawned, Moved, Beyond
<1>8. CASE SpawnFails(s)
  BY <1>8, GoesMoves DEF SpawnFails, Moved, Beyond
<1>9. CASE Identify(s)
  <2>1. PICK to \in {"settling", "cleaning"} : Goes(s, to)
    BY <1>9 DEF Identify
  <2> QED BY <1>9, <2>1, GoesMoves DEF Identify, Moved, Beyond
<1>10. CASE Settle(s)
  <2>1. CASE Leaves(s)
    BY <1>10, <2>1, LeavesMoves DEF Settle, Beyond
  <2>2. CASE Goes(s, "cleaning")
    BY <1>10, <2>2, GoesMoves DEF Settle, Moved, Beyond
  <2> QED BY <1>10, <2>1, <2>2 DEF Settle
<1>11. CASE Interrupted(s)
  BY <1>11, GoesMoves DEF Interrupted, Moved, Beyond
<1>12. CASE Clean(s)
  <2>1. CASE Leaves(s)
    BY <1>12, <2>1, LeavesMoves DEF Clean, Beyond
  <2>2. CASE Goes(s, "stopping")
    BY <1>12, <2>2, GoesMoves DEF Clean, Moved, Beyond
  <2> QED BY <1>12, <2>1, <2>2 DEF Clean
<1>13. CASE StartFails(s)
  BY <1>13, LeavesMoves DEF StartFails, Beyond
<1> QED BY <1>1, <1>2, <1>3, <1>4, <1>5, <1>6, <1>7, <1>8, <1>9, <1>10, <1>11, <1>12, <1>13 DEF Start

(* The end of a restoration lets the start that waits for it go on. *)
LEMMA JobOverMoves ==
    ASSUME Base, Calls, restoring # <<>>, NEW works, JobOver(works)
    PROVE  Moves
PROOF
<1> DEFINE s == Head(restoring)
<1>1. s \in Starts
  BY DEF Base, Restoring
<1>2. CASE UNCHANGED calls
  BY <1>2, StaysMoves DEF calls, Calls
<1>3. CASE pc[s] = "restoring" /\ Goes(s, "queued")
  BY <1>1, <1>3, GoesMoves DEF Moved
<1>4. CASE pc[s] = "restoring" /\ Leaves(s)
  BY <1>1, <1>4, LeavesMoves DEF Waiting
<1> QED BY <1>2, <1>3, <1>4 DEF JobOver

LEMMA JobGoesOnMoves ==
    ASSUME Base, Calls, restoring # <<>>, NEW j, JobGoesOn(j)
    PROVE  Moves
PROOF
<1>1. CASE UNCHANGED calls
  BY <1>1, StaysMoves DEF calls, Calls
<1>2. CASE \E works : JobOver(works)
  BY <1>2, JobOverMoves
<1>3. UNCHANGED calls \/ \E works : JobOver(works)
  BY DEF JobGoesOn
<1> QED BY <1>1, <1>2, <1>3

LEMMA RestoreMoves ==
    ASSUME Base, Calls, Restore
    PROVE  Moves
PROOF
<1>1. job # None => restoring # <<>>
  BY DEF Base, Restoring
<1>2. CASE JobBegins
  <2>1. CASE UNCHANGED calls
    BY <2>1, StaysMoves DEF calls, Calls
  <2>2. CASE ~ UNCHANGED calls
    <3>1. restoring # <<>> /\ \E j : JobGoesOn(j)
      BY <1>2, <2>2 DEF JobBegins
    <3> QED BY <3>1, JobGoesOnMoves
  <2> QED BY <2>1, <2>2
<1>3. ASSUME NEW p \in Starts, JobVerifies(p) \/ JobTakes(p) PROVE Moves
  <2>1. restoring # <<>> /\ \E j : JobGoesOn(j)
    BY <1>1, <1>3 DEF JobVerifies, JobTakes
  <2> QED BY <2>1, JobGoesOnMoves
<1>4. CASE JobReads
  <2>1. restoring # <<>> /\ \E j : JobGoesOn(j)
    BY <1>1, <1>4 DEF JobReads
  <2> QED BY <2>1, JobGoesOnMoves
<1>5. CASE JobFails
  BY <1>1, <1>5, JobOverMoves DEF JobFails
<1> QED BY <1>2, <1>3, <1>4, <1>5 DEF Restore

LEMMA EveryStepMoves ==
    ASSUME Base, Calls, [Next]_vars
    PROVE  Moves
PROOF
<1>1. ASSUME NEW p \in Starts, Process(p) PROVE UNCHANGED calls
  BY <1>1 DEF Process, Save, EndStop, Flush, EndFailure, Exits, Close, Recycle
<1>2. ASSUME NEW k \in Stops, Stop(k) PROVE UNCHANGED calls
  BY <1>2 DEF Stop, StopAsked, StopReads, StopReturns
<1>3. CASE UNCHANGED calls
  BY <1>3, StaysMoves DEF calls, Calls
<1>4. CASE Restart
  BY <1>4 DEF Restart, Moves
<1> QED BY <1>1, <1>2, <1>3, <1>4, StartMoves, RestoreMoves DEF Next, Hydrate, vars
-----------------------------------------------------------------------------
(* The invariant is kept. *)

LEMMA NewFits ==
    ASSUME NEW p \in Starts, Launched(p)
    PROVE  /\ rec'[p] \in Records /\ Fits(rec'[p], os'[p])
           /\ rec'[p].mine /\ ~ rec'[p].identity /\ rec'[p].lease
           /\ os'[p] \in {"root", "none"}
           /\ \/ disk'[p] = MetadataOf(rec'[p])
              \/ disk'[p] = disk[p] /\ p \in spoiled'
PROOF
<1>1. PICK pid \in BOOLEAN :
         /\ os'[p] = IF pid THEN "root" ELSE "none"
         /\ \/ rec'[p] = NewRecord(pid) /\ disk'[p] = MetadataOf(rec'[p])
            \/ /\ rec'[p] = [NewRecord(pid) EXCEPT !.broken = TRUE, !.ending = "sure"]
               /\ disk'[p] = disk[p] /\ p \in spoiled'
  BY DEF Launched
<1> DEFINE r == NewRecord(pid)
           b == [r EXCEPT !.broken = TRUE, !.ending = "sure"]
<1>2. r \in Records /\ b \in Records
  BY DEF NewRecord, Records, Statuses, Active
<1>3. Fits(r, os'[p]) /\ r.mine /\ ~ r.identity /\ r.lease
  BY <1>1 DEF NewRecord, Fits, Terminal, Alive, Given
<1>4. Fits(b, os'[p]) /\ b.mine /\ ~ b.identity /\ b.lease
  <2>1. b.mine /\ ~ b.identity /\ b.lease /\ b.pid = pid /\ ~ b.confirmed /\ b.status = "starting"
    BY DEF NewRecord
  <2>2. Fits(b, os'[p])
    BY <1>1, <2>1 DEF Fits, Terminal, Alive, Given
  <2> QED BY <2>1, <2>2
<1>5. os'[p] \in {"root", "none"}
  BY <1>1
<1> HIDE DEF r, b
<1>6. CASE rec'[p] = r /\ disk'[p] = MetadataOf(rec'[p])
  BY <1>2, <1>3, <1>5, <1>6
<1>7. CASE rec'[p] = b /\ disk'[p] = disk[p] /\ p \in spoiled'
  BY <1>2, <1>4, <1>5, <1>7
<1> QED BY <1>1, <1>6, <1>7 DEF r, b

(* One process after a step. *)
FittingNext(p) ==
    /\ rec'[p] \in Records \union {None} /\ disk'[p] \in Metadata \union {None}
    /\ os'[p] \in Groups \ {"struck"}
    /\ rec'[p] # None => Fits(rec'[p], os'[p])
    /\ disk'[p] # None => FileFits(disk'[p], os'[p])
    /\ os'[p] \in Alive => p \in spoiled' \/ disk'[p] # None

LEMMA FitsNext ==
    ASSUME Store, Control, Stored, NEW p \in Starts
    PROVE  FittingNext(p)
PROOF
<1>1. /\ rec[p] \in Records \union {None} /\ disk[p] \in Metadata \union {None}
      /\ os[p] \in Groups \ {"struck"} /\ spoiled \subseteq spoiled'
      /\ Known(p) => rec[p] \in Records /\ Fits(rec[p], os[p])
      /\ disk[p] # None => disk[p] \in Metadata /\ FileFits(disk[p], os[p])
      /\ os[p] \in Alive => p \in spoiled \/ disk[p] # None
  BY DEF Store, StoreTypes, Fitting, Stored, Reshaped, Known
<1>2. ASSUME NEW r \in Records PROVE MetadataOf(r) # None
  <2>1. MetadataOf(r) \in Metadata
    BY DEF Records, Metadata, MetadataOf
  <2> QED BY <2>1, NoneAssumption
<1>3. ASSUME Decays(os[p], os'[p])
      PROVE  /\ os'[p] \in Groups \ {"struck"}
             /\ disk[p] # None => FileFits(disk[p], os'[p])
             /\ os'[p] \in Alive => p \in spoiled' \/ disk[p] # None
  BY <1>1, <1>3, FileFitsOn DEF Decays
<1>4. ASSUME rec'[p] \in Records, Fits(rec'[p], os'[p])
      PROVE  MetadataOf(rec'[p]) # None /\ MetadataOf(rec'[p]) \in Metadata
             /\ FileFits(MetadataOf(rec'[p]), os'[p])
  BY <1>2, <1>4, MetadataFits
<1>5. CASE Same(p) \/ Forgotten(p)
  BY <1>1, <1>5 DEF Same, Forgotten, FittingNext, Known
<1>6. CASE Rewritten(p)
  BY <1>1, <1>3, <1>4, <1>6 DEF Rewritten, Filed, FittingNext
<1>7. CASE Identified(p)
  <2>1. rec'[p] \in Records /\ Fits(rec'[p], os'[p])
    BY <1>1, <1>7 DEF Identified, Records, Fits
  <2> QED BY <1>1, <1>4, <1>7, <2>1 DEF Identified, Filed, FittingNext
<1>8. CASE ReadBack(p)
  <2>1. rec'[p] \in Records /\ Fits(rec'[p], os'[p])
    BY <1>1, <1>8, RestoredFits DEF ReadBack
  <2> QED BY <1>1, <1>4, <1>8, <2>1 DEF ReadBack, Filed, FittingNext
<1>9. CASE Removed(p)
  BY <1>3, <1>9 DEF Removed, FittingNext
<1>10. CASE Decayed(p)
  BY <1>1, <1>3, <1>10 DEF Decayed, FittingNext, Known
<1>11. CASE Recycled(p)
  <2>1. os'[p] \in Groups \ {"struck"} /\ os'[p] \notin Alive /\ os'[p] # "none" /\ os[p] # "none"
    BY <1>11 DEF Recycled, Groups, Alive
  <2>2. disk[p] # None => FileFits(disk[p], os'[p])
    BY <1>1, <2>1 DEF FileFits
  <2>3. Known(p) => Fits(rec[p], os'[p])
    BY <1>1, <1>11, <2>1 DEF Fits, Recycled, Stopping
  <2> QED BY <1>1, <1>11, <2>1, <2>2, <2>3 DEF Recycled, FittingNext, Known
<1>12. CASE Taken(p)
  <2>1. rec'[p] \in Records /\ Fits(rec'[p], os'[p])
    BY <1>1, <1>12 DEF Taken, Records, Fits
  <2> QED BY <1>1, <1>12, <2>1 DEF Taken, FittingNext
<1>13. CASE Launched(p)
  <2>1. disk'[p] = MetadataOf(rec'[p]) \/ (disk'[p] = disk[p] /\ p \in spoiled')
    BY <1>13, NewFits
  <2>2. disk[p] = None
    BY <1>13 DEF Launched, Control, Waiting
  <2> QED BY <1>1, <1>4, <1>13, <2>1, <2>2, NewFits DEF FittingNext, Groups, Alive
<1> QED BY <1>5, <1>6, <1>7, <1>8, <1>9, <1>10, <1>11, <1>12, <1>13 DEF Stored, Steady

LEMMA StoreNext ==
    ASSUME Store, Control, Stored
    PROVE  Store'
PROOF
<1>1. \A p \in Starts : FittingNext(p)
  BY FitsNext
<1>2. StoreTypes'
  BY <1>1 DEF Stored, Reshaped, FittingNext, StoreTypes
<1>3. Fitting'
  BY <1>1 DEF FittingNext, Fitting, Known
<1> QED BY <1>2, <1>3 DEF Store

(* No more slots are held than there are. *)
LEMMA HeldNat ==
    Held \in Nat /\ IsFiniteSet({p \in Starts : Known(p) /\ rec[p].lease})
PROOF
<1>1. IsFiniteSet({p \in Starts : Known(p) /\ rec[p].lease})
  BY StartAssumption, FS_Subset DEF StartAssumption
<1> QED BY <1>1, FS_CardinalityType DEF Held

LEMMA RoomNext ==
    ASSUME Store, Control, Room, Stored
    PROVE  Room'
PROOF
<1> DEFINE H == {p \in Starts : Known(p) /\ rec[p].lease}
           HN == {p \in Starts : rec'[p] # None /\ rec'[p].lease}
<1>1. IsFiniteSet(H) /\ Held = Cardinality(H) /\ Held \in Nat
  BY HeldNat DEF Held
<1>2. Held' = Cardinality(HN)
  BY DEF Held, Known
<1>3. ASSUME NEW p \in Starts, Steady(p), p \in HN PROVE p \in H
  <2>1. Known(p) => rec[p] \in Records
    BY DEF Store, StoreTypes, Known
  <2>2. CASE Same(p) \/ Rewritten(p) \/ Decayed(p) \/ Recycled(p)
    BY <1>3, <2>2 DEF Same, Rewritten, Decayed, Recycled, Follows, Known
  <2>3. CASE Identified(p)
    BY <1>3, <2>1, <2>3 DEF Identified, Records
  <2>4. CASE ReadBack(p)
    <3>1. ~ Restored(p).lease
      BY <2>4, RestoredFits DEF ReadBack, Store, StoreTypes, Fitting
    <3> QED BY <1>3, <2>4, <3>1 DEF ReadBack
  <2>5. CASE Removed(p) \/ Forgotten(p)
    BY <1>3, <2>5 DEF Removed, Forgotten
  <2> QED BY <1>3, <2>2, <2>3, <2>4, <2>5 DEF Steady
<1>4. CASE \A p \in Starts : Steady(p)
  <2>1. HN \subseteq H
    BY <1>3, <1>4
  <2>2. IsFiniteSet(HN) /\ Cardinality(HN) \in Nat /\ Cardinality(HN) <= Cardinality(H)
    BY <1>1, <2>1, FS_Subset, FS_CardinalityType
  <2> QED BY <1>1, <1>2, <2>2, LimitAssumption DEF Room, LimitAssumption
<1>5. ASSUME NEW s \in Starts, Held < Limit, \A p \in Starts \ {s} : Same(p)
      PROVE  Room'
  <2>1. HN \subseteq H \union {s}
    BY <1>3, <1>5 DEF Steady
  <2>2. IsFiniteSet(H \union {s}) /\ Cardinality(H \union {s}) \in Nat
        /\ Cardinality(H \union {s}) <= Cardinality(H) + 1
    <3>1. IsFiniteSet(H \union {s})
      BY <1>1, FS_AddElement
    <3>2. Cardinality(H \union {s}) = IF s \in H THEN Cardinality(H) ELSE Cardinality(H) + 1
      BY <1>1, FS_AddElement
    <3> HIDE DEF H
    <3> QED BY <1>1, <3>1, <3>2, FS_CardinalityType
  <2>3. IsFiniteSet(HN) /\ Cardinality(HN) \in Nat /\ Cardinality(HN) <= Cardinality(H \union {s})
    BY <2>1, <2>2, FS_Subset, FS_CardinalityType
  <2> QED BY <1>1, <1>2, <1>5, <2>2, <2>3, LimitAssumption DEF Room, LimitAssumption
<1> QED BY <1>4, <1>5 DEF Stored

(* A record that is looked at stays, in the hands of the same runtime. *)
LEMMA Stays ==
    ASSUME Store, Control, Stored, NEW p \in Starts, Known(p), pc[p] # "discarding"
    PROVE  Forgotten(p) \/ (rec'[p] # None /\ rec'[p].mine = rec[p].mine)
PROOF
<1>1. rec[p] \in Records
  BY DEF Store, StoreTypes, Known
<1>2. ASSUME NEW r \in Records PROVE r # None
  BY NoneAssumption
<1>3. pc[p] # "queued"
  BY DEF Control, Waiting
<1>4. CASE Same(p) \/ Rewritten(p) \/ Recycled(p)
  BY <1>1, <1>2, <1>4 DEF Same, Rewritten, Recycled, Follows
<1>5. CASE Identified(p) \/ Taken(p)
  <2>1. rec'[p] \in Records /\ rec'[p].mine = rec[p].mine
    BY <1>1, <1>5 DEF Identified, Taken, Records
  <2> QED BY <2>1, <1>2
<1>6. ~ ReadBack(p) /\ ~ Removed(p) /\ ~ Decayed(p) /\ ~ Launched(p)
  BY <1>3 DEF ReadBack, Removed, Decayed, Launched
<1> QED BY <1>4, <1>5, <1>6 DEF Stored, Steady

LEMMA ControlNext ==
    ASSUME Store, Control, Stored, Moves
    PROVE  Control'
PROOF
<1> SUFFICES ASSUME NEW s \in Starts
             PROVE  /\ pc'[s] \in Controls
                    /\ pc'[s] \in Beyond => rec'[s] # None /\ rec'[s].mine
                    /\ pc'[s] \in Waiting \union {"idle"} =>
                         rec'[s] = None /\ disk'[s] = None /\ os'[s] = "none"
                    /\ pc'[s] = "discarding" => ~ rec'[s].identity
                    /\ pc'[s] # "ended" => os'[s] \notin Given
  BY DEF Control, Moves, Known
<1>1. /\ pc[s] \in Controls
      /\ pc[s] \in Beyond => Known(s) /\ rec[s].mine
      /\ pc[s] \in Waiting \union {"idle"} => ~ Known(s) /\ disk[s] = None /\ os[s] = "none"
      /\ pc[s] = "discarding" => ~ rec[s].identity
      /\ pc[s] # "ended" => os[s] \notin Given
  BY DEF Control
<1>2. \/ pc'[s] = pc[s]
      \/ pc'[s] \in {"idle", "ended"} /\ (pc'[s] = "idle" => pc[s] = "idle")
      \/ Moved(s)
  BY DEF Moves
<1>3. \/ pc'[s] = "ended"
      \/ pc[s] \in Waiting \union {"idle"} /\ pc'[s] \in Waiting \union {"idle"}
      \/ Launched(s)
      \/ /\ pc[s] \in Beyond /\ pc'[s] \in Beyond
         /\ pc'[s] = "discarding" => pc[s] = "discarding"
  BY <1>1, <1>2 DEF Moved, Controls, Waiting, Starting, Beyond
<1>4. pc'[s] \in Controls
  BY <1>1, <1>3 DEF Controls, Waiting, Starting, Beyond, Launched
<1>5. Steady(s) \/ Taken(s) \/ Launched(s)
  BY DEF Stored, Steady
<1>6. CASE Launched(s)
  <2>1. pc'[s] \in {"launching", "discarding"}
    BY <1>6 DEF Launched
  <2>2. rec'[s] # None
    BY <1>6, NewFits, NoneAssumption
  <2> QED BY <1>4, <1>6, <2>1, <2>2, NewFits DEF Waiting, Given
<1>7. CASE pc'[s] = "ended"
  BY <1>4, <1>7 DEF Beyond, Waiting
<1>8. CASE pc[s] \in Waiting \union {"idle"} /\ pc'[s] \in Waiting \union {"idle"}
  <2>1. ~ Rewritten(s) /\ ~ Identified(s) /\ ~ ReadBack(s) /\ ~ Removed(s) /\ ~ Taken(s)
    BY <1>1, <1>8 DEF Rewritten, Identified, ReadBack, Removed, Taken, Waiting
  <2>2. ~ Recycled(s) /\ ~ Launched(s)
    BY <1>1, <1>8 DEF Recycled, Launched, Waiting
  <2>3. rec'[s] = None /\ disk'[s] = None /\ os'[s] = "none"
    BY <1>1, <1>5, <1>8, <2>1, <2>2 DEF Steady, Same, Forgotten, Decayed, Decays, Known
  <2> QED BY <1>4, <1>8, <2>3 DEF Beyond, Waiting, Given
<1>9. CASE pc[s] \in Beyond /\ pc'[s] \in Beyond /\ (pc'[s] = "discarding" => pc[s] = "discarding")
  <2>1. ~ Forgotten(s) /\ ~ Removed(s) /\ ~ ReadBack(s) /\ ~ Decayed(s) /\ ~ Recycled(s) /\ ~ Launched(s)
    BY <1>1, <1>9 DEF Forgotten, Removed, ReadBack, Decayed, Recycled, Launched, Beyond
  <2>2. rec[s] \in Records
    BY <1>1, <1>9 DEF Store, StoreTypes, Known
  <2>3. rec'[s] \in Records /\ rec'[s].mine = rec[s].mine
        /\ (rec'[s].identity => rec[s].identity \/ pc[s] = "identifying")
    BY <1>5, <2>1, <2>2 DEF Steady, Same, Rewritten, Identified, Taken, Follows, Records
  <2>4. rec'[s] # None
    BY <2>3, NoneAssumption
  <2>5. os'[s] \notin Given
    BY <1>1, <1>5, <1>9, <2>1 DEF Steady, Same, Rewritten, Identified, Taken, Decays, Beyond
  <2> QED BY <1>1, <1>4, <1>9, <2>3, <2>4, <2>5 DEF Beyond, Waiting
<1> QED BY <1>3, <1>6, <1>7, <1>8, <1>9

(* What a call reads stays where it is. *)
LEMMA ReadingStays ==
    ASSUME Base, Calls, Stored, Moves, NEW p \in Starts, Known(p), pc[p] # "discarding"
    PROVE  Forgotten(p) \/ (rec'[p] # None /\ rec'[p].mine = rec[p].mine /\ pc'[p] # "discarding")
PROOF
<1>1. Store /\ Control
  BY DEF Base
<1>2. Forgotten(p) \/ (rec'[p] # None /\ rec'[p].mine = rec[p].mine)
  BY <1>1, Stays
<1>3. ~ Launched(p)
  BY <1>1 DEF Control, Launched, Waiting
<1>4. pc'[p] # "discarding"
  BY <1>3 DEF Moves, Moved
<1> QED BY <1>2, <1>4

LEMMA AskedNext ==
    ASSUME Base, Calls, Stored, Moves, [Next]_vars
    PROVE  Asked'
PROOF
<1> DEFINE Fine(k) ==
        stops'[k].at = "reading" =>
            stops'[k].of \in Starts /\ rec'[stops'[k].of] # None /\ pc'[stops'[k].of] # "discarding"
           StopType == [at : {"idle", "reading", "waiting", "done"}, of : Starts \union {None}]
<1>1. /\ stops \in [Stops -> StopType]
      /\ \A k \in Stops : stops[k].at = "reading" =>
           stops[k].of \in Starts /\ Known(stops[k].of) /\ pc[stops[k].of] # "discarding"
  BY DEF Base, Asked
<1>2. ASSUME NEW k \in Stops, stops'[k] = stops[k] PROVE Fine(k)
  <2>1. CASE stops[k].at = "reading"
    <3> DEFINE p == stops[k].of
    <3>1. p \in Starts /\ Known(p) /\ pc[p] # "discarding"
      BY <1>1, <2>1
    <3>2. Forgotten(p) \/ (rec'[p] # None /\ pc'[p] # "discarding")
      BY <3>1, ReadingStays
    <3>3. ~ Forgotten(p)
      BY <1>2, <2>1 DEF Forgotten
    <3> QED BY <1>2, <3>1, <3>2, <3>3
  <2>2. CASE stops[k].at # "reading"
    BY <1>2, <2>2
  <2> QED BY <2>1, <2>2
<1>3. CASE UNCHANGED stops
  BY <1>1, <1>2, <1>3 DEF Asked, Known
<1>4. CASE Restart
  <2>1. stops' \in [Stops -> StopType]
    BY <1>1, <1>4 DEF Restart
  <2>2. \A k \in Stops : stops'[k].at # "reading"
    <3> SUFFICES ASSUME NEW k \in Stops PROVE stops'[k].at # "reading"
      OBVIOUS
    <3> QED BY <1>4 DEF Restart
  <2> QED BY <2>1, <2>2 DEF Asked
<1>5. ASSUME NEW k \in Stops, Stop(k) PROVE Asked'
  <2>1. ASSUME NEW at \in {"idle", "reading", "waiting", "done"}, NEW of \in Starts \union {None},
               StopIs(k, at, of),
               at = "reading" => of \in Starts /\ Known(of) /\ pc[of] # "discarding",
               UNCHANGED calls
        PROVE  Asked'
    <3>1. stops' = [stops EXCEPT ![k] = [at |-> at, of |-> of]]
      BY <2>1 DEF StopIs
    <3>2. stops' \in [Stops -> StopType]
      BY <1>1, <3>1
    <3>3. Fine(k)
      <4>1. stops'[k] = [at |-> at, of |-> of]
        BY <1>1, <3>1
      <4>2. CASE at = "reading"
        <5>1. Forgotten(of) \/ (rec'[of] # None /\ pc'[of] # "discarding")
          BY <2>1, <4>2, ReadingStays
        <5>2. ~ Forgotten(of)
          BY <4>1, <4>2 DEF Forgotten
        <5> QED BY <2>1, <4>1, <4>2, <5>1, <5>2
      <4>3. CASE at # "reading"
        BY <4>1, <4>3
      <4> QED BY <4>2, <4>3
    <3>4. \A j \in Stops \ {k} : stops'[j] = stops[j]
      BY <1>1, <3>1
    <3>5. \A j \in Stops : Fine(j)
      BY <1>2, <3>3, <3>4
    <3> HIDE DEF StopType
    <3> QED BY <3>2, <3>5 DEF Asked, Known, StopType
  <2>2. CASE StopReturns(k)
    BY <2>1, <2>2 DEF StopReturns
  <2>3. CASE StopReads(k)
    <3>1. stops[k].of \in Starts /\ UNCHANGED calls
      BY <1>1, <2>3 DEF StopReads
    <3>2. StopIs(k, "waiting", stops[k].of) \/ StopIs(k, "done", None)
      BY <2>3 DEF StopReads
    <3> QED BY <2>1, <3>1, <3>2
  <2>4. ASSUME NEW p \in Starts, StopAsked(k, p) PROVE Asked'
    <3> DEFINE r == Settled(p, rec[p])
               verdict == Verdict(p, r)
    <3>1. Known(p) /\ UNCHANGED calls
      BY <2>4 DEF StopAsked
    <3>2. \/ StopIs(k, "done", None) \/ StopIs(k, "waiting", p)
          \/ StopIs(k, "reading", p) /\ verdict = "reading"
      BY <2>4 DEF StopAsked, Verdict
    <3>3. verdict = "reading" => pc[p] # "discarding"
      <4>1. Follows(rec[p], r)
        BY <3>1, KnownFits, SettledFits
      <4>2. verdict = "reading" => r.identity
        BY DEF Verdict
      <4>3. pc[p] = "discarding" => ~ rec[p].identity
        BY DEF Base, Control
      <4> QED BY <4>1, <4>2, <4>3 DEF Follows
    <3> HIDE DEF verdict
    <3> QED BY <2>1, <3>1, <3>2, <3>3
  <2> QED BY <1>5, <2>2, <2>3, <2>4 DEF Stop
<1>6. (\E k \in Stops : Stop(k)) \/ Restart \/ UNCHANGED stops
  <2>1. ASSUME NEW s \in Starts, Start(s) \/ Process(s) PROVE UNCHANGED stops
    BY <2>1 DEF Start, Ask, Abort, Reserved, GivesUp, Launch, Discard, Spawned, SpawnFails, Identify,
       Settle, Interrupted, Clean, StartFails, Process, Save, EndStop, Flush, EndFailure, Exits, Close, Recycle
  <2>2. Restore => UNCHANGED stops
    BY DEF Restore, JobBegins, JobVerifies, JobTakes, JobReads, JobFails
  <2> QED BY <2>1, <2>2 DEF Next, Hydrate, vars
<1> QED BY <1>3, <1>4, <1>5, <1>6
-----------------------------------------------------------------------------
(* Restorations. *)

LEMMA JobOverNext ==
    ASSUME Base, restoring # <<>>, NEW works, JobOver(works)
    PROVE  Restoring'
PROOF
<1>1. job' = None /\ restoring' = Tail(restoring) /\ restoring \in Seq(Starts)
  BY DEF JobOver, Base, Restoring
<1>2. Tail(restoring) \in Seq(Starts)
  BY <1>1
<1> QED BY <1>1, <1>2 DEF Restoring

LEMMA JobGoesOnNext ==
    ASSUME Base, restoring # <<>>, Room', NEW j \in Jobs, JobGoesOn(j),
           \A p \in Subjects(j) : job' # None => rec'[p] # None /\ ~ rec'[p].mine
    PROVE  Restoring'
PROOF
<1> DEFINE turn == [j EXCEPT !.phase = "take", !.free = Limit - Held',
                             !.todo = {p \in j.live : ~ rec'[p].lease}]
           next == IF j.phase = "verify" /\ j.todo = {} /\ j.at = None THEN turn ELSE j
<1>1. Limit - Held' \in 0 .. Limit
  <2>1. Held' \in Nat /\ Held' <= Limit
    BY DEF Room
  <2>2. ASSUME NEW h \in Nat, h <= Limit PROVE Limit - h \in 0 .. Limit
    BY <2>2, LimitAssumption DEF LimitAssumption
  <2> QED BY <2>1, <2>2
<1>2. turn \in Jobs
  BY <1>1 DEF Jobs
<1>3. turn.live = j.live /\ turn.todo \subseteq j.live /\ turn.at = j.at
  BY DEF Jobs
<1>4. next \in Jobs /\ Subjects(next) \subseteq Subjects(j)
  BY <1>2, <1>3 DEF Subjects
<1>5. CASE next.phase = "take" /\ (next.todo = {} \/ next.free = 0)
  <2>1. \E works : JobOver(works)
    BY <1>5 DEF JobGoesOn
  <2> QED BY <2>1, JobOverNext
<1>6. CASE ~ (next.phase = "take" /\ (next.todo = {} \/ next.free = 0))
  <2>1. job' = next /\ UNCHANGED restoring
    BY <1>6 DEF JobGoesOn
  <2> HIDE DEF next
  <2> QED BY <1>4, <1>6, <2>1 DEF Base, Restoring, Subjects, Known
<1> QED BY <1>5, <1>6

LEMMA RestoringNext ==
    ASSUME Base, Calls, Stored, Moves, Room', [Next]_vars
    PROVE  Restoring'
PROOF
<1>1. /\ restoring \in Seq(Starts) /\ job \in Jobs \union {None}
      /\ job # None => /\ job \in Jobs /\ restoring # <<>>
                       /\ \A p \in Subjects(job) : p \in Starts /\ Known(p) /\ ~ rec[p].mine
                       /\ job.phase = "take" => job.free # 0
  BY DEF Base, Restoring, Subjects, Jobs
<1>2. ASSUME NEW p \in Starts, Known(p), ~ rec[p].mine
      PROVE  Forgotten(p) \/ (rec'[p] # None /\ ~ rec'[p].mine)
  <2>1. pc[p] # "discarding"
    BY <1>2 DEF Base, Control, Beyond
  <2> QED BY <1>2, <2>1, ReadingStays
<1>3. CASE Restart
  BY <1>3 DEF Restart, Restoring
<1>4. CASE UNCHANGED job /\ restoring' \in Seq(Starts) /\ (restoring # <<>> => restoring' # <<>>)
  <2>1. CASE job = None
    BY <1>4, <2>1 DEF Restoring
  <2>2. CASE job # None
    <3>1. \A p \in Subjects(job) : rec'[p] # None /\ ~ rec'[p].mine
      BY <1>1, <1>2, <1>4, <2>2 DEF Forgotten
    <3> QED BY <1>1, <1>4, <2>2, <3>1 DEF Restoring, Subjects, Known
  <2> QED BY <2>1, <2>2
<1>5. ASSUME NEW j \in Jobs, restoring # <<>>, JobGoesOn(j),
             \A p \in Subjects(j) : p \in Starts /\ Known(p) /\ ~ rec[p].mine
      PROVE  Restoring'
  <2>1. \A p \in Subjects(j) : job' # None => rec'[p] # None /\ ~ rec'[p].mine
    BY <1>2, <1>5 DEF Forgotten
  <2> QED BY <1>5, <2>1, JobGoesOnNext
<1>6. CASE Restore
  <2>1. CASE JobBegins
    <3> DEFINE j == [todo |-> {p \in Starts : Known(p) /\ rec[p].status = "orphaned" /\ ~ rec[p].mine},
                     live |-> {}, at |-> None, free |-> 0, phase |-> "verify"]
    <3>1. j \in Jobs
      BY LimitAssumption DEF Jobs, LimitAssumption
    <3>2. \A p \in Subjects(j) : p \in Starts /\ Known(p) /\ ~ rec[p].mine
      BY DEF Subjects
    <3>3. CASE JobGoesOn(j)
      BY <1>5, <2>1, <3>1, <3>2, <3>3 DEF JobBegins
    <3>4. CASE restoring' = Tail(restoring) /\ UNCHANGED job
      <4>1. job' = None /\ restoring' \in Seq(Starts)
        BY <1>1, <2>1, <3>4 DEF JobBegins
      <4> QED BY <4>1 DEF Restoring
    <3> QED BY <2>1, <3>3, <3>4 DEF JobBegins
  <2>2. ASSUME NEW p \in Starts, JobVerifies(p) PROVE Restoring'
    <3>1. PICK at \in {None, p} : JobGoesOn([job EXCEPT !.todo = @ \ {p}, !.at = at])
      BY <2>2 DEF JobVerifies
    <3> DEFINE j == [job EXCEPT !.todo = @ \ {p}, !.at = at]
    <3>2. job # None /\ job \in Jobs /\ p \in job.todo /\ restoring # <<>>
      BY <1>1, <2>2 DEF JobVerifies
    <3>3. j \in Jobs /\ j.todo = job.todo \ {p} /\ j.live = job.live /\ j.at = at
      BY <3>2 DEF Jobs
    <3>4. Subjects(j) \subseteq Subjects(job)
      BY <3>2, <3>3 DEF Subjects
    <3>5. JobGoesOn(j)
      BY <3>1
    <3>6. restoring # <<>>
      BY <3>2
    <3> HIDE DEF j
    <3>7. \A q \in Subjects(j) : q \in Starts /\ Known(q) /\ ~ rec[q].mine
      BY <1>1, <3>2, <3>4
    <3> QED BY <1>5, <3>3, <3>5, <3>6, <3>7
  <2>3. CASE JobReads
    <3>1. PICK live \in {job.live, job.live \union {job.at}} :
             JobGoesOn([job EXCEPT !.at = None, !.live = live])
      BY <2>3 DEF JobReads
    <3> DEFINE j == [job EXCEPT !.at = None, !.live = live]
    <3>2. job # None /\ job \in Jobs /\ job.at # None /\ restoring # <<>>
      BY <1>1, <2>3 DEF JobReads
    <3>3. j \in Jobs /\ j.todo = job.todo /\ j.live = live /\ j.at = None
      BY <3>2 DEF Jobs
    <3>4. Subjects(j) \subseteq Subjects(job)
      BY <3>2, <3>3 DEF Subjects
    <3>5. JobGoesOn(j)
      BY <3>1
    <3>6. restoring # <<>>
      BY <3>2
    <3> HIDE DEF j
    <3>7. \A q \in Subjects(j) : q \in Starts /\ Known(q) /\ ~ rec[q].mine
      BY <1>1, <3>2, <3>4
    <3> QED BY <1>5, <3>3, <3>5, <3>6, <3>7
  <2>4. ASSUME NEW p \in Starts, JobTakes(p) PROVE Restoring'
    <3> DEFINE j == [job EXCEPT !.todo = @ \ {p}, !.free = @ - 1]
    <3>1. job # None /\ job \in Jobs /\ restoring # <<>> /\ job.free # 0 /\ JobGoesOn(j)
      BY <1>1, <2>4 DEF JobTakes
    <3>2. job.free - 1 \in 0 .. Limit
      BY <3>1, LimitAssumption DEF Jobs, LimitAssumption
    <3>3. j \in Jobs /\ j.todo = job.todo \ {p} /\ j.live = job.live /\ j.at = job.at
      BY <3>1, <3>2 DEF Jobs
    <3>4. Subjects(j) \subseteq Subjects(job)
      BY <3>3 DEF Subjects
    <3>5. JobGoesOn(j)
      BY <3>1
    <3>6. restoring # <<>>
      BY <3>1
    <3> HIDE DEF j
    <3>7. \A q \in Subjects(j) : q \in Starts /\ Known(q) /\ ~ rec[q].mine
      BY <1>1, <3>1, <3>4
    <3> QED BY <1>5, <3>3, <3>5, <3>6, <3>7
  <2>5. CASE JobFails
    BY <1>1, <2>5, JobOverNext DEF JobFails
  <2> QED BY <1>6, <2>1, <2>2, <2>3, <2>4, <2>5 DEF Restore
<1>7. ASSUME NEW s \in Starts, Reserved(s) PROVE Restoring'
  <2>1. UNCHANGED job /\ restoring' \in {restoring, Append(restoring, s)}
    BY <1>7 DEF Reserved
  <2>2. Append(restoring, s) \in Seq(Starts) /\ Append(restoring, s) # <<>>
    BY <1>1
  <2> QED BY <1>1, <1>4, <2>1, <2>2
<1>8. CASE UNCHANGED restore
  BY <1>1, <1>4, <1>8 DEF restore
<1>9. Restore \/ Restart \/ UNCHANGED restore \/ \E s \in Starts : Reserved(s)
  <2>1. ASSUME NEW s \in Starts, Start(s) \/ Process(s) PROVE UNCHANGED restore \/ Reserved(s)
    BY <2>1 DEF Start, Ask, Abort, GivesUp, Launch, Discard, Spawned, SpawnFails, Identify,
       Settle, Interrupted, Clean, StartFails, Process, Save, EndStop, Flush, EndFailure, Exits, Close, Recycle
  <2>2. ASSUME NEW k \in Stops, Stop(k) PROVE UNCHANGED restore
    BY <2>2 DEF Stop, StopAsked, StopReads, StopReturns
  <2> QED BY <2>1, <2>2 DEF Next, Hydrate, vars
<1> QED BY <1>3, <1>6, <1>7, <1>8, <1>9
-----------------------------------------------------------------------------
(* The theorems. *)

IInv == Base /\ Calls /\ restarts \in 0 .. MaxRestarts

LEMMA InitIInv == Init => IInv
PROOF
<1> SUFFICES ASSUME Init PROVE IInv
  OBVIOUS
<1>1. Store
  BY DEF Init, Store, StoreTypes, Fitting, Known, Groups, Alive
<1>2. Control
  BY DEF Init, Control, Controls, Beyond, Waiting, Starting, Known, Given
<1>3. Asked
  BY DEF Init, Asked
<1>4. Restoring
  BY DEF Init, Restoring
<1>5. Room
  <2>1. {p \in Starts : Known(p) /\ rec[p].lease} = {}
    BY DEF Init, Known
  <2>2. Held = 0
    BY <2>1, FS_EmptySet DEF Held
  <2> QED BY <2>2, LimitAssumption DEF Room, LimitAssumption
<1>6. Calls /\ restarts \in 0 .. MaxRestarts
  BY LimitAssumption DEF Init, Calls, LimitAssumption
<1> QED BY <1>1, <1>2, <1>3, <1>4, <1>5, <1>6 DEF IInv, Base

LEMMA NextIInv == IInv /\ [Next]_vars => IInv'
PROOF
<1> SUFFICES ASSUME IInv, [Next]_vars PROVE IInv'
  OBVIOUS
<1>1. Base /\ Calls /\ Store /\ Control /\ Room
  BY DEF IInv, Base
<1>2. Stored /\ Moves
  BY <1>1, EveryStepStores, EveryStepMoves
<1>3. Store' /\ Control' /\ Room'
  BY <1>1, <1>2, StoreNext, ControlNext, RoomNext
<1>4. Asked' /\ Restoring'
  BY <1>1, <1>2, <1>3, AskedNext, RestoringNext
<1>5. Calls'
  BY <1>2 DEF Moves, Calls
<1>6. restarts' \in 0 .. MaxRestarts
  <2>1. UNCHANGED restarts \/ Restart
    <3>1. ASSUME NEW s \in Starts, Start(s) \/ Process(s) PROVE UNCHANGED restarts
      BY <3>1 DEF Start, Ask, Abort, Reserved, GivesUp, Launch, Discard, Spawned, SpawnFails, Identify,
         Settle, Interrupted, Clean, StartFails, Process, Save, EndStop, Flush, EndFailure, Exits, Close, Recycle
    <3>2. ASSUME NEW k \in Stops, Stop(k) PROVE UNCHANGED restarts
      BY <3>2 DEF Stop, StopAsked, StopReads, StopReturns
    <3>3. Restore => UNCHANGED restarts
      BY DEF Restore, JobBegins, JobVerifies, JobTakes, JobReads, JobFails
    <3> QED BY <3>1, <3>2, <3>3 DEF Next, Hydrate, vars
  <2> QED BY <2>1, LimitAssumption DEF IInv, Restart, LimitAssumption
<1> QED BY <1>3, <1>4, <1>5, <1>6 DEF IInv, Base

LEMMA Invariant == Spec => []IInv
PROOF
<1> QED BY InitIInv, NextIInv, PTL DEF Spec

(* Slots, records, files and processes agree at every step (processManager *)
(* keeps a slot for every live process it launched and gives it back with  *)
(* the last of its group), for every number of processes and restarts.     *)
THEOREM ProcessesSound == Spec => []Sound
PROOF
<1>1. IInv => Sound
  <2> SUFFICES ASSUME IInv PROVE Sound
    OBVIOUS
  <2>1. Store /\ Control /\ Asked /\ Restoring /\ Calls /\ restarts \in 0 .. MaxRestarts
    BY DEF IInv, Base
  <2>2. TypeOK
    BY <2>1 DEF Store, StoreTypes, Control, Asked, Restoring, Calls, TypeOK
  <2>3. \A p \in Starts : Known(p) => Fits(rec[p], os[p])
    BY <2>1 DEF Store, Fitting
  <2>4. SlotsFollowLife
    BY <2>3 DEF SlotsFollowLife, Fits, Ours, Alive
  <2>5. RecordsTruthful
    BY <2>1, <2>3 DEF RecordsTruthful, Store, Fitting, Fits, FileFits, Ours, Alive
  <2> QED BY <2>2, <2>4, <2>5 DEF Sound
<1> QED BY <1>1, Invariant, PTL

(* No group that took over a PID is ever signalled.                        *)
THEOREM StrangersSpared == Spec => []NoStranger
PROOF
<1>1. IInv => NoStranger
  BY DEF IInv, Base, Store, StoreTypes, NoStranger
<1> QED BY <1>1, Invariant, PTL
-----------------------------------------------------------------------------
(* Concurrent starts of one fingerprint. *)

Past == {"restoring", "queued"} \union Beyond

Behind(s, t) == pc[s] = "reserving" /\ t \in awaited[s]

(* Of two unsettled starts of a kind, one waits for the other. *)
Turns ==
    \A s, t \in Starts :
        s # t /\ What[s] = What[t] /\ pc[s] \notin {"idle", "ended"} /\ pc[t] \notin {"idle", "ended"}
          => Behind(s, t) \/ Behind(t, s)

(* A start whose turn has come finds nothing of its kind in use. *)
Cleared ==
    \A s, p \in Starts :
        pc[s] \in Past /\ p # s /\ What[p] = What[s] /\ Known(p) => ~ InUse(rec[p])

Reuse == Turns /\ Cleared /\ OneOfAKind

(* Nothing but a launch brings a process into use. *)
LEMMA NoNewUse ==
    ASSUME Base, Stored, NEW p \in Starts, rec'[p] # None, InUse(rec'[p])
    PROVE  (Known(p) /\ InUse(rec[p])) \/ Launched(p)
PROOF
<1>1. Known(p) => rec[p] \in Records
  BY DEF Base, Store, StoreTypes, Known
<1>2. CASE Same(p) \/ Rewritten(p) \/ Decayed(p) \/ Recycled(p)
  BY <1>2 DEF Same, Rewritten, Decayed, Recycled, Follows, Known
<1>3. CASE Identified(p) \/ Taken(p)
  BY <1>1, <1>3 DEF Identified, Taken, Records, InUse
<1>4. CASE ReadBack(p)
  <2>1. ~ InUse(Restored(p))
    BY <1>4, RestoredFits DEF ReadBack, Base, Store, StoreTypes, Fitting
  <2> QED BY <1>4, <2>1 DEF ReadBack
<1>5. CASE Removed(p) \/ Forgotten(p)
  BY <1>5 DEF Removed, Forgotten
<1> QED BY <1>2, <1>3, <1>4, <1>5 DEF Stored, Steady

LEMMA TurnsNext ==
    ASSUME Turns, Moves
    PROVE  Turns'
PROOF
<1> DEFINE Active2(s) == pc'[s] \notin {"idle", "ended"}
           BehindNext(s, t) == pc'[s] = "reserving" /\ t \in awaited'[s]
<1> SUFFICES ASSUME NEW s \in Starts, NEW t \in Starts, s # t, What[s] = What[t],
                    Active2(s), Active2(t)
             PROVE  BehindNext(s, t) \/ BehindNext(t, s)
  BY DEF Turns, Behind
<1>1. CASE UNCHANGED <<pc, awaited>>
  BY <1>1 DEF Turns, Behind
<1>2. CASE \A r \in Starts : pc'[r] = IF pc[r] = "idle" THEN "idle" ELSE "ended"
  BY <1>2
<1>3. ASSUME NEW a \in Starts, NEW b \in Starts, a # b, What[a] = What[b], Active2(a), Active2(b),
             Moved(a), pc'[b] = pc[b] /\ awaited'[b] = awaited[b]
      PROVE  BehindNext(a, b) \/ BehindNext(b, a)
  <2>1. pc[b] \notin {"idle", "ended"}
    BY <1>3
  <2>2. CASE pc[a] = "idle"
    <3>1. pc'[a] = "reserving" /\ awaited'[a] = Unsettled(a)
      BY <1>3, <2>2 DEF Moved, Waiting, Beyond, Launched
    <3>2. b \in Unsettled(a)
      BY <1>3, <2>1 DEF Unsettled
    <3> QED BY <3>1, <3>2
  <2>3. CASE pc[a] # "idle"
    <3>1. pc[a] # "ended"
      BY <1>3 DEF Moved, Waiting, Beyond, Launched
    <3>2. Behind(a, b) \/ Behind(b, a)
      BY <1>3, <2>1, <2>3, <3>1 DEF Turns
    <3>3. ~ Behind(a, b)
      BY <1>3, <2>1 DEF Behind, Moved, Waiting, Beyond, Launched
    <3> QED BY <1>3, <3>2, <3>3 DEF Behind
  <2> QED BY <2>2, <2>3
<1>4. CASE \E m \in Starts : Moved(m) /\ \A r \in Starts \ {m} : pc'[r] = pc[r] /\ awaited'[r] = awaited[r]
  <2>1. PICK m \in Starts : Moved(m) /\ \A r \in Starts \ {m} : pc'[r] = pc[r] /\ awaited'[r] = awaited[r]
    BY <1>4
  <2>2. CASE s = m
    BY <1>3, <2>1, <2>2
  <2>3. CASE t = m
    BY <1>3, <2>1, <2>3
  <2>4. CASE s # m /\ t # m
    BY <2>1, <2>4 DEF Turns, Behind
  <2> QED BY <2>2, <2>3, <2>4
<1> QED BY <1>1, <1>2, <1>4 DEF Moves

LEMMA ClearedNext ==
    ASSUME Base, Stored, Moves, Turns, Cleared
    PROVE  Cleared'
PROOF
<1> SUFFICES ASSUME NEW s \in Starts, NEW p \in Starts, pc'[s] \in Past, p # s, What[p] = What[s],
                    rec'[p] # None, InUse(rec'[p])
             PROVE  FALSE
  BY DEF Cleared, Known
<1>1. CASE Launched(p)
  <2>1. pc[p] = "queued" /\ pc'[p] # "queued" /\ pc'[p] \notin {"idle", "ended"}
    BY <1>1 DEF Launched
  <2>2. pc'[s] = pc[s]
    BY <2>1 DEF Moves
  <2>3. pc[s] \notin {"idle", "ended", "reserving"}
    BY <2>2 DEF Past, Beyond
  <2> QED BY <2>1, <2>3 DEF Turns, Behind
<1>2. CASE ~ Launched(p)
  <2>1. Known(p) /\ InUse(rec[p])
    BY <1>2, NoNewUse
  <2>2. pc[s] \notin Past
    BY <2>1 DEF Cleared
  <2>3. pc[s] = "reserving" /\ ~ Reusable(s, rec')
    BY <2>2 DEF Moves, Moved, Past, Beyond, Waiting, Launched
  <2> QED BY <2>3 DEF Reusable
<1> QED BY <1>1, <1>2

LEMMA OneOfAKindNext ==
    ASSUME Base, Stored, Turns, Cleared, OneOfAKind
    PROVE  OneOfAKind'
PROOF
<1> SUFFICES ASSUME NEW p \in Starts, NEW q \in Starts, What[p] = What[q], p # q,
                    rec'[p] # None, rec'[q] # None, InUse(rec'[p]), InUse(rec'[q])
             PROVE  FALSE
  BY DEF OneOfAKind, Known
<1>1. (Known(p) /\ InUse(rec[p])) \/ Launched(p)
  BY NoNewUse
<1>2. (Known(q) /\ InUse(rec[q])) \/ Launched(q)
  BY NoNewUse
<1>3. \A a, b \in {p, q} : a # b /\ Launched(a) => ~ (Known(b) /\ InUse(rec[b]))
  BY DEF Launched, Cleared, Past
<1>4. ~ (Launched(p) /\ Launched(q))
  BY DEF Launched, Turns, Behind
<1> QED BY <1>1, <1>2, <1>3, <1>4 DEF OneOfAKind

(* Starts of one fingerprint never run two processes, however many there   *)
(* are and whichever of them fail or give up.                              *)
THEOREM OneProcessPerKind == Spec => []OneOfAKind
PROOF
<1>1. Init => Reuse
  BY DEF Init, Reuse, Turns, Cleared, OneOfAKind, Past, Beyond, Known
<1>2. IInv /\ Reuse /\ [Next]_vars => Reuse'
  <2> SUFFICES ASSUME IInv, Reuse, [Next]_vars PROVE Reuse'
    OBVIOUS
  <2>1. Base /\ Calls
    BY DEF IInv
  <2>2. Stored /\ Moves
    BY <2>1, EveryStepStores, EveryStepMoves
  <2> QED BY <2>1, <2>2, TurnsNext, ClearedNext, OneOfAKindNext DEF Reuse
<1>3. Reuse => OneOfAKind
  BY DEF Reuse
<1> QED BY <1>1, <1>2, <1>3, Invariant, PTL DEF Spec

=============================================================================
