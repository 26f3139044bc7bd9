----------------------- MODULE OperationReceipts_proof -----------------------
(***************************************************************************)
(* What OperationReceipts keeps, for all operations, requests, failures    *)
(* and deferred writes.                                                    *)
(*                                                                         *)
(* Every operation has five copies: c in the row, s in the snapshot that   *)
(* is being written, p in the one that will be written (both are c when    *)
(* nothing is deferred), its file f and its record m.  What they must have *)
(* to do with each other is a predicate on five values, shown once for     *)
(* each way in which the code changes them; the steps follow from these.   *)
(***************************************************************************)
EXTENDS OperationReceipts, TLAPS

-----------------------------------------------------------------------------
(* Five copies. *)

(* The copy is the statement of a reconciliation. *)
Recon(x) == x.by = "reconciliation"

Copy(x) ==
    /\ x \in Entry
    /\ Running(x) => ~ x.ack /\ x.by = "run"
    /\ Recon(x) => x.st = "interrupted"

(* What comes after x in the row is not older: a result stays, and only a  *)
(* reconciled entry is replaced by a result that the memory still had.     *)
Later(x, y) ==
    /\ x.ack => y.ack
    /\ Running(y) => Running(x)
    /\ Recon(y) => Recon(x) /\ y.rev = x.rev
    /\ ~ Recon(x) => x.rev <= y.rev /\ (~ Running(x) => y.st = x.st /\ y.rev = x.rev)

Chained(c, s, p) == Copy(c) /\ Copy(s) /\ Copy(p) /\ Later(c, s) /\ Later(s, p)

(* An operation has one result, and was reconciled once. *)
Same(x, y) ==
    ~ Running(x) /\ ~ Running(y) /\ (Recon(x) <=> Recon(y)) => x.st = y.st /\ x.rev = y.rev

(* A journal is the result that the entry x of the row lacks, or one that  *)
(* the row has overtaken.                                                  *)
Beside(f, x) ==
    /\ Same(f, x)
    /\ Running(x) => x.rev < f.rev
    /\ x.ack /\ ~ f.ack => f.rev <= x.rev
    /\ Recon(f) => Recon(x)

Journaled(c, s, p, f) ==
    IsJournal(f) => Copy(f) /\ ~ Running(f) /\ Beside(f, c) /\ Beside(f, s) /\ Beside(f, p)

(* The memory has the latest result and acknowledgement, unless the row    *)
(* was reconciled.                                                         *)
Knows(m, x) ==
    /\ Same(m, x)
    /\ Running(x) => x.rev < m.rev
    /\ x.rev > m.rev => Recon(x)
    /\ x.ack => m.ack
    /\ Recon(m) => Recon(x)

KnowsFile(m, f) ==
    IsJournal(f) =>
        /\ f.rev <= m.rev /\ Same(f, m) /\ (Recon(f) => Recon(m))
        /\ f.ack /\ f.rev = m.rev => m.ack

(* A record that may be written: its handler still runs, and so says every *)
(* copy, or it holds the result.                                           *)
Writable(c, s, p, f, m) ==
    /\ m \in Record
    /\ Running(m) => ~ IsJournal(f) /\ ~ m.ack /\ m.by = "run"
    /\ m.run # "none" => /\ Running(m) /\ Running(c) /\ Running(s) /\ Running(p)
                         /\ c.rev <= m.rev /\ s.rev <= m.rev /\ p.rev <= m.rev
    /\ ~ Running(m) => Knows(m, c) /\ Knows(m, s) /\ Knows(m, p) /\ KnowsFile(m, f)
    /\ Recon(m) => m.st = "interrupted"

(* A running record that was read back is not written before it follows    *)
(* the row.                                                                *)
ReadBack(m) ==
    Running(m) /\ m.run = "none" =>
        m.dur = "persisted" /\ ~ m.repair /\ ~ m.retry /\ m.err = "none"

(* Nothing of an operation is deferred before it has a result, unless its  *)
(* handler runs.                                                           *)
Undeferred(c, s, p, m) ==
    Running(p) \/ (m # None /\ Running(m)) => (m # None /\ m.run # "none") \/ (s = c /\ p = c)

Told(x, m) == x.st = m.st /\ (m.ack => x.ack)

(* A read of x and f tells the result m, or they were reconciled. *)
Shows(x, f, m) ==
    IF ~ IsJournal(f) THEN Recon(x) \/ Told(x, m)
    ELSE \/ Disagree(f, x)
         \/ /\ Ahead(f, x) \/ (f.rev = x.rev /\ f.ack = x.ack)
            /\ Recon(f) \/ Told(f, m)
         \/ /\ ~ Ahead(f, x) /\ ~ (f.rev = x.rev /\ f.ack = x.ack)
            /\ Recon(x) \/ Told(x, m)

(* What a record says of its durability holds whichever of the deferred    *)
(* writes are done.                                                        *)
Claimed(c, s, p, f, m) ==
    /\ ~ Running(m) /\ m.dur # "memory_only" => Shows(c, f, m) /\ Shows(s, f, m) /\ Shows(p, f, m)
    /\ Recon(m) /\ m.dur = "persisted" => c.ack = m.ack
    /\ m.dur = "journaled" =>
          ~ m.repair /\ IsJournal(f) /\ f.st = m.st /\ f.rev = m.rev /\ f.ack = m.ack /\ f.by = m.by

(* Nobody remembers a deferred result: row or journal has it. *)
Orphaned(c, s, p, f) ==
    ~ Running(p) /\ ~ IsJournal(f) => (Recon(c) \/ Told(c, p)) /\ (Recon(s) \/ Told(s, p))

(* A result is about to replace a reconciliation newer than it: it is in   *)
(* its journal, or only in memory.                                         *)
Overtakes(c, p) == Recon(c) /\ ~ Recon(p) /\ p.rev < c.rev

Replacing(c, p, f, m) ==
    Overtakes(c, p) =>
        /\ m # None => ~ m.repair
        /\ \/ m # None /\ m.dur = "memory_only"
           \/ IsJournal(f) /\ f.rev = p.rev /\ f.ack = p.ack

(* Only a record that follows the reconciliation, or its journal, brings   *)
(* an acknowledgement of it.                                               *)
Agreed(c, s, p) == (Recon(s) => s.ack = c.ack) /\ (Recon(p) => p.ack = c.ack)

Follower(f, m) == IF m = None THEN IsJournal(f) /\ Recon(f) ELSE Recon(m)

Coherent(c, s, p, f, m) ==
    /\ Chained(c, s, p)
    /\ Journaled(c, s, p, f)
    /\ Undeferred(c, s, p, m)
    /\ Replacing(c, p, f, m)
    /\ ~ Follower(f, m) => Agreed(c, s, p)
    /\ m = None => Orphaned(c, s, p, f)
    /\ m # None => Writable(c, s, p, f, m) /\ ReadBack(m) /\ Claimed(c, s, p, f, m)

(* Once a result of a run can be read it is never another one, and stays   *)
(* acknowledged: from row c and file f to row d and file g.                *)
Final(c, f, d, g) ==
    LET x == Selected(c, f)
        y == Selected(d, g)
    IN x.entry # None /\ ~ Running(x.entry) /\ x.entry.by = "run" /\ ~ Reconciled(y) =>
          y.entry # None /\ y.entry.st = x.entry.st /\ (x.entry.ack => y.entry.ack)

LEMMA LaterTwice ==
    ASSUME NEW x, NEW y, NEW z, Copy(x), Copy(y), Copy(z), Later(x, y), Later(y, z)
    PROVE  Later(x, z)
PROOF BY DEF Later, Copy, Entry, Running, Recon

LEMMA Collapses ==
    ASSUME NEW c, NEW s, NEW p, NEW f, NEW m, Coherent(c, s, p, f, m),
           NEW d, NEW t, NEW q,
           \/ d = c /\ t = c /\ q = c
           \/ d = p /\ t = p /\ q = p
           \/ d = c /\ t = p /\ q = p
           \/ d = s /\ t = p /\ q = p
           \/ d = s /\ t = s /\ q = s
    PROVE  Coherent(d, t, q, f, m)
PROOF
<1> USE DEF Coherent, Chained
<1>1. Chained(d, t, q)
  <2>1. Later(c, p)
    BY LaterTwice
  <2>2. Later(c, c) /\ Later(s, s) /\ Later(p, p)
    BY DEF Later, Copy, Entry
  <2> QED BY <2>1, <2>2
<1>2. Journaled(d, t, q, f)
  BY DEF Journaled
<1>3. Undeferred(d, t, q, m)
  BY DEF Undeferred, Later, Writable
<1>4. Replacing(d, q, f, m)
  BY DEF Replacing, Overtakes, Later, Copy, Entry
<1>5. ~ Follower(f, m) => Agreed(d, t, q)
  BY DEF Agreed, Later
<1>6. m = None => Orphaned(d, t, q, f)
  BY DEF Orphaned, Told, Later
<1>7. ASSUME m # None
      PROVE  Writable(d, t, q, f, m) /\ ReadBack(m) /\ Claimed(d, t, q, f, m)
  <2>1. Writable(d, t, q, f, m)
    BY <1>7 DEF Writable
  <2>2. Recon(m) /\ m.dur = "persisted" => d.ack = m.ack
    <3>1. ASSUME Recon(m), m.dur = "persisted"
          PROVE  c.ack = m.ack /\ s.ack = m.ack /\ p.ack = m.ack
      BY <1>7, <3>1 DEF Claimed, Later, Writable, Knows, Running, Recon, Copy, Entry, Record
    <3> QED BY <3>1
  <2> QED BY <1>7, <2>1, <2>2 DEF Claimed
<1> QED BY <1>1, <1>2, <1>3, <1>4, <1>5, <1>6, <1>7

LEMMA CollapsesFinal ==
    ASSUME NEW c, NEW s, NEW p, NEW f, NEW m, Coherent(c, s, p, f, m), NEW d \in {c, s, p}
    PROVE  Final(c, f, d, f)
PROOF
<1> QED BY NoCopyAssumption DEF Final, Selected, Reconciled, Coherent, Chained, Copy, Later, Journaled, Beside, Same, Ahead, Disagree, IsJournal, Running, Recon

-----------------------------------------------------------------------------
(* Writing a record. *)

(* x says what m says. *)
Says(x, m) == x \in Entry /\ x.st = m.st /\ x.rev = m.rev /\ x.ack = m.ack /\ x.by = m.by

(* n is m with another durability. *)
Carries(n, m) ==
    /\ n \in Record
    /\ n.st = m.st /\ n.rev = m.rev /\ n.ack = m.ack /\ n.by = m.by /\ n.run = m.run

(* What a write of x, the entry of m, makes of the copies in the row: it   *)
(* is done, refused, or joins the deferred one.                            *)
RowWritten(c, s, p, x, err, d, t, q) ==
    \/ d = x /\ t = x /\ q = x
    \/ d = c /\ t = c /\ q = c /\ err # "none"
    \/ /\ d = c /\ t = s /\ q = x
       /\ err = "none" => c.st = x.st /\ c.rev = x.rev /\ c.ack = x.ack

(* And of file and record. *)
FileWritten(f, m, err, g, n) ==
    \/ err = "none" /\ g = Pointer /\ n.dur = "persisted" /\ ~ n.repair
    \/ err = "none" /\ g = f /\ n.dur = "persisted"
    \/ err # "none" /\ ~ Running(m) /\ Says(g, m) /\ n.dur = "journaled" /\ ~ n.repair
    \/ err # "none" /\ g = f /\ n.dur = "memory_only" /\ ~ n.repair

(* What is known of one copy y in the row. *)
Known(y, f, m) ==
    /\ Copy(y)
    /\ m.run # "none" => Running(y) /\ y.rev <= m.rev
    /\ ~ Running(m) => Knows(m, y)
    /\ IsJournal(f) => Beside(f, y)

LEMMA WritableKnown ==
    ASSUME NEW c, NEW s, NEW p, NEW f, NEW m
    PROVE  Chained(c, s, p) /\ Journaled(c, s, p, f) /\ Writable(c, s, p, f, m)
              <=> /\ Known(c, f, m) /\ Known(s, f, m) /\ Known(p, f, m)
                  /\ Later(c, s) /\ Later(s, p)
                  /\ IsJournal(f) => Copy(f) /\ ~ Running(f)
                  /\ m \in Record
                  /\ Running(m) => ~ IsJournal(f) /\ ~ m.ack /\ m.by = "run"
                  /\ m.run # "none" => Running(m)
                  /\ ~ Running(m) => KnowsFile(m, f)
                  /\ Recon(m) => m.st = "interrupted"
PROOF BY DEF Chained, Journaled, Writable, Known

LEMMA SaysKnown ==
    ASSUME NEW f, NEW m, NEW x, Says(x, m), m \in Record,
           IsJournal(f) => Copy(f) /\ ~ Running(f),
           Running(m) => ~ IsJournal(f) /\ ~ m.ack /\ m.by = "run",
           m.run # "none" => Running(m),
           ~ Running(m) => KnowsFile(m, f),
           Recon(m) => m.st = "interrupted"
    PROVE  Known(x, f, m)
PROOF
<1>1. Copy(x)
  BY DEF Says, Copy, Running, Recon, Record
<1>2. ~ Running(m) => Knows(m, x)
  BY DEF Says, Knows, Same, Running, Recon, Record
<1>3. IsJournal(f) => Beside(f, x)
  BY DEF Says, KnowsFile, Beside, Same, Running, Recon, Record, Copy, Entry
<1> QED BY <1>1, <1>2, <1>3 DEF Known, Says, Running, Record

LEMMA FileWrittenKnown ==
    ASSUME NEW f, NEW m, NEW g, NEW n, NEW err, m \in Record, Carries(n, m), FileWritten(f, m, err, g, n),
           NEW y, Known(y, f, m)
    PROVE  Known(y, g, n)
PROOF
<1>1. ~ Running(n) => Knows(n, y)
  BY DEF Known, Carries, Knows, Same, Running, Recon
<1>2. Says(g, m) /\ ~ Running(m) => Beside(g, y)
  BY DEF Known, Says, Knows, Beside, Same, Running, Recon, Copy, Entry, Record
<1>3. IsJournal(g) => Beside(g, y)
  BY <1>2 DEF FileWritten, Known, IsJournal
<1> QED BY <1>1, <1>3 DEF Known, Carries, Running

LEMMA WriteKeeps ==
    ASSUME NEW c, NEW s, NEW p, NEW f, NEW m, NEW x, NEW err, NEW d, NEW t, NEW q, NEW g, NEW n,
           Chained(c, s, p), Journaled(c, s, p, f), ~ Recon(m) => Agreed(c, s, p),
           Writable(c, s, p, f, m), Running(m) => m.run # "none",
           Says(x, m), RowWritten(c, s, p, x, err, d, t, q),
           Carries(n, m), FileWritten(f, m, err, g, n)
    PROVE  Coherent(d, t, q, g, n) /\ Final(c, f, d, g)
PROOF
<1>0. /\ Known(c, f, m) /\ Known(s, f, m) /\ Known(p, f, m)
      /\ Later(c, s) /\ Later(s, p)
      /\ IsJournal(f) => Copy(f) /\ ~ Running(f)
      /\ m \in Record
      /\ Running(m) => ~ IsJournal(f) /\ ~ m.ack /\ m.by = "run"
      /\ m.run # "none" => Running(m)
      /\ ~ Running(m) => KnowsFile(m, f)
      /\ Recon(m) => m.st = "interrupted"
  BY WritableKnown
<1>1. /\ x \in Entry /\ n \in Record /\ n # None
      /\ IsJournal(g) => g = f \/ (Says(g, m) /\ ~ Running(m))
      /\ Says(g, m) => IsJournal(g)
  BY <1>0, NoCopyAssumption DEF Says, Carries, FileWritten, IsJournal
<1>2. Known(x, f, m)
  BY <1>0, SaysKnown
<1>3. /\ Known(c, g, n) /\ Known(s, g, n) /\ Known(x, g, n)
  BY <1>0, <1>2, FileWrittenKnown
<1>4. Later(s, x) /\ Later(c, x) /\ Later(x, x) /\ Later(c, c)
  <2>1. ASSUME NEW y, Known(y, f, m)
        PROVE  Later(y, x)
    <3>1. CASE Running(m)
      BY <2>1, <3>1, <1>0 DEF Says, Later, Known, Running, Recon, Copy, Entry, Record
    <3>2. CASE ~ Running(m)
      BY <2>1, <3>2, <1>0 DEF Says, Later, Known, Knows, Same, Running, Recon, Copy, Entry, Record
    <3> QED BY <3>1, <3>2
  <2>2. Later(c, c)
    BY <1>0 DEF Later, Known, Copy, Entry
  <2> QED BY <1>0, <1>2, <2>1, <2>2
<1>5. /\ Known(d, g, n) /\ Known(t, g, n) /\ Known(q, g, n)
      /\ Later(d, t) /\ Later(t, q)
  BY <1>0, <1>3, <1>4 DEF RowWritten
<1>6. IsJournal(g) => Copy(g) /\ ~ Running(g)
  BY <1>0, <1>1 DEF Says, Copy, Running, Recon
<1>7. /\ Running(n) => ~ IsJournal(g) /\ ~ n.ack /\ n.by = "run"
      /\ n.run # "none" => Running(n)
      /\ Recon(n) => n.st = "interrupted"
  BY <1>0, <1>1 DEF Carries, Running, Recon
<1>8. ~ Running(n) => KnowsFile(n, g)
  BY <1>0, <1>1 DEF Carries, Running, Recon, KnowsFile, Says, Same, Record
<1>9. Chained(d, t, q) /\ Journaled(d, t, q, g) /\ Writable(d, t, q, g, n)
  BY <1>1, <1>5, <1>6, <1>7, <1>8, WritableKnown
<1>10. Undeferred(d, t, q, n)
  BY <1>0, <1>1 DEF Undeferred, RowWritten, Carries, Running, Says
<1>11. Replacing(d, q, g, n)
  BY <1>1 DEF Replacing, Overtakes, RowWritten, FileWritten, Says, Recon, Carries, Entry
<1>12. ~ Recon(n) => Agreed(d, t, q)
  BY DEF Agreed, RowWritten, Says, Recon, Carries
<1>13. ReadBack(n)
  BY DEF ReadBack, Carries, Running
<1>14. Claimed(d, t, q, g, n)
  <2>1. ASSUME ~ Running(n), n.dur # "memory_only"
        PROVE Shows(d, g, n) /\ Shows(t, g, n) /\ Shows(q, g, n)
    <3>1. CASE n.dur = "journaled"
      BY <1>1, <1>5, <2>1, <3>1 DEF Shows, Told, FileWritten, Known, Says, Carries, Knows, Same, Disagree, Ahead, Running, Recon, Entry, Record, Copy
    <3>2. CASE n.dur # "journaled"
      <4>1. err = "none" /\ (g = Pointer \/ g = f)
        BY <2>1, <3>2 DEF FileWritten
      <4>2. ASSUME NEW y, Known(y, g, n), y.rev = n.rev, Recon(y) \/ Told(y, n)
            PROVE  Shows(y, g, n)
        BY <1>1, <1>6, <1>8, <2>1, <4>2 DEF Shows, Told, Known, KnowsFile, Same, Disagree, Ahead, Running, Recon, Entry, Record, Copy
      <4>3. d.rev = n.rev /\ Told(d, n)
        BY <4>1 DEF RowWritten, Told, Says, Carries
      <4>4. q.rev = n.rev /\ Told(q, n)
        BY <4>1 DEF RowWritten, Told, Says, Carries
      <4>5. t.rev = n.rev /\ (Recon(t) \/ Told(t, n))
        BY <1>1, <1>5, <2>1, <4>3 DEF Told, Later, Running, Recon, Known, Knows, Same, Copy
      <4> QED BY <1>5, <4>2, <4>3, <4>4, <4>5
    <3> QED BY <3>1, <3>2
  <2>2. Recon(n) /\ n.dur = "persisted" => d.ack = n.ack
    BY DEF RowWritten, FileWritten, Says, Carries
  <2>3. n.dur = "journaled" => ~ n.repair /\ IsJournal(g) /\ g.st = n.st /\ g.rev = n.rev /\ g.ack = n.ack /\ g.by = n.by
    BY <1>1 DEF FileWritten, Says, Carries
  <2> QED BY <2>1, <2>2, <2>3 DEF Claimed
<1>15. Final(c, f, d, g)
  <2> DEFINE a == Selected(c, f)
             b == Selected(d, g)
  <2> SUFFICES ASSUME a.entry # None, ~ Running(a.entry), a.entry.by = "run", ~ Reconciled(b)
               PROVE  b.entry # None /\ b.entry.st = a.entry.st /\ (a.entry.ack => b.entry.ack)
    BY DEF Final
  <2>1. \/ a.entry = c
        \/ /\ IsJournal(f) /\ a.entry = f /\ ~ Disagree(f, c)
           /\ Ahead(f, c) \/ (f.rev = c.rev /\ f.ack = c.ack)
    BY <1>0, NoCopyAssumption DEF Selected, Known, Copy
  <2>2. ~ Running(m)
    BY <1>0, <2>1 DEF Known, Running
  <2>3. ~ Recon(m)
    BY <1>0, <2>1, <2>2 DEF Known, Knows, KnowsFile, Same, Ahead, Disagree, Running, Recon, Copy, Entry, Record
  <2>4. a.entry.st = m.st /\ (a.entry.ack => m.ack)
    BY <1>0, <2>1, <2>2, <2>3 DEF Known, Knows, KnowsFile, Same, Running, Recon, Copy, Entry, Record
  <2>5. /\ b.entry # None /\ ~ Recon(b.entry)
        /\ \/ b.entry = d /\ (IsJournal(g) => ~ Ahead(g, d) /\ ~ (g.rev = d.rev /\ g.ack = d.ack))
           \/ /\ IsJournal(g) /\ b.entry = g
              /\ Ahead(g, d) \/ (g.rev = d.rev /\ g.ack = d.ack)
    BY <1>5, <1>6, NoCopyAssumption DEF Selected, Reconciled, Known, Copy, Recon
  <2>6. \/ d = c /\ g = f
        \/ d.rev = m.rev /\ d.st = m.st /\ d.ack = m.ack
        \/ Says(g, m)
    BY DEF RowWritten, FileWritten, Says
  <2>7. CASE d = c /\ g = f
    BY <2>5, <2>7
  <2>8. CASE d.rev = m.rev /\ d.st = m.st /\ d.ack = m.ack
    BY <1>0, <1>1, <2>2, <2>3, <2>4, <2>5, <2>8 DEF KnowsFile, Same, Ahead, Says, Running, Recon, Copy, Entry, Record
  <2>9. CASE Says(g, m)
    BY <1>0, <1>1, <1>5, <2>2, <2>3, <2>4, <2>5, <2>9 DEF Carries, Known, Knows, Same, Ahead, Says, Running, Recon, Copy, Entry, Record
  <2> QED BY <2>6, <2>7, <2>8, <2>9
<1> QED BY <1>1, <1>9, <1>10, <1>11, <1>12, <1>13, <1>14, <1>15 DEF Coherent, Follower

-----------------------------------------------------------------------------
(* Records that may be written. *)

LEMMA RetriesWritable ==
    ASSUME NEW c, NEW s, NEW p, NEW f, NEW m, m # None, Coherent(c, s, p, f, m)
    PROVE  Writable(c, s, p, f, m) /\ (~ Recon(m) => Agreed(c, s, p))
PROOF BY DEF Coherent, Follower

(* Another phase, or a request to stop. *)
LEMMA AdvancesWritable ==
    ASSUME NEW c, NEW s, NEW p, NEW f, NEW m, m # None, Coherent(c, s, p, f, m), m.run # "none",
           NEW n, n \in Record, n.run # "none",
           n.st = m.st, n.rev = m.rev + 1, n.ack = m.ack, n.by = m.by
    PROVE  Writable(c, s, p, f, n) /\ (~ Recon(n) => Agreed(c, s, p))
PROOF BY DEF Coherent, Follower, Chained, Copy, Writable, Running, Recon, Entry, Record

(* The result of the run. *)
LEMMA ResultWritable ==
    ASSUME NEW c, NEW s, NEW p, NEW f, NEW m, m # None, Coherent(c, s, p, f, m), m.run # "none",
           NEW n, n \in Record, n.run = "none", ~ Running(n),
           n.rev = m.rev + 1, n.ack = m.ack, n.by = m.by
    PROVE  Writable(c, s, p, f, n) /\ (~ Recon(n) => Agreed(c, s, p))
PROOF BY DEF Coherent, Follower, Chained, Copy, Writable, Knows, KnowsFile, Same, Running, Recon, Entry, Record

LEMMA AcknowledgedWritable ==
    ASSUME NEW c, NEW s, NEW p, NEW f, NEW m, m # None, Coherent(c, s, p, f, m), ~ Running(m),
           NEW n, n \in Record, n.run = m.run, n.st = m.st, n.rev = m.rev, n.ack, n.by = m.by
    PROVE  Writable(c, s, p, f, n) /\ (~ Recon(n) => Agreed(c, s, p))
PROOF BY DEF Coherent, Follower, Writable, Knows, KnowsFile, Same, Running, Recon

(* The record of an operation that is found interrupted. *)
LEMMA InterruptedWritable ==
    ASSUME NEW c, NEW s, NEW p, NEW f, Coherent(c, s, p, f, None), Running(p), ~ IsJournal(f),
           NEW n, n \in Record, n.run = "none",
           n.st = "interrupted", n.rev = p.rev + 1, n.ack = p.ack, n.by = "recovery"
    PROVE  Writable(c, s, p, f, n) /\ (~ Recon(n) => Agreed(c, s, p))
PROOF BY DEF Coherent, Follower, Undeferred, Chained, Copy, Writable, Knows, KnowsFile, Same, Running, Recon, Entry, Record

-----------------------------------------------------------------------------
(* Changes of the record alone. *)

LEMMA RunStarts ==
    ASSUME NEW c, NEW s, NEW p, NEW f, NEW m, m # None, Coherent(c, s, p, f, m), m.run # "none",
           NEW n, n \in Record, n.run # "none", n.st = m.st, n.rev = m.rev, n.ack = m.ack, n.by = m.by,
           n.dur = m.dur, n.repair = m.repair
    PROVE  Coherent(c, s, p, f, n)
PROOF
<1>1. n # None
  BY NoCopyAssumption
<1>2. Running(m) /\ Running(n)
  BY DEF Coherent, Writable, Running
<1> QED BY <1>1, <1>2 DEF Coherent, Follower, Undeferred, Replacing, Chained, Copy, Writable, ReadBack, Claimed, Recon

LEMMA CancelsReadBack ==
    ASSUME NEW c, NEW s, NEW p, NEW f, NEW m, m # None, Coherent(c, s, p, f, m), m.run = "none", Running(m),
           NEW n, n \in Record, n.run = "none", n.st = m.st, n.rev = m.rev + 1, n.ack = m.ack, n.by = m.by,
           n.dur = m.dur, n.repair = m.repair, n.retry = m.retry, n.err = m.err
    PROVE  Coherent(c, s, p, f, n)
PROOF
<1>1. n # None
  BY NoCopyAssumption
<1> QED BY <1>1 DEF Coherent, Follower, Undeferred, Replacing, Overtakes, Chained, Copy, Writable, ReadBack, Claimed, Knows, KnowsFile, Same, Running, Recon, Entry, Record, Later

LEMMA ReadsJournal ==
    ASSUME NEW c, NEW s, NEW p, NEW f, Coherent(c, s, p, f, None), IsJournal(f), ~ Disagree(f, p),
           Ahead(f, p) \/ (f.rev = p.rev /\ f.ack = p.ack),
           NEW n, n \in Record, Says(f, n), n.run = "none", n.dur = "journaled", ~ n.repair
    PROVE  Coherent(c, s, p, f, n)
PROOF
<1>1. n # None
  BY NoCopyAssumption
<1>2. ~ Running(n)
  BY DEF Coherent, Journaled, Says, Running
<1>3. KnowsFile(n, f)
  BY <1>1, <1>2 DEF Says, KnowsFile, Same, Recon, Record
<1>4. Knows(n, c) /\ Knows(n, s) /\ Knows(n, p)
  BY <1>1, <1>2 DEF Coherent, Chained, Copy, Journaled, Beside, Later, Says, Knows, Same, Ahead, Disagree, Running, Recon, Entry, Record
<1>5. Shows(c, f, n) /\ Shows(s, f, n) /\ Shows(p, f, n)
  BY <1>1, <1>2 DEF Coherent, Chained, Copy, Journaled, Beside, Later, Says, Knows, Same, Ahead, Disagree, Running, Recon, Entry, Record, Shows, Told
<1>6. Writable(c, s, p, f, n)
  BY <1>2, <1>3, <1>4 DEF Writable, Says, Coherent, Journaled, Copy, Running, Recon
<1>7. Claimed(c, s, p, f, n)
  BY <1>2, <1>5 DEF Claimed, Says
<1>8. Undeferred(c, s, p, n) /\ Replacing(c, p, f, n) /\ ReadBack(n)
  BY <1>1, <1>2 DEF Coherent, Undeferred, Replacing, ReadBack, Running
<1>9. ~ Follower(f, n) => Agreed(c, s, p)
  BY <1>1 DEF Coherent, Follower, Says, Recon
<1> QED BY <1>1, <1>6, <1>7, <1>8, <1>9 DEF Coherent

LEMMA ReadsRow ==
    ASSUME NEW c, NEW s, NEW p, NEW f, NEW m, Coherent(c, s, p, f, m), ~ IsJournal(f),
           m # None => Running(m) /\ m.run = "none",
           NEW n, n \in Record, Says(p, n), n.run = "none", n.dur = "persisted", ~ n.repair, ~ n.retry, n.err = "none"
    PROVE  Coherent(c, s, p, f, n)
PROOF
<1>1. n # None
  BY NoCopyAssumption
<1>2. /\ Copy(c) /\ Copy(s) /\ Copy(p) /\ Later(c, s) /\ Later(s, p)
      /\ Running(p) => s = c /\ p = c
  BY DEF Coherent, Chained, Undeferred
<1>3. CASE Running(p)
  <2>1. Running(n)
    BY <1>3 DEF Says, Running
  <2>2. Writable(c, s, p, f, n)
    BY <1>2, <1>3, <2>1 DEF Writable, Says, Copy, Recon, Running
  <2>3. Undeferred(c, s, p, n) /\ Replacing(c, p, f, n)
    BY <1>2, <1>3 DEF Undeferred, Replacing, Overtakes
  <2>4. Agreed(c, s, p)
    BY <1>2, <1>3 DEF Agreed
  <2> QED BY <1>1, <2>1, <2>2, <2>3, <2>4 DEF Coherent, Claimed, ReadBack, Recon, Writable
<1>4. CASE ~ Running(p)
  <2>1. ~ Running(n)
    BY <1>4 DEF Says, Running
  <2>2. (Recon(c) \/ Told(c, p)) /\ (Recon(s) \/ Told(s, p)) /\ Told(p, p)
    BY <1>4 DEF Coherent, Orphaned, Undeferred, Told
  <2>3. ASSUME NEW x \in {c, s, p}
        PROVE  Knows(n, x)
    BY <1>1, <1>2, <1>4, <2>1, <2>2 DEF Told, Later, Says, Knows, Same, Running, Recon, Copy, Entry, Record
  <2>4. Writable(c, s, p, f, n)
    BY <1>2, <2>1, <2>3 DEF Writable, KnowsFile, Says, Copy, Recon
  <2>5. Shows(c, f, n) /\ Shows(s, f, n) /\ Shows(p, f, n)
    BY <2>2 DEF Shows, Told, Says, Recon
  <2>6. ~ Overtakes(c, p)
    BY DEF Coherent, Replacing, Overtakes, Undeferred
  <2>7. Agreed(c, s, p)
    BY DEF Coherent, Follower, Undeferred, Agreed
  <2>8. Recon(n) => c.ack = n.ack
    BY <2>7 DEF Agreed, Says, Recon
  <2>9. Claimed(c, s, p, f, n)
    BY <2>5, <2>8 DEF Claimed
  <2> QED BY <1>1, <2>1, <2>4, <2>6, <2>7, <2>9 DEF Coherent, Undeferred, Replacing, ReadBack
<1> QED BY <1>3, <1>4

LEMMA Forgets ==
    ASSUME NEW c, NEW s, NEW p, NEW f, NEW m, m # None, Coherent(c, s, p, f, m), ~ Running(m), m.dur # "memory_only"
    PROVE  Coherent(c, s, p, f, None)
PROOF
<1>1. Undeferred(c, s, p, None)
  BY DEF Coherent, Undeferred, Writable
<1>2. Replacing(c, p, f, None)
  BY DEF Coherent, Replacing
<1>3. ~ Follower(f, None) => Agreed(c, s, p)
  BY DEF Coherent, Follower, Agreed, Claimed, Chained, Later, Writable, Knows, Recon, Running, Copy, Entry, Record
<1>4. Orphaned(c, s, p, f)
  BY DEF Coherent, Orphaned, Told, Claimed, Shows, Chained, Later, Writable, Knows, Recon, Running, Copy, Entry, Record
<1> QED BY <1>1, <1>2, <1>3, <1>4 DEF Coherent

LEMMA Crashes ==
    ASSUME NEW c, NEW s, NEW p, NEW f, NEW m, Coherent(c, s, p, f, m)
    PROVE  Coherent(c, c, c, f, None)
PROOF BY DEF Coherent, Chained, Later, Copy, Entry, Journaled, Undeferred, Replacing, Overtakes, Agreed, Orphaned, Told

(* The row is reconciled: nobody waits for a handler, and nothing is       *)
(* deferred.                                                               *)
LEMMA Reconciles ==
    ASSUME NEW c, NEW f, NEW m, Coherent(c, c, c, f, m), m # None => m.run = "none",
           ~ Recon(c), c.st \in {"running", "interrupted"},
           NEW d, d \in Entry, d.st = "interrupted", d.rev = c.rev + 1, d.ack = c.ack, d.by = "reconciliation"
    PROVE  Coherent(d, d, d, f, m) /\ Final(c, f, d, f)
PROOF
<1>1. Copy(c) /\ Copy(d) /\ Later(d, d) /\ ~ Running(d) /\ Recon(d)
  BY DEF Coherent, Chained, Copy, Later, Running, Recon, Entry
<1>2. Chained(d, d, d)
  BY <1>1 DEF Chained
<1>3. Journaled(d, d, d, f)
  BY <1>1 DEF Coherent, Journaled, Beside, Same, Recon, Copy, Entry, Running
<1>4. Undeferred(d, d, d, m) /\ Replacing(d, d, f, m) /\ Agreed(d, d, d)
  BY <1>1 DEF Undeferred, Replacing, Overtakes, Agreed
<1>5. m = None => Orphaned(d, d, d, f)
  BY <1>1 DEF Orphaned
<1>6. ASSUME m # None
      PROVE  Writable(d, d, d, f, m) /\ ReadBack(m) /\ Claimed(d, d, d, f, m)
  <2>1. ~ Recon(m)
    BY <1>6 DEF Coherent, Writable, Knows, Running, Recon
  <2>2. ~ Running(m) => Knows(m, d)
    BY <1>1, <1>6, <2>1 DEF Coherent, Writable, Knows, Same, Running, Recon, Copy, Entry, Record
  <2>3. Writable(d, d, d, f, m)
    BY <1>6, <2>2 DEF Coherent, Writable
  <2>4. ~ Running(m) /\ m.dur # "memory_only" => Shows(d, f, m)
    BY <1>1, <1>6, <2>1 DEF Coherent, Claimed, Shows, Told, Ahead, Disagree, Journaled, Beside, Same, Running, Recon, Copy, Entry, Writable, KnowsFile, Record
  <2> QED BY <1>6, <2>1, <2>3, <2>4 DEF Coherent, Claimed
<1>7. Final(c, f, d, f)
  BY <1>1, NoCopyAssumption DEF Coherent, Final, Selected, Reconciled, Journaled, Beside, Same, Ahead, Disagree, IsJournal, Running, Recon, Copy, Entry
<1> QED BY <1>2, <1>3, <1>4, <1>5, <1>6, <1>7 DEF Coherent

LEMMA Accepts ==
    ASSUME NEW c, NEW f, NEW m, c \in Entry, Running(c), ~ c.ack, c.by = "run", ~ IsJournal(f),
           m # None => /\ m \in Record /\ Running(m) /\ m.run # "none" /\ ~ m.ack /\ m.by = "run"
                       /\ c.rev <= m.rev /\ m.dur = "persisted"
    PROVE  Coherent(c, c, c, f, m)
PROOF
<1>1. Chained(c, c, c)
  BY DEF Chained, Copy, Later, Recon, Running, Entry
<1> QED BY <1>1 DEF Coherent, Journaled, Undeferred, Replacing, Overtakes, Agreed, Orphaned, Writable, ReadBack, Claimed, Recon, Running

-----------------------------------------------------------------------------
(* Repairing a pointer. *)

(* A record read back beside a journal that the row has overtaken. *)
LEMMA OvertakenWritable ==
    ASSUME NEW c, NEW s, NEW p, NEW f, Coherent(c, s, p, f, None), IsJournal(f), ~ Disagree(f, p),
           ~ Ahead(f, p), ~ (f.rev = p.rev /\ f.ack = p.ack),
           NEW n, n \in Record, Says(p, n), n.run = "none"
    PROVE  /\ ~ Running(n) /\ Writable(c, s, p, f, n) /\ (~ Recon(n) => Agreed(c, s, p))
           /\ ~ Overtakes(c, p) /\ Undeferred(c, s, p, n)
PROOF
<1>1. /\ Copy(c) /\ Copy(s) /\ Copy(p) /\ Copy(f) /\ ~ Running(f) /\ Beside(f, c) /\ Beside(f, s) /\ Beside(f, p)
      /\ Later(c, s) /\ Later(s, p) /\ Later(c, p) /\ Later(p, p)
  BY LaterTwice DEF Coherent, Chained, Journaled, Later, Copy, Entry
<1>2. ~ Running(p)
  BY <1>1 DEF Beside, Ahead, Copy, Entry
<1>3. ~ Running(n)
  BY <1>2 DEF Says, Running
<1>4. ASSUME NEW x, Copy(x), Beside(f, x), Later(x, p)
      PROVE  Knows(n, x)
  BY <1>1, <1>2, <1>4 DEF Says, Beside, Later, Knows, Same, Ahead, Running, Recon, Copy, Entry, Record
<1>5. KnowsFile(n, f)
  BY <1>1, <1>2 DEF Says, Beside, KnowsFile, Same, Ahead, Running, Recon, Copy, Entry, Record
<1>6. Writable(c, s, p, f, n)
  BY <1>1, <1>3, <1>4, <1>5 DEF Writable, Says, Copy, Recon
<1>7. ~ Recon(n) => Agreed(c, s, p)
  BY <1>1 DEF Coherent, Follower, Beside, Says, Recon
<1>8. ~ Overtakes(c, p) /\ Undeferred(c, s, p, n)
  BY <1>2, <1>3 DEF Coherent, Replacing, Undeferred
<1> QED BY <1>3, <1>6, <1>7, <1>8

LEMMA RefusedRepairKeeps ==
    ASSUME NEW c, NEW s, NEW p, NEW f, NEW m, Chained(c, s, p), Journaled(c, s, p, f),
           ~ Recon(m) => Agreed(c, s, p), Writable(c, s, p, f, m), Running(m) => m.run # "none",
           ~ Overtakes(c, p), Undeferred(c, s, p, m), Claimed(c, s, p, f, m), m.dur # "journaled",
           NEW n, Carries(n, m), n.dur = m.dur
    PROVE  Coherent(c, s, p, f, n)
PROOF
<1>1. n # None /\ m # None
  BY NoCopyAssumption DEF Carries, Writable
<1>2. Writable(c, s, p, f, n)
  BY DEF Writable, Carries, Knows, KnowsFile, Same, Running, Recon
<1>3. Claimed(c, s, p, f, n)
  BY DEF Claimed, Carries, Shows, Told, Running, Recon
<1> QED BY <1>1, <1>2, <1>3 DEF Coherent, Undeferred, Replacing, Follower, ReadBack, Carries, Running, Recon

LEMMA RepairKeeps ==
    ASSUME NEW c, NEW s, NEW p, NEW f, NEW m, Chained(c, s, p), Journaled(c, s, p, f),
           ~ Recon(m) => Agreed(c, s, p), Writable(c, s, p, f, m), Running(m) => m.run # "none",
           ~ Overtakes(c, p), ~ Running(c),
           IsJournal(f) => ~ Ahead(f, c) /\ ~ Disagree(f, c),
           ~ Ahead(m, c), ~ Disagree(m, c),
           NEW n, n \in Record, n.run = "none", n.dur = "persisted",
           IF c.rev > m.rev THEN Says(c, n)
           ELSE n.st = m.st /\ n.rev = m.rev /\ n.by = m.by /\ n.ack = (m.ack \/ c.ack),
           NEW g, (g = Pointer /\ ~ n.repair) \/ g = f
    PROVE  Coherent(c, s, p, g, n) /\ Final(c, f, c, g)
PROOF
<1>1. /\ Copy(c) /\ Copy(s) /\ Copy(p) /\ Later(c, s) /\ Later(s, p)
      /\ ~ Running(m) /\ ~ Running(s) /\ ~ Running(p)
      /\ m \in Record /\ Knows(m, c) /\ Knows(m, s) /\ Knows(m, p) /\ KnowsFile(m, f)
      /\ Recon(m) => m.st = "interrupted"
  BY DEF Chained, Writable, Later
<1>2. n # None /\ (IsJournal(g) => g = f) /\ IsJournal(f) \in BOOLEAN
  BY NoCopyAssumption DEF IsJournal
<1>3. ~ Running(n)
  BY <1>1 DEF Says, Running
(* What the row was reconciled to is in all its copies. *)
<1>4. ASSUME c.rev > m.rev
      PROVE  ~ Recon(m) /\ Recon(c) /\ Recon(s) /\ Recon(p) /\ Recon(n)
  <2>1. Recon(c) /\ ~ Recon(m)
    BY <1>1, <1>4 DEF Knows, Same, Copy, Entry, Record
  <2>2. Recon(p)
    BY <1>1, <1>4, <2>1 DEF Knows, Same, Overtakes, Copy, Entry, Record
  <2> QED BY <1>1, <1>4, <2>1, <2>2 DEF Later, Says, Recon
<1>5. ASSUME ~ (c.rev > m.rev)
      PROVE  /\ n.rev = m.rev /\ n.by = m.by /\ n.st = m.st /\ n.ack = m.ack
             /\ c.rev = n.rev /\ c.by = n.by /\ c.st = n.st /\ c.ack = n.ack
  BY <1>1, <1>5 DEF Ahead, Disagree, Knows, Copy, Entry, Record
<1>6. /\ n.rev = c.rev /\ n.st = c.st /\ n.ack = c.ack /\ n.by = c.by
      /\ m.rev <= n.rev /\ (~ Recon(n) => ~ Recon(m))
  BY <1>1, <1>4, <1>5 DEF Says, Recon, Copy, Entry, Record
<1>7. Agreed(c, s, p) \/ Recon(m)
  OBVIOUS
<1>8. Knows(n, c) /\ Knows(n, s) /\ Knows(n, p)
  <2>1. CASE c.rev > m.rev
    BY <1>1, <1>3, <1>4, <1>6, <1>7, <2>1 DEF Agreed, Knows, Same, Later, Running, Recon, Copy, Entry, Record
  <2>2. CASE ~ (c.rev > m.rev)
    BY <1>1, <1>5, <2>2 DEF Knows, Same, Running, Recon
  <2> QED BY <2>1, <2>2
<1>9. KnowsFile(n, g)
  <2>1. CASE c.rev > m.rev
    BY <1>1, <1>2, <1>3, <1>4, <1>6, <2>1 DEF KnowsFile, Journaled, Beside, Same, Ahead, Running, Recon, Copy, Entry, Record
  <2>2. CASE ~ (c.rev > m.rev)
    BY <1>1, <1>2, <1>5, <2>2 DEF KnowsFile, Same, Running, Recon
  <2> QED BY <2>1, <2>2
<1>10. Writable(c, s, p, g, n)
  BY <1>1, <1>3, <1>6, <1>8, <1>9 DEF Writable, Copy, Recon
<1>11. (Recon(s) \/ Told(s, n)) /\ (Recon(p) \/ Told(p, n)) /\ Told(c, n)
  BY <1>1, <1>3, <1>6, <1>8 DEF Told, Later, Knows, Same, Running, Recon
<1>12. s.rev = n.rev /\ p.rev = n.rev
  <2>1. CASE c.rev > m.rev
    BY <1>1, <1>4, <1>6, <2>1 DEF Later
  <2>2. CASE ~ (c.rev > m.rev)
    BY <1>1, <1>5, <2>2 DEF Knows, Same, Later, Running, Recon
  <2> QED BY <2>1, <2>2
<1>13. ASSUME NEW x, Copy(x), x.rev = n.rev, Recon(x) \/ Told(x, n), Journaled(x, x, x, g)
      PROVE  Shows(x, g, n)
  BY <1>9, <1>13 DEF Shows, Told, KnowsFile, Journaled, Same, Ahead, Disagree, Running, Recon, Copy, Entry, Record
<1>14. Journaled(c, s, p, g)
  BY <1>2 DEF Journaled
<1>15. Claimed(c, s, p, g, n)
  BY <1>1, <1>6, <1>11, <1>12, <1>13, <1>14 DEF Claimed, Journaled
<1>16. Undeferred(c, s, p, n) /\ Replacing(c, p, g, n) /\ ReadBack(n)
  BY <1>1, <1>3 DEF Undeferred, Replacing, ReadBack
<1>17. ~ Recon(n) => Agreed(c, s, p)
  BY <1>6
<1>18. Final(c, f, c, g)
  BY <1>1, <1>2, <1>6, NoCopyAssumption DEF Final, Selected, Reconciled, Journaled, Beside, Same, Ahead, Disagree, IsJournal, Running, Recon, Copy, Entry
<1> QED BY <1>1, <1>2, <1>10, <1>14, <1>15, <1>16, <1>17, <1>18 DEF Coherent, Chained, Follower

-----------------------------------------------------------------------------
(* The copies of every operation. *)

(* The copy of o that is being written: c, s and p are row[o], Flushing(o) *)
(* and Working[o].                                                         *)
Flushing(o) == IF pend = None THEN row[o] ELSE pend.snap[o]

CopiesOK ==
    /\ mem \in [Ops -> Record \union {None}]
    /\ row \in [Ops -> Entry \union {None}]
    /\ file \in [Ops -> Entry \union {None, Pointer}]
    /\ pend \in Snapshot \union {None}
    /\ faults \in 0 .. MaxFaults

(* An operation is deferred exactly if the row has it, and what the row    *)
(* does not have is nowhere.                                               *)
Rooted ==
    /\ \A o \in Ops : row[o] = None => mem[o] = None /\ file[o] = None
    /\ pend # None => \A o \in Ops : /\ pend.ops[o] = None <=> row[o] = None
                                     /\ pend.snap[o] = None <=> row[o] = None

Fit(o) == row[o] # None => Coherent(row[o], Flushing(o), Working[o], file[o], mem[o])

(* Some copy is acknowledged. *)
Acknowledged(p, f, m) == (m # None /\ m.ack) \/ p.ack \/ (IsJournal(f) /\ f.ack)

(* A step leaves the copies of u fit, makes none of them final result      *)
(* another, reconciles no operation whose process stays on record, starts  *)
(* no run, and acknowledges only what a allows.                            *)
Advances(u, a) ==
    /\ row'[u] = None <=> row[u] = None
    /\ row[u] = None => mem'[u] = None /\ file'[u] = None
    /\ Fit(u)'
    /\ Final(row[u], file[u], row'[u], file'[u])
    /\ row[u] # None /\ Recon(row'[u]) => Recon(row[u]) \/ ~ owner'[u]
    /\ row[u] # None /\ Acknowledged(Working'[u], file'[u], mem'[u]) =>
          Acknowledged(Working[u], file[u], mem[u]) \/ a
    /\ Live(u)' => Live(u)

LEMMA FitFacts ==
    ASSUME CopiesOK, Rooted, NEW o \in Ops, row[o] # None, Fit(o)
    PROVE  /\ row[o] \in Entry /\ Flushing(o) \in Entry /\ Working[o] \in Entry
           /\ Coherent(row[o], Flushing(o), Working[o], file[o], mem[o])
           /\ mem[o] # None => mem[o] \in Record
           /\ mem[o] # None => Writable(row[o], Flushing(o), Working[o], file[o], mem[o])
           /\ IsJournal(file[o]) => file[o] \in Entry
PROOF BY DEF Fit, Coherent, Chained, Copy, Writable, Journaled

LEMMA WorkingOK ==
    ASSUME CopiesOK, Rooted
    PROVE  /\ Working \in [Ops -> Entry \union {None}]
           /\ \A o \in Ops : Working[o] = None <=> row[o] = None
           /\ pend # None => pend \in Snapshot /\ pend = [ops |-> pend.ops, snap |-> pend.snap, writing |-> pend.writing, dirty |-> pend.dirty]
           /\ \A o \in Ops : Flushing(o) \in Entry \union {None} /\ (Flushing(o) = None <=> row[o] = None)
PROOF BY DEF CopiesOK, Rooted, Working, Flushing, Snapshot

(* What a change of row and deferred write may do to an operation that     *)
(* nobody writes.                                                          *)
Shifts(u) ==
    \/ row'[u] = row[u] /\ Flushing(u)' = Flushing(u) /\ Working'[u] = Working[u]
    \/ row'[u] = row[u] /\ Flushing(u)' = row[u] /\ Working'[u] = row[u]
    \/ row'[u] = Working[u] /\ Flushing(u)' = Working[u] /\ Working'[u] = Working[u]
    \/ row'[u] = row[u] /\ Flushing(u)' = Working[u] /\ Working'[u] = Working[u]
    \/ row'[u] = Flushing(u) /\ Flushing(u)' = Working[u] /\ Working'[u] = Working[u]
    \/ row'[u] = Flushing(u) /\ Flushing(u)' = Flushing(u) /\ Working'[u] = Flushing(u)

LEMMA ShiftsAdvance ==
    ASSUME CopiesOK, Rooted, NEW u \in Ops, Fit(u), Shifts(u), mem'[u] = mem[u], file'[u] = file[u]
    PROVE  Advances(u, FALSE)
PROOF
<1>1. Working[u] = None <=> row[u] = None
  BY WorkingOK
<1>2. Flushing(u) = None <=> row[u] = None
  BY WorkingOK
<1>3. row'[u] = None <=> row[u] = None
  BY <1>1, <1>2 DEF Shifts
<1>4. row[u] = None => mem'[u] = None /\ file'[u] = None
  BY DEF Rooted
<1>5. CASE row[u] = None
  BY <1>3, <1>4, <1>5 DEF Advances, Fit, Final, Selected, IsJournal, Live
<1>6. CASE row[u] # None
  <2> DEFINE c == row[u]
             s == Flushing(u)
             p == Working[u]
             f == file[u]
             m == mem[u]
             d == row'[u]
             t == Flushing(u)'
             q == Working'[u]
  <2>1. Coherent(c, s, p, f, m)
    BY <1>6 DEF Fit
  <2>2. \/ d = c /\ t = s /\ q = p
        \/ d = c /\ t = c /\ q = c
        \/ d = p /\ t = p /\ q = p
        \/ d = c /\ t = p /\ q = p
        \/ d = s /\ t = p /\ q = p
        \/ d = s /\ t = s /\ q = s
    BY DEF Shifts
  <2> HIDE DEF c, s, p, f, m, d, t, q
  <2>3. Coherent(d, t, q, f, m)
    BY <2>1, <2>2, Collapses
  <2>4. Final(c, f, d, f)
    BY <2>1, <2>2, CollapsesFinal
  <2>5. Recon(d) => Recon(c)
    BY <2>1, <2>2 DEF Coherent, Chained, Later
  <2>6. q.ack => p.ack
    BY <2>1, <2>2 DEF Coherent, Chained, Later
  <2> USE DEF c, s, p, f, m, d, t, q
  <2>7. Fit(u)'
    BY <2>3 DEF Fit
  <2> QED BY <1>3, <1>4, <1>6, <2>4, <2>5, <2>6, <2>7 DEF Advances, Acknowledged, Live
<1> QED BY <1>5, <1>6

-----------------------------------------------------------------------------
(* What one write does to every operation. *)

(* The copies stay well-formed, and o alone may be acknowledged, under a.  *)
Progress(o, a) ==
    /\ CopiesOK'
    /\ Rooted'
    /\ \A u \in Ops : Advances(u, u = o /\ a)

LEMMA NotedRecord ==
    ASSUME NEW m \in Record, NEW dur \in {"persisted", "journaled", "memory_only"},
           NEW err \in {"none", "transient", "hard"}, NEW repair \in BOOLEAN
    PROVE  /\ Carries(Noted(m, dur, err, repair), m)
           /\ Noted(m, dur, err, repair).dur = dur
           /\ Noted(m, dur, err, repair).err = err
           /\ Noted(m, dur, err, repair).repair = repair
PROOF BY DEF Noted, Record, Carries

LEMMA EntryOfSays ==
    ASSUME NEW m \in Record
    PROVE  EntryOf(m) \in Entry /\ Says(EntryOf(m), m)
PROOF BY DEF EntryOf, Record, Entry, Says

LEMMA RowWriteShifts ==
    ASSUME Assumptions, CopiesOK, Rooted, NEW o \in Ops, row[o] # None,
           NEW x \in Entry, NEW db \in DbOutcomes,
           row' = RowWrite(o, x, db).row, pend' = RowWrite(o, x, db).pend
    PROVE  /\ row' \in [Ops -> Entry \union {None}]
           /\ pend' \in Snapshot \union {None}
           /\ \A u \in Ops : row'[u] = None <=> row[u] = None
           /\ pend' # None => \A u \in Ops : /\ pend'.ops[u] = None <=> row'[u] = None
                                             /\ pend'.snap[u] = None <=> row'[u] = None
           /\ \A u \in Ops \ {o} : Shifts(u)
           /\ RowWrite(o, x, db).err \in {"none", "transient", "hard"}
           /\ RowWritten(row[o], Flushing(o), Working[o], x, RowWrite(o, x, db).err,
                         row'[o], Flushing(o)', Working'[o])
PROOF
<1> DEFINE next == [Working EXCEPT ![o] = x]
           err == RowWrite(o, x, db).err
<1>1. db = "ok" \/ db = "busy" \/ db = "broken" \/ db = "unread"
  BY DEF DbOutcomes, Assumptions
<1>2. /\ Working \in [Ops -> Entry \union {None}]
      /\ \A u \in Ops : Working[u] = None <=> row[u] = None
      /\ row \in [Ops -> Entry \union {None}]
      /\ x # None
  BY WorkingOK, NoCopyAssumption DEF CopiesOK
<1>3. /\ next \in [Ops -> Entry \union {None}]
      /\ next[o] = x
      /\ \A u \in Ops \ {o} : next[u] = Working[u]
      /\ \A u \in Ops : next[u] = None <=> row[u] = None
  BY <1>2
<1>4. err \in {"none", "transient", "hard"}
  BY DEF RowWrite
<1>5. CASE Writing
  <2>1. pend # None /\ pend \in Snapshot
    BY <1>5 DEF Writing, CopiesOK
  <2>2. row' = row /\ pend' = [pend EXCEPT !.ops = next, !.dirty = TRUE]
    BY <1>5 DEF RowWrite
  <2>3. pend' \in Snapshot /\ pend'.ops = next /\ pend'.snap = pend.snap
    BY <1>3, <2>1, <2>2 DEF Snapshot
  <2>4. pend' # None
    BY <2>3, NoCopyAssumption
  <2>5. Working' = next /\ \A u \in Ops : Flushing(u)' = Flushing(u)
    BY <2>1, <2>3, <2>4 DEF Working, Flushing
  <2>6. \A u \in Ops \ {o} : Shifts(u)
    BY <1>3, <2>2, <2>5 DEF Shifts
  <2>7. err = "none" => row[o].rev = x.rev /\ row[o].st = x.st /\ row[o].ack = x.ack
    BY <1>5, <1>1 DEF RowWrite
  <2>8. RowWritten(row[o], Flushing(o), Working[o], x, err, row'[o], Flushing(o)', Working'[o])
    BY <1>3, <2>2, <2>5, <2>7 DEF RowWritten
  <2>9. \A u \in Ops : pend'.snap[u] = None <=> row'[u] = None
    BY <2>1, <2>2, <2>3 DEF Rooted
  <2>10. \A u \in Ops : pend'.ops[u] = None <=> row'[u] = None
    BY <1>3, <2>2, <2>3
  <2> QED BY <1>2, <1>4, <2>2, <2>3, <2>6, <2>8, <2>9, <2>10
<1>6. CASE ~ Writing
  <2>1. pend' = None
    BY <1>6 DEF RowWrite
  <2>2. Working' = row' /\ \A u \in Ops : Flushing(u)' = row'[u]
    BY <2>1 DEF Working, Flushing
  <2>3. CASE db = "ok" \/ db = "unread"
    <3>1. row' = next
      BY <1>6, <2>3 DEF RowWrite
    <3>2. \A u \in Ops \ {o} : Shifts(u)
      BY <1>3, <2>2, <3>1 DEF Shifts
    <3>3. RowWritten(row[o], Flushing(o), Working[o], x, err, row'[o], Flushing(o)', Working'[o])
      BY <1>3, <2>2, <3>1 DEF RowWritten
    <3> QED BY <1>3, <1>4, <2>1, <3>1, <3>2, <3>3
  <2>4. CASE db = "busy" \/ db = "broken"
    <3>1. row' = row /\ err # "none"
      BY <1>6, <2>4 DEF RowWrite
    <3>2. \A u \in Ops \ {o} : Shifts(u)
      BY <2>2, <3>1 DEF Shifts
    <3>3. RowWritten(row[o], Flushing(o), Working[o], x, err, row'[o], Flushing(o)', Working'[o])
      BY <2>2, <3>1 DEF RowWritten
    <3> QED BY <1>2, <1>4, <2>1, <3>1, <3>2, <3>3
  <2> QED BY <1>1, <2>3, <2>4
<1> QED BY <1>5, <1>6

(* A write of m that keeps file and record in step with the row. *)
LEMMA WriteProgress ==
    ASSUME Assumptions, CopiesOK, Rooted, \A u \in Ops : Fit(u), NEW o \in Ops, row[o] # None,
           NEW m, Writable(row[o], Flushing(o), Working[o], file[o], m),
           ~ Recon(m) => Agreed(row[o], Flushing(o), Working[o]),
           Running(m) => m.run # "none", m.run # "none" => Live(o),
           NEW a \in BOOLEAN, m.ack => Acknowledged(Working[o], file[o], mem[o]) \/ a,
           NEW db \in DbOutcomes, NEW g, NEW n,
           row' = RowWrite(o, EntryOf(m), db).row, pend' = RowWrite(o, EntryOf(m), db).pend,
           file' = [file EXCEPT ![o] = g], mem' = [mem EXCEPT ![o] = n],
           faults' \in 0 .. MaxFaults,
           Carries(n, m), FileWritten(file[o], m, RowWrite(o, EntryOf(m), db).err, g, n)
    PROVE  Progress(o, a)
PROOF
<1> DEFINE x == EntryOf(m)
           err == RowWrite(o, EntryOf(m), db).err
<1>1. m \in Record /\ n \in Record /\ n # None
  BY NoCopyAssumption DEF Writable, Carries
<1>2. x \in Entry /\ Says(x, m)
  BY <1>1, EntryOfSays
<1>3. /\ row' \in [Ops -> Entry \union {None}]
      /\ pend' \in Snapshot \union {None}
      /\ \A u \in Ops : row'[u] = None <=> row[u] = None
      /\ pend' # None => \A u \in Ops : /\ pend'.ops[u] = None <=> row'[u] = None
                                        /\ pend'.snap[u] = None <=> row'[u] = None
      /\ \A u \in Ops \ {o} : Shifts(u)
      /\ RowWritten(row[o], Flushing(o), Working[o], x, err, row'[o], Flushing(o)', Working'[o])
  BY <1>2, RowWriteShifts
<1>4. /\ mem' \in [Ops -> Record \union {None}] /\ mem'[o] = n
      /\ \A u \in Ops \ {o} : mem'[u] = mem[u]
  BY <1>1 DEF CopiesOK
<1>5. g \in Entry \union {None, Pointer}
  BY <1>1 DEF FileWritten, Says, CopiesOK
<1>6. /\ file' \in [Ops -> Entry \union {None, Pointer}] /\ file'[o] = g
      /\ \A u \in Ops \ {o} : file'[u] = file[u]
  BY <1>5 DEF CopiesOK
<1>7. CopiesOK'
  BY <1>3, <1>4, <1>6 DEF CopiesOK
<1>8. Rooted'
  BY <1>3, <1>4, <1>6 DEF Rooted
<1>9. \A u \in Ops \ {o} : Advances(u, u = o /\ a)
  <2> TAKE u \in Ops \ {o}
  <2>1. Advances(u, FALSE)
    BY <1>3, <1>4, <1>6, ShiftsAdvance
  <2> QED BY <2>1
<1>10. Advances(o, a)
  <2> DEFINE c == row[o]
             s == Flushing(o)
             p == Working[o]
             f == file[o]
             d == row'[o]
             t == Flushing(o)'
             q == Working'[o]
  <2>1. Coherent(c, s, p, f, mem[o])
    BY DEF Fit
  <2>2. Coherent(d, t, q, g, n) /\ Final(c, f, d, g)
    <3> HIDE DEF c, s, p, f, d, t, q, x, err
    <3>1. Chained(c, s, p) /\ Journaled(c, s, p, f)
      BY <2>1 DEF Coherent
    <3>2. Writable(c, s, p, f, m) /\ (~ Recon(m) => Agreed(c, s, p)) /\ FileWritten(f, m, err, g, n)
      BY DEF c, s, p, f, err
    <3>3. RowWritten(c, s, p, x, err, d, t, q)
      BY <1>3 DEF c, s, p, d, t, q
    <3> QED BY <1>2, <3>1, <3>2, <3>3, WriteKeeps
  <2>3. Fit(o)'
    BY <1>3, <1>4, <1>6, <2>2 DEF Fit
  <2>4. Recon(d) => Recon(c)
    <3> HIDE DEF c, s, p, f, d, t, q, x, err
    <3>1. Writable(c, s, p, f, m) /\ RowWritten(c, s, p, x, err, d, t, q)
      BY <1>3 DEF c, s, p, f, d, t, q
    <3> QED BY <1>2, <3>1 DEF Writable, Knows, RowWritten, Says, Recon
  <2>5. Acknowledged(q, g, n) => p.ack \/ (IsJournal(f) /\ f.ack) \/ m.ack
    <3> HIDE DEF c, s, p, f, d, t, q, x, err
    <3>1. RowWritten(c, s, p, x, err, d, t, q) /\ FileWritten(f, m, err, g, n)
      BY <1>3 DEF c, s, p, f, d, t, q, err
    <3>2. c.ack => p.ack
      BY <2>1 DEF Coherent, Chained, Later
    <3> QED BY <1>2, <3>1, <3>2 DEF Acknowledged, RowWritten, FileWritten, Says, Carries, IsJournal
  <2>6. Live(o)' => Live(o)
    BY <1>4 DEF Live, Carries
  <2> QED BY <1>3, <1>4, <1>6, <2>2, <2>3, <2>4, <2>5, <2>6 DEF Advances, Acknowledged
<1> QED BY <1>7, <1>8, <1>9, <1>10 DEF Progress
LEMMA Faulted ==
    ASSUME Assumptions, CopiesOK, NEW o \in Ops, NEW db, NEW fileOk \in BOOLEAN, Faults(o, db, fileOk)
    PROVE  faults' \in 0 .. MaxFaults
PROOF BY DEF Faults, CopiesOK, Assumptions

LEMMA PersistProgress ==
    ASSUME Assumptions, CopiesOK, Rooted, \A u \in Ops : Fit(u), NEW o \in Ops, row[o] # None,
           NEW m, Writable(row[o], Flushing(o), Working[o], file[o], m),
           ~ Recon(m) => Agreed(row[o], Flushing(o), Working[o]),
           Running(m) => m.run # "none", m.run # "none" => Live(o),
           NEW a \in BOOLEAN, m.ack => Acknowledged(Working[o], file[o], mem[o]) \/ a,
           Persist(o, m)
    PROVE  Progress(o, a)
PROOF
<1>1. PICK db \in DbOutcomes, fileOk \in BOOLEAN :
         LET w == RowWrite(o, EntryOf(m), db) IN
        /\ Faults(o, db, fileOk)
        /\ row' = w.row
        /\ pend' = w.pend
        /\ \/ /\ w.err = "none" /\ fileOk
              /\ file' = [file EXCEPT ![o] = Pointer]
              /\ mem' = [mem EXCEPT ![o] = Noted(m, "persisted", "none", FALSE)]
           \/ /\ w.err = "none" /\ ~ fileOk
              /\ UNCHANGED file
              /\ mem' = [mem EXCEPT ![o] = Noted(m, "persisted", "hard", TRUE)]
           \/ /\ w.err # "none" /\ ~ Running(m) /\ fileOk
              /\ file' = [file EXCEPT ![o] = EntryOf(m)]
              /\ mem' = [mem EXCEPT ![o] = Noted(m, "journaled", w.err, FALSE)]
           \/ /\ w.err # "none" /\ (Running(m) \/ ~ fileOk)
              /\ UNCHANGED file
              /\ mem' = [mem EXCEPT ![o] =
                            Noted(m, "memory_only", IF Running(m) THEN w.err ELSE "hard", FALSE)]
  BY DEF Persist
<1> DEFINE err == RowWrite(o, EntryOf(m), db).err
<1>2. /\ m \in Record /\ EntryOf(m) \in Entry /\ Says(EntryOf(m), m)
      /\ faults' \in 0 .. MaxFaults
      /\ file = [file EXCEPT ![o] = file[o]]
  BY <1>1, EntryOfSays, Faulted DEF Writable, CopiesOK
<1>3. err \in {"none", "transient", "hard"}
  BY DEF RowWrite
<1>4. row' = RowWrite(o, EntryOf(m), db).row /\ pend' = RowWrite(o, EntryOf(m), db).pend
  BY <1>1
<1>5. ASSUME NEW g, NEW n, file' = [file EXCEPT ![o] = g], mem' = [mem EXCEPT ![o] = n],
             Carries(n, m), FileWritten(file[o], m, err, g, n)
      PROVE  Progress(o, a)
  BY <1>2, <1>4, <1>5, WriteProgress
<1>6. ASSUME NEW dur \in {"persisted", "journaled", "memory_only"}, NEW e \in {"none", "transient", "hard"},
             NEW repair \in BOOLEAN
      PROVE  /\ Carries(Noted(m, dur, e, repair), m)
             /\ Noted(m, dur, e, repair).dur = dur
             /\ Noted(m, dur, e, repair).repair = repair
  BY <1>2, NotedRecord
<1>7. CASE /\ err = "none" /\ fileOk
           /\ file' = [file EXCEPT ![o] = Pointer]
           /\ mem' = [mem EXCEPT ![o] = Noted(m, "persisted", "none", FALSE)]
  <2> DEFINE n == Noted(m, "persisted", "none", FALSE)
  <2>1. Carries(n, m) /\ FileWritten(file[o], m, err, Pointer, n)
    BY <1>6, <1>7 DEF FileWritten
  <2> QED BY <1>5, <1>7, <2>1
<1>8. CASE /\ err = "none" /\ ~ fileOk
           /\ UNCHANGED file
           /\ mem' = [mem EXCEPT ![o] = Noted(m, "persisted", "hard", TRUE)]
  <2> DEFINE n == Noted(m, "persisted", "hard", TRUE)
  <2>1. Carries(n, m) /\ FileWritten(file[o], m, err, file[o], n)
    BY <1>6, <1>8 DEF FileWritten
  <2> QED BY <1>2, <1>5, <1>8, <2>1
<1>9. CASE /\ err # "none" /\ ~ Running(m) /\ fileOk
           /\ file' = [file EXCEPT ![o] = EntryOf(m)]
           /\ mem' = [mem EXCEPT ![o] = Noted(m, "journaled", err, FALSE)]
  <2> DEFINE n == Noted(m, "journaled", err, FALSE)
  <2>1. Carries(n, m) /\ FileWritten(file[o], m, err, EntryOf(m), n)
    BY <1>2, <1>3, <1>6, <1>9 DEF FileWritten
  <2> QED BY <1>5, <1>9, <2>1
<1>10. CASE /\ err # "none" /\ (Running(m) \/ ~ fileOk)
            /\ UNCHANGED file
            /\ mem' = [mem EXCEPT ![o] =
                          Noted(m, "memory_only", IF Running(m) THEN err ELSE "hard", FALSE)]
  <2> DEFINE n == Noted(m, "memory_only", IF Running(m) THEN err ELSE "hard", FALSE)
  <2>1. Carries(n, m) /\ FileWritten(file[o], m, err, file[o], n)
    BY <1>3, <1>6, <1>10 DEF FileWritten
  <2> QED BY <1>2, <1>5, <1>10, <2>1
<1> QED BY <1>1, <1>7, <1>8, <1>9, <1>10

(* Only file and record of o change, to g and n. *)
LEMMA LocalProgress ==
    ASSUME CopiesOK, Rooted, \A u \in Ops : Fit(u), NEW o \in Ops, row[o] # None,
           NEW g \in Entry \union {None, Pointer}, NEW n \in Record \union {None},
           UNCHANGED <<row, pend>>, faults' \in 0 .. MaxFaults,
           file' = [file EXCEPT ![o] = g], mem' = [mem EXCEPT ![o] = n],
           IsJournal(g) => g = file[o],
           Coherent(row[o], Flushing(o), Working[o], g, n),
           Final(row[o], file[o], row[o], g),
           n # None /\ n.ack => Acknowledged(Working[o], file[o], mem[o]),
           n # None /\ n.run # "none" => Live(o)
    PROVE  Progress(o, FALSE)
PROOF
<1>1. /\ mem' \in [Ops -> Record \union {None}] /\ mem'[o] = n
      /\ \A u \in Ops \ {o} : mem'[u] = mem[u]
      /\ file' \in [Ops -> Entry \union {None, Pointer}] /\ file'[o] = g
      /\ \A u \in Ops \ {o} : file'[u] = file[u]
  BY DEF CopiesOK
<1>2. Working' = Working /\ \A u \in Ops : Flushing(u)' = Flushing(u)
  BY DEF Working, Flushing
<1>3. CopiesOK' /\ Rooted'
  BY <1>1 DEF CopiesOK, Rooted
<1>4. ASSUME NEW u \in Ops \ {o}
      PROVE  Advances(u, FALSE)
  BY <1>1, <1>2, ShiftsAdvance DEF Shifts
<1>5. Advances(o, FALSE)
  BY <1>1, <1>2 DEF Advances, Fit, Acknowledged, Live
<1> QED BY <1>3, <1>4, <1>5 DEF Progress

LEMMA RefusalReasons ==
    ASSUME NEW o, NEW m, RepairRefusal(o, m) = "none"
    PROVE  /\ row[o] # None /\ ~ Running(row[o])
           /\ IsJournal(file[o]) => ~ Ahead(file[o], row[o]) /\ ~ Disagree(file[o], row[o])
           /\ ~ Ahead(m, row[o]) /\ ~ Disagree(m, row[o])
PROOF BY DEF RepairRefusal, Refusal, EntryOf, Ahead, Disagree

LEMMA RepairProgress ==
    ASSUME Assumptions, CopiesOK, Rooted, \A u \in Ops : Fit(u), NEW o \in Ops, row[o] # None,
           NEW m, Writable(row[o], Flushing(o), Working[o], file[o], m),
           ~ Recon(m) => Agreed(row[o], Flushing(o), Working[o]),
           Running(m) => m.run # "none", m.run # "none" => Live(o),
           m.ack => Acknowledged(Working[o], file[o], mem[o]),
           ~ Overtakes(row[o], Working[o]), Undeferred(row[o], Flushing(o), Working[o], m),
           Claimed(row[o], Flushing(o), Working[o], file[o], m), m.dur # "journaled",
           Repair(o, m)
    PROVE  Progress(o, FALSE)
PROOF
<1> DEFINE c == row[o]
           s == Flushing(o)
           p == Working[o]
           f == file[o]
<1>1. /\ m \in Record /\ f \in Entry \union {None, Pointer} /\ f = file[o]
      /\ file = [file EXCEPT ![o] = f]
      /\ Coherent(c, s, p, f, mem[o])
      /\ Chained(c, s, p) /\ Journaled(c, s, p, f)
  BY DEF Writable, CopiesOK, Fit, Coherent
<1>2. UNCHANGED <<row, pend>>
  BY DEF Repair
<1>3. ASSUME NEW refusal \in {"transient", "hard"}, NEW db \in DbOutcomes, Faults(o, db, TRUE),
             mem' = [mem EXCEPT ![o] = Noted(m, m.dur, refusal, TRUE)], UNCHANGED file
      PROVE  Progress(o, FALSE)
  <2> DEFINE n == Noted(m, m.dur, refusal, TRUE)
  <2>0. m.dur \in {"persisted", "journaled", "memory_only"} /\ refusal \in {"none", "transient", "hard"}
    BY <1>1 DEF Record
  <2>1. Carries(n, m) /\ n.dur = m.dur
    <3>1. ASSUME NEW repair \in BOOLEAN
          PROVE  Carries(Noted(m, m.dur, refusal, repair), m) /\ Noted(m, m.dur, refusal, repair).dur = m.dur
      BY <1>1, <2>0, NotedRecord
    <3> QED BY <3>1
  <2>2. Coherent(c, s, p, f, n)
    BY <1>1, <2>1, RefusedRepairKeeps
  <2>3. Final(c, f, c, f)
    BY <1>1, CollapsesFinal
  <2>4. n \in Record /\ n.ack = m.ack /\ n.run = m.run
    BY <2>1 DEF Carries
  <2>5. faults' \in 0 .. MaxFaults /\ mem' = [mem EXCEPT ![o] = n] /\ file' = [file EXCEPT ![o] = f]
    BY <1>1, <1>3, Faulted
  <2>6. n # None /\ n.ack => Acknowledged(p, f, mem[o])
    BY <2>4
  <2> HIDE DEF n
  <2> QED BY <1>1, <1>2, <2>2, <2>3, <2>4, <2>5, <2>6, LocalProgress
<1>4. ASSUME RepairRefusal(o, m) = "none",
             NEW e \in {"none", "hard"}, NEW repair \in BOOLEAN, NEW g, (g = Pointer /\ ~ repair) \/ g = f,
             NEW k, k = IF c.rev > m.rev THEN Hydrated(c) ELSE [m EXCEPT !.ack = @ \/ c.ack],
             mem' = [mem EXCEPT ![o] = Noted(k, "persisted", e, repair)],
             file' = [file EXCEPT ![o] = g], faults' \in 0 .. MaxFaults
      PROVE  Progress(o, FALSE)
  <2> DEFINE n == Noted(k, "persisted", e, repair)
  <2>1. /\ ~ Running(c)
        /\ IsJournal(f) => ~ Ahead(f, c) /\ ~ Disagree(f, c)
        /\ ~ Ahead(m, c) /\ ~ Disagree(m, c)
    BY <1>4, RefusalReasons
  <2>2. Copy(c) /\ c \in Entry /\ Later(c, p) /\ m.run = "none"
    BY <1>1, <2>1, LaterTwice DEF Chained, Copy, Writable
  <2>3. /\ k \in Record /\ k.run = "none"
        /\ IF c.rev > m.rev THEN Says(c, k)
           ELSE k.st = m.st /\ k.rev = m.rev /\ k.by = m.by /\ k.ack = (m.ack \/ c.ack)
    <3>1. CASE c.rev > m.rev
      BY <1>4, <2>2, <3>1 DEF Hydrated, Says, Entry, Record
    <3>2. CASE ~ (c.rev > m.rev)
      BY <1>1, <1>4, <2>2, <3>2 DEF Entry, Record
    <3> QED BY <3>1, <3>2
  <2>4. Carries(n, k) /\ n.dur = "persisted" /\ n.repair = repair
    BY <2>3, <1>4, NotedRecord
  <2>5. /\ n \in Record /\ n.run = "none" /\ n.dur = "persisted"
        /\ IF c.rev > m.rev THEN Says(c, n)
           ELSE n.st = m.st /\ n.rev = m.rev /\ n.by = m.by /\ n.ack = (m.ack \/ c.ack)
        /\ (g = Pointer /\ ~ n.repair) \/ g = f
    BY <1>4, <2>3, <2>4 DEF Carries, Says
  <2> HIDE DEF n
  <2>6. Coherent(c, s, p, g, n) /\ Final(c, f, c, g)
    BY <1>1, <2>1, <2>5, RepairKeeps
  <2>7. n # None /\ n.ack => Acknowledged(p, f, mem[o])
    BY <2>2, <2>5 DEF Says, Acknowledged, Later
  <2>8. g \in Entry \union {None, Pointer} /\ (IsJournal(g) => g = f)
    BY <1>1, <1>4 DEF IsJournal
  <2>9. mem' = [mem EXCEPT ![o] = n]
    BY <1>4 DEF n
  <2> QED BY <1>1, <1>2, <1>4, <2>5, <2>6, <2>7, <2>8, <2>9, LocalProgress
<1>5. CASE \E db \in DbOutcomes :
             LET refusal == CASE db = "ok" -> RepairRefusal(o, m)
                              [] db = "broken" -> "hard"
                              [] OTHER -> "transient" IN
             /\ refusal # "none"
             /\ Faults(o, db, TRUE)
             /\ mem' = [mem EXCEPT ![o] = Noted(m, m.dur, refusal, TRUE)]
             /\ UNCHANGED file
  <2>1. RepairRefusal(o, m) \in {"none", "transient", "hard"}
    BY DEF RepairRefusal, Refusal
  <2> QED BY <1>3, <1>5, <2>1
<1>6. CASE /\ RepairRefusal(o, m) = "none"
           /\ LET n == IF row[o].rev > m.rev THEN Hydrated(row[o])
                      ELSE [m EXCEPT !.ack = @ \/ row[o].ack]
              IN \/ /\ file' = [file EXCEPT ![o] = Pointer]
                    /\ mem' = [mem EXCEPT ![o] = Noted(n, "persisted", "none", FALSE)]
                    /\ UNCHANGED faults
                 \/ /\ Faults(o, "ok", FALSE)
                    /\ UNCHANGED file
                    /\ mem' = [mem EXCEPT ![o] = Noted(n, "persisted", "hard", TRUE)]
  <2>1. CASE UNCHANGED faults /\ file' = [file EXCEPT ![o] = Pointer]
             /\ mem' = [mem EXCEPT ![o] = Noted(IF row[o].rev > m.rev THEN Hydrated(row[o])
                                                ELSE [m EXCEPT !.ack = @ \/ row[o].ack], "persisted", "none", FALSE)]
    <3>1. faults' \in 0 .. MaxFaults
      BY <2>1 DEF CopiesOK
    <3> QED BY <1>4, <1>6, <2>1, <3>1
  <2>2. CASE Faults(o, "ok", FALSE) /\ UNCHANGED file
             /\ mem' = [mem EXCEPT ![o] = Noted(IF row[o].rev > m.rev THEN Hydrated(row[o])
                                                ELSE [m EXCEPT !.ack = @ \/ row[o].ack], "persisted", "hard", TRUE)]
    <3>1. faults' \in 0 .. MaxFaults /\ file' = [file EXCEPT ![o] = f]
      BY <1>1, <2>2, Faulted
    <3> QED BY <1>4, <1>6, <2>2, <3>1
  <2> QED BY <1>6, <2>1, <2>2
<1> QED BY <1>5, <1>6 DEF Repair
-----------------------------------------------------------------------------
(* The actions on the copies. *)

LEMMA ReattemptProgress ==
    ASSUME Assumptions, CopiesOK, Rooted, \A u \in Ops : Fit(u), NEW o \in Ops, mem[o] # None,
           mem[o].repair \/ mem[o].err # "none" \/ mem[o].dur # "persisted" \/ mem[o].retry,
           Reattempt(o, mem[o])
    PROVE  Progress(o, FALSE)
PROOF
<1> DEFINE m == mem[o]
<1>1. row[o] # None
  BY DEF Rooted
<1>2. Coherent(row[o], Flushing(o), Working[o], file[o], m)
  BY <1>1 DEF Fit
<1>3. /\ Writable(row[o], Flushing(o), Working[o], file[o], m)
      /\ ~ Recon(m) => Agreed(row[o], Flushing(o), Working[o])
      /\ Running(m) => m.run # "none"
      /\ m.run # "none" => Live(o)
      /\ m.ack => Acknowledged(Working[o], file[o], m)
  BY <1>2, RetriesWritable DEF Coherent, ReadBack, Live, Acknowledged
<1>4. CASE m.repair
  <2>1. /\ ~ Overtakes(row[o], Working[o]) /\ Undeferred(row[o], Flushing(o), Working[o], m)
        /\ Claimed(row[o], Flushing(o), Working[o], file[o], m) /\ m.dur # "journaled"
    BY <1>2, <1>4 DEF Coherent, Replacing, Claimed
  <2>2. Repair(o, m)
    BY <1>4 DEF Reattempt
  <2> QED BY <1>1, <1>3, <2>1, <2>2, RepairProgress
<1>5. CASE ~ m.repair
  <2>1. Persist(o, m)
    BY <1>5 DEF Reattempt
  <2> QED BY <1>1, <1>3, <2>1, PersistProgress
<1> QED BY <1>4, <1>5

(* The record of o becomes n, or is dropped. *)
LEMMA RecordProgress ==
    ASSUME CopiesOK, Rooted, \A u \in Ops : Fit(u), NEW o \in Ops, row[o] # None,
           NEW n \in Record \union {None},
           UNCHANGED <<row, pend, file>>, faults' \in 0 .. MaxFaults, mem' = [mem EXCEPT ![o] = n],
           Coherent(row[o], Flushing(o), Working[o], file[o], n),
           n # None /\ n.ack => Acknowledged(Working[o], file[o], mem[o]),
           n # None /\ n.run # "none" => Live(o)
    PROVE  Progress(o, FALSE)
PROOF
<1>1. file[o] \in Entry \union {None, Pointer} /\ file' = [file EXCEPT ![o] = file[o]]
  BY DEF CopiesOK
<1>2. Final(row[o], file[o], row[o], file[o])
  BY CollapsesFinal
<1> QED BY <1>1, <1>2, LocalProgress

LEMMA HydratedSays ==
    ASSUME NEW x \in Entry
    PROVE  /\ Hydrated(x) \in Record /\ Says(x, Hydrated(x)) /\ Hydrated(x).run = "none"
           /\ Hydrated(x).dur = "persisted" /\ ~ Hydrated(x).repair /\ ~ Hydrated(x).retry
           /\ Hydrated(x).err = "none"
PROOF BY DEF Hydrated, Entry, Record, Says

LEMMA StatusReadProgress ==
    ASSUME Assumptions, CopiesOK, Rooted, \A u \in Ops : Fit(u), NEW o \in Ops, StatusRead(o)
    PROVE  Progress(o, FALSE)
PROOF
<1>1. mem[o] # None /\ row[o] # None
  BY DEF StatusRead, Rooted
<1>2. CASE /\ Follows(o)
           /\ mem' = [mem EXCEPT ![o] = Hydrated(Working[o])]
           /\ UNCHANGED store
  <2> DEFINE n == Hydrated(Working[o])
             p == Working[o]
  <2>1. /\ p \in Entry
        /\ Coherent(row[o], Flushing(o), p, file[o], mem[o])
        /\ ~ IsJournal(file[o]) /\ Running(mem[o]) /\ mem[o].run = "none"
    BY <1>1, <1>2, FitFacts DEF Follows, Writable
  <2>2. /\ n \in Record /\ Says(p, n) /\ n.run = "none" /\ n.dur = "persisted"
        /\ ~ n.repair /\ ~ n.retry /\ n.err = "none"
    BY <2>1, HydratedSays
  <2>3. mem' = [mem EXCEPT ![o] = n]
    BY <1>2
  <2> HIDE DEF n
  <2>4. Coherent(row[o], Flushing(o), p, file[o], n)
    BY <2>1, <2>2, ReadsRow
  <2>5. n.ack => Acknowledged(p, file[o], mem[o])
    BY <2>2 DEF Says, Acknowledged
  <2>6. UNCHANGED <<row, pend, file>> /\ faults' \in 0 .. MaxFaults
    BY <1>2 DEF store, CopiesOK
  <2> QED BY <1>1, <2>2, <2>3, <2>4, <2>5, <2>6, RecordProgress
<1>3. CASE /\ mem[o].repair \/ mem[o].err # "none" \/ mem[o].dur # "persisted"
           /\ Reattempt(o, mem[o])
  BY <1>1, <1>3, ReattemptProgress
<1> QED BY <1>2, <1>3 DEF StatusRead

LEMMA PruneProgress ==
    ASSUME Assumptions, CopiesOK, Rooted, \A u \in Ops : Fit(u), NEW o \in Ops, Prune(o)
    PROVE  Progress(o, FALSE)
PROOF
<1>1. /\ mem[o] # None /\ ~ Running(mem[o]) /\ mem[o].dur # "memory_only"
      /\ UNCHANGED <<row, pend, file>> /\ mem' = [mem EXCEPT ![o] = None]
      /\ faults' \in 0 .. MaxFaults
  BY DEF Prune, CopiesOK, Assumptions
<1>2. row[o] # None
  BY <1>1 DEF Rooted
<1>3. Coherent(row[o], Flushing(o), Working[o], file[o], None)
  BY <1>1, <1>2, FitFacts, Forgets
<1> QED BY <1>1, <1>2, <1>3, RecordProgress

LEMMA RunFacts ==
    ASSUME CopiesOK, Rooted, \A u \in Ops : Fit(u), NEW o \in Ops, mem[o] # None
    PROVE  /\ row[o] # None /\ mem[o] \in Record
           /\ Coherent(row[o], Flushing(o), Working[o], file[o], mem[o])
           /\ Live(o) <=> mem[o].run # "none"
           /\ Live(o) => Running(mem[o]) /\ Running(row[o]) /\ row[o].by = "run"
           /\ mem[o].ack => Acknowledged(Working[o], file[o], mem[o])
PROOF BY DEF Rooted, Fit, Coherent, Chained, Copy, Writable, Live, Acknowledged

LEMMA StartHandlerProgress ==
    ASSUME Assumptions, CopiesOK, Rooted, \A u \in Ops : Fit(u), NEW o \in Ops, StartHandler(o)
    PROVE  Progress(o, FALSE)
PROOF
<1> DEFINE n == [mem[o] EXCEPT !.run = "running"]
<1>1. /\ mem[o] # None /\ Live(o)
      /\ UNCHANGED <<row, pend, file>> /\ mem' = [mem EXCEPT ![o] = n]
      /\ faults' \in 0 .. MaxFaults
  BY DEF StartHandler, Live, store, CopiesOK
<1>2. /\ row[o] # None /\ mem[o] \in Record
      /\ Coherent(row[o], Flushing(o), Working[o], file[o], mem[o])
      /\ mem[o].run # "none"
      /\ mem[o].ack => Acknowledged(Working[o], file[o], mem[o])
  BY <1>1, RunFacts
<1>3. /\ n \in Record /\ n.run # "none" /\ n.st = mem[o].st /\ n.rev = mem[o].rev
      /\ n.ack = mem[o].ack /\ n.by = mem[o].by /\ n.dur = mem[o].dur /\ n.repair = mem[o].repair
  BY <1>2 DEF Record
<1> HIDE DEF n
<1>4. Coherent(row[o], Flushing(o), Working[o], file[o], n)
  BY <1>1, <1>2, <1>3, RunStarts
<1> QED BY <1>1, <1>2, <1>3, <1>4, RecordProgress

(* Another phase, a request to stop, or the result of the run. *)
LEMMA RunProgress ==
    ASSUME Assumptions, CopiesOK, Rooted, \A u \in Ops : Fit(u), NEW o \in Ops, Live(o),
           NEW n \in Record, n.rev = mem[o].rev + 1, n.ack = mem[o].ack, n.by = mem[o].by,
           n.run # "none" => n.st = mem[o].st,
           n.run = "none" => ~ Running(n),
           Persist(o, n)
    PROVE  Progress(o, FALSE)
PROOF
<1>1. /\ mem[o] # None /\ row[o] # None /\ mem[o] \in Record
      /\ Coherent(row[o], Flushing(o), Working[o], file[o], mem[o])
      /\ mem[o].run # "none" /\ Running(mem[o])
      /\ mem[o].ack => Acknowledged(Working[o], file[o], mem[o])
  BY RunFacts DEF Live
<1>2. Writable(row[o], Flushing(o), Working[o], file[o], n)
      /\ (~ Recon(n) => Agreed(row[o], Flushing(o), Working[o]))
  <2>1. CASE n.run # "none"
    BY <1>1, <2>1, AdvancesWritable
  <2>2. CASE n.run = "none"
    BY <1>1, <2>2, ResultWritable
  <2> QED BY <2>1, <2>2
<1> QED BY <1>1, <1>2, PersistProgress

LEMMA HandlerReturnsProgress ==
    ASSUME Assumptions, CopiesOK, Rooted, \A u \in Ops : Fit(u), NEW o \in Ops, HandlerReturns(o)
    PROVE  Progress(o, FALSE)
PROOF
<1> DEFINE n == [mem[o] EXCEPT !.run = "returned", !.rev = @ + 1]
<1>1. mem[o] \in Record /\ Live(o) /\ Persist(o, n)
  BY RunFacts DEF HandlerReturns, Live
<1>0. mem[o].rev + 1 \in Nat
  BY <1>1 DEF Record
<1>2. /\ n \in Record /\ n.rev = mem[o].rev + 1 /\ n.ack = mem[o].ack /\ n.by = mem[o].by
      /\ n.run # "none" /\ n.st = mem[o].st
  BY <1>0, <1>1 DEF Record
<1> HIDE DEF n
<1> QED BY <1>1, <1>2, RunProgress

LEMMA SettleProgress ==
    ASSUME Assumptions, CopiesOK, Rooted, \A u \in Ops : Fit(u), NEW o \in Ops, Settle(o)
    PROVE  Progress(o, FALSE)
PROOF
<1> DEFINE n == [mem[o] EXCEPT !.st = Outcome(mem[o]), !.run = "none", !.rev = @ + 1]
<1>1. mem[o] \in Record /\ Live(o) /\ Persist(o, n)
  BY RunFacts DEF Settle, Live
<1>0. mem[o].rev + 1 \in Nat
  BY <1>1 DEF Record
<1>2. Outcome(mem[o]) \in Statuses /\ Outcome(mem[o]) # "running"
  BY DEF Outcome, Statuses
<1>3. /\ n \in Record /\ n.rev = mem[o].rev + 1 /\ n.ack = mem[o].ack /\ n.by = mem[o].by
      /\ n.run = "none" /\ ~ Running(n)
  BY <1>0, <1>1, <1>2 DEF Record, Running
<1> HIDE DEF n
<1> QED BY <1>1, <1>3, RunProgress

LEMMA ShutdownProgress ==
    ASSUME Assumptions, CopiesOK, Rooted, \A u \in Ops : Fit(u), NEW o \in Ops, Shutdown(o)
    PROVE  Progress(o, FALSE)
PROOF
<1> DEFINE n == [mem[o] EXCEPT !.abort = "shutdown", !.rev = @ + 1]
<1>1. mem[o] \in Record /\ Live(o) /\ mem[o].run # "none" /\ Persist(o, n)
  BY RunFacts DEF Shutdown, Live
<1>0. mem[o].rev + 1 \in Nat
  BY <1>1 DEF Record
<1>2. /\ n \in Record /\ n.rev = mem[o].rev + 1 /\ n.ack = mem[o].ack /\ n.by = mem[o].by
      /\ n.run # "none" /\ n.st = mem[o].st
  BY <1>0, <1>1 DEF Record
<1> HIDE DEF n
<1> QED BY <1>1, <1>2, RunProgress

LEMMA CancelProgress ==
    ASSUME Assumptions, CopiesOK, Rooted, \A u \in Ops : Fit(u), NEW o \in Ops, Cancel(o)
    PROVE  Progress(o, FALSE)
PROOF
<1> DEFINE m == [mem[o] EXCEPT !.stop = TRUE, !.rev = @ + 1]
<1>1. /\ mem[o] # None /\ Running(mem[o]) /\ mem[o] \in Record /\ row[o] # None
      /\ Coherent(row[o], Flushing(o), Working[o], file[o], mem[o])
      /\ mem[o].ack => Acknowledged(Working[o], file[o], mem[o])
      /\ Live(o) <=> mem[o].run # "none"
  BY RunFacts DEF Cancel
<1>0. mem[o].rev + 1 \in Nat
  BY <1>1 DEF Record
<1>2. CASE Live(o)
  <2> DEFINE n == [m EXCEPT !.abort = IF @ = "no" THEN "cancel" ELSE @]
  <2>1. Persist(o, n)
    BY <1>2 DEF Cancel
  <2>2. m \in Record /\ m.rev = mem[o].rev + 1 /\ m.ack = mem[o].ack /\ m.by = mem[o].by
        /\ m.run = mem[o].run /\ m.st = mem[o].st
    BY <1>0, <1>1 DEF Record
  <2> HIDE DEF m
  <2>3. /\ n \in Record /\ n.rev = mem[o].rev + 1 /\ n.ack = mem[o].ack /\ n.by = mem[o].by
        /\ n.run # "none" /\ n.st = mem[o].st
    BY <1>1, <1>2, <2>2 DEF Record
  <2> HIDE DEF n
  <2> QED BY <1>2, <2>1, <2>3, RunProgress
<1>3. CASE ~ Live(o)
  <2>1. mem' = [mem EXCEPT ![o] = m] /\ UNCHANGED store
    BY <1>3 DEF Cancel
  <2>2. UNCHANGED <<row, pend, file>> /\ faults' \in 0 .. MaxFaults
    BY <2>1 DEF store, CopiesOK
  <2>3. /\ m \in Record /\ m.run = "none" /\ m.st = mem[o].st /\ m.rev = mem[o].rev + 1
        /\ m.ack = mem[o].ack /\ m.by = mem[o].by /\ m.dur = mem[o].dur
        /\ m.repair = mem[o].repair /\ m.retry = mem[o].retry /\ m.err = mem[o].err
    BY <1>0, <1>1, <1>3 DEF Record
  <2> HIDE DEF m
  <2>4. Coherent(row[o], Flushing(o), Working[o], file[o], m)
    BY <1>1, <1>3, <2>3, CancelsReadBack
  <2> QED BY <1>1, <2>1, <2>2, <2>3, <2>4, RecordProgress
<1> QED BY <1>2, <1>3
LEMMA RecoverProgress ==
    ASSUME Assumptions, CopiesOK, Rooted, \A u \in Ops : Fit(u), NEW o \in Ops, Recover(o)
    PROVE  Progress(o, FALSE)
PROOF
<1> DEFINE c == row[o]
           s == Flushing(o)
           p == Working[o]
           f == file[o]
           read == Selected(p, f)
           e == read.entry
<1>1. mem[o] = None /\ p # None /\ e # None
  BY DEF Recover, Lost
<1>2. row[o] # None /\ p \in Entry /\ Coherent(c, s, p, f, None) /\ (IsJournal(f) => f \in Entry /\ ~ Running(f))
  BY <1>1, WorkingOK, FitFacts DEF Fit, Coherent, Journaled
<1>3. \/ e = p /\ read.from = "row" /\ ~ IsJournal(f)
      \/ /\ e = f /\ read.from = "journal" /\ IsJournal(f) /\ ~ Disagree(f, p)
         /\ Ahead(f, p) \/ (f.rev = p.rev /\ f.ack = p.ack)
      \/ /\ e = p /\ read.from = "stale journal" /\ IsJournal(f) /\ ~ Disagree(f, p)
         /\ ~ Ahead(f, p) /\ ~ (f.rev = p.rev /\ f.ack = p.ack)
  BY <1>1 DEF Selected
<1>4. e \in Entry
  BY <1>2, <1>3
<1>5. IF Running(e) /\ ~ owner[o] THEN RecoverInterrupted(o, e) ELSE RecoverResult(o, read)
  BY DEF Recover
<1>6. CASE Running(e) /\ RecoverInterrupted(o, e)
  <2> DEFINE m == Interrupted(e)
  <2>1. ~ IsJournal(f) /\ e = p
    <3>1. CASE e = f /\ IsJournal(f)
      BY <1>2, <1>6, <3>1
    <3>2. CASE e = p /\ IsJournal(f) /\ ~ Disagree(f, p) /\ ~ Ahead(f, p) /\ ~ (f.rev = p.rev /\ f.ack = p.ack)
      <4>1. Hydrated(p) \in Record /\ Says(p, Hydrated(p)) /\ Hydrated(p).run = "none"
        BY <1>2, HydratedSays
      <4>2. ~ Running(Hydrated(p))
        BY <1>2, <3>2, <4>1, OvertakenWritable
      <4> QED BY <1>6, <3>2, <4>1, <4>2 DEF Says, Running
    <3> QED BY <1>3, <3>1, <3>2
  <2>2. e.rev + 1 \in Nat
    BY <1>4 DEF Entry
  <2>3. /\ m \in Record /\ m.run = "none" /\ m.st = "interrupted" /\ m.rev = e.rev + 1
        /\ m.ack = e.ack /\ m.by = "recovery" /\ m.dur = "persisted" /\ ~ m.repair
    <3>1. /\ Hydrated(e) \in Record /\ Says(e, Hydrated(e)) /\ Hydrated(e).run = "none"
          /\ Hydrated(e).dur = "persisted" /\ ~ Hydrated(e).repair
      BY <1>4, HydratedSays
    <3>2. Hydrated(e).rev + 1 \in Nat /\ Hydrated(e).rev = e.rev /\ Hydrated(e).ack = e.ack
      BY <2>2, <3>1 DEF Says
    <3> QED BY <3>1, <3>2 DEF Interrupted, Record, Statuses
  <2> HIDE DEF m
  <2>4. ~ Running(m)
    BY <2>3 DEF Running
  <2>5. /\ Writable(c, s, p, f, m)
        /\ ~ Recon(m) => Agreed(c, s, p)
    BY <1>2, <1>6, <2>1, <2>3, InterruptedWritable
  <2>6. m.ack => Acknowledged(p, f, mem[o])
    BY <2>1, <2>3 DEF Acknowledged
  <2>7. PICK db \in DbOutcomes, fileOk \in BOOLEAN :
           LET w == RowWrite(o, EntryOf(m), db) IN
           /\ Faults(o, db, fileOk)
           /\ row' = w.row
           /\ pend' = w.pend
           /\ file' = IF w.err = "none" /\ fileOk THEN [file EXCEPT ![o] = Pointer] ELSE file
           /\ mem' = [mem EXCEPT ![o] = IF w.err = "none" THEN m
                                        ELSE Noted(m, "memory_only", w.err, FALSE)]
    BY <1>6 DEF RecoverInterrupted, m
  <2> DEFINE err == RowWrite(o, EntryOf(m), db).err
             g == IF err = "none" /\ fileOk THEN Pointer ELSE f
             n == IF err = "none" THEN m ELSE Noted(m, "memory_only", err, FALSE)
  <2>8. err \in {"none", "transient", "hard"}
    BY DEF RowWrite
  <2>9. row' = RowWrite(o, EntryOf(m), db).row /\ pend' = RowWrite(o, EntryOf(m), db).pend
    BY <2>7
  <2>10. file' = [file EXCEPT ![o] = g] /\ mem' = [mem EXCEPT ![o] = n]
    BY <2>7 DEF CopiesOK
  <2>11. faults' \in 0 .. MaxFaults
    BY <2>7, Faulted
  <2>12. Carries(n, m) /\ FileWritten(f, m, err, g, n)
    <3>1. CASE err = "none"
      BY <2>3, <3>1 DEF Carries, FileWritten
    <3>2. CASE err # "none"
      <4>1. ASSUME NEW repair \in BOOLEAN
            PROVE  /\ Carries(Noted(m, "memory_only", err, repair), m)
                   /\ Noted(m, "memory_only", err, repair).dur = "memory_only"
                   /\ Noted(m, "memory_only", err, repair).repair = repair
        BY <2>3, <2>8, NotedRecord
      <4> QED BY <3>2, <4>1 DEF FileWritten
    <3> QED BY <3>1, <3>2
  <2> HIDE DEF g, n
  <2> QED BY <1>2, <2>3, <2>4, <2>5, <2>6, <2>9, <2>10, <2>11, <2>12, WriteProgress
<1>7. CASE read.from = "stale journal" /\ RecoverResult(o, read)
  <2> DEFINE m == [Hydrated(e) EXCEPT !.dur = "memory_only", !.repair = TRUE]
  <2>1. /\ e = p /\ IsJournal(f) /\ ~ Disagree(f, p)
        /\ ~ Ahead(f, p) /\ ~ (f.rev = p.rev /\ f.ack = p.ack)
    BY <1>3, <1>7
  <2>2. Repair(o, m)
    BY <1>7 DEF RecoverResult
  <2>3. m \in Record /\ Says(p, m) /\ m.run = "none" /\ m.dur = "memory_only"
    <3>1. Hydrated(e) \in Record /\ Says(e, Hydrated(e)) /\ Hydrated(e).run = "none"
      BY <1>4, HydratedSays
    <3> QED BY <2>1, <3>1 DEF Record, Says
  <2> HIDE DEF m
  <2>4. /\ ~ Running(m) /\ Writable(c, s, p, f, m) /\ (~ Recon(m) => Agreed(c, s, p))
        /\ ~ Overtakes(c, p) /\ Undeferred(c, s, p, m)
    BY <1>2, <2>1, <2>3, OvertakenWritable
  <2>5. Claimed(c, s, p, f, m)
    BY <2>3 DEF Claimed
  <2>6. m.ack => Acknowledged(p, f, mem[o])
    BY <2>3 DEF Says, Acknowledged
  <2> QED BY <1>2, <2>2, <2>3, <2>4, <2>5, <2>6, RepairProgress
<1>8. CASE read.from = "journal" /\ RecoverResult(o, read)
  <2> DEFINE n == [Hydrated(e) EXCEPT !.dur = "journaled", !.retry = TRUE]
  <2>1. /\ e = f /\ IsJournal(f) /\ ~ Disagree(f, p)
        /\ Ahead(f, p) \/ (f.rev = p.rev /\ f.ack = p.ack)
    BY <1>3, <1>8
  <2>2. mem' = [mem EXCEPT ![o] = n] /\ UNCHANGED store
    BY <1>8 DEF RecoverResult
  <2>3. n \in Record /\ Says(f, n) /\ n.run = "none" /\ n.dur = "journaled" /\ ~ n.repair
    <3>1. Hydrated(e) \in Record /\ Says(e, Hydrated(e)) /\ Hydrated(e).run = "none" /\ ~ Hydrated(e).repair
      BY <1>4, HydratedSays
    <3> QED BY <2>1, <3>1 DEF Record, Says
  <2> HIDE DEF n
  <2>4. Coherent(c, s, p, f, n)
    BY <1>2, <2>1, <2>3, ReadsJournal
  <2>5. n.ack => Acknowledged(p, f, mem[o])
    BY <2>1, <2>3 DEF Says, Acknowledged
  <2>6. UNCHANGED <<row, pend, file>> /\ faults' \in 0 .. MaxFaults
    BY <2>2 DEF store, CopiesOK
  <2> QED BY <1>2, <2>2, <2>3, <2>4, <2>5, <2>6, RecordProgress
<1>9. CASE read.from = "row" /\ RecoverResult(o, read)
  <2> DEFINE n == Hydrated(p)
  <2>1. e = p /\ ~ IsJournal(f)
    BY <1>3, <1>9
  <2>2. mem' = [mem EXCEPT ![o] = n] /\ UNCHANGED store
    BY <1>9, <2>1 DEF RecoverResult
  <2>3. /\ n \in Record /\ Says(p, n) /\ n.run = "none" /\ n.dur = "persisted"
        /\ ~ n.repair /\ ~ n.retry /\ n.err = "none"
    BY <1>2, HydratedSays
  <2> HIDE DEF n
  <2>4. Coherent(c, s, p, f, n)
    BY <1>2, <2>1, <2>3, ReadsRow
  <2>5. n.ack => Acknowledged(p, f, mem[o])
    BY <2>3 DEF Says, Acknowledged
  <2>6. UNCHANGED <<row, pend, file>> /\ faults' \in 0 .. MaxFaults
    BY <2>2 DEF store, CopiesOK
  <2> QED BY <1>2, <2>2, <2>3, <2>4, <2>5, <2>6, RecordProgress
<1> QED BY <1>3, <1>5, <1>6, <1>7, <1>8, <1>9

(* Row and deferred write move without o, or everything stands. *)
LEMMA ShiftProgress ==
    ASSUME CopiesOK, Rooted, \A u \in Ops : Fit(u), NEW o, NEW a \in BOOLEAN,
           UNCHANGED <<mem, file>>, faults' \in 0 .. MaxFaults,
           row' \in [Ops -> Entry \union {None}], pend' \in Snapshot \union {None},
           \A u \in Ops : Shifts(u),
           pend' # None => \A u \in Ops : /\ pend'.ops[u] = None <=> row'[u] = None
                                          /\ pend'.snap[u] = None <=> row'[u] = None
    PROVE  Progress(o, a)
PROOF
<1>1. \A u \in Ops : Advances(u, FALSE)
  BY ShiftsAdvance
<1>2. \A u \in Ops : row'[u] = None <=> row[u] = None
  BY <1>1 DEF Advances
<1>3. CopiesOK' /\ Rooted'
  BY <1>2 DEF CopiesOK, Rooted
<1>4. \A u \in Ops : Advances(u, u = o /\ a)
  BY <1>1 DEF Advances
<1> QED BY <1>3, <1>4 DEF Progress

LEMMA StandsProgress ==
    ASSUME CopiesOK, Rooted, \A u \in Ops : Fit(u), NEW o, NEW a \in BOOLEAN,
           UNCHANGED <<mem, row, pend, file, faults>>
    PROVE  Progress(o, a)
PROOF
<1>1. \A u \in Ops : Shifts(u)
  BY DEF Shifts, Flushing, Working
<1> QED BY <1>1, ShiftProgress DEF CopiesOK, Rooted

LEMMA DeferProgress ==
    ASSUME CopiesOK, Rooted, \A u \in Ops : Fit(u), Defer
    PROVE  Progress(None, FALSE)
PROOF
<1>1. UNCHANGED <<mem, row, file, faults>> /\ faults' \in 0 .. MaxFaults
  BY DEF Defer, CopiesOK
<1>2. CASE pend = None
  <2>1. pend' = [ops |-> row, snap |-> row, writing |-> FALSE, dirty |-> FALSE]
    BY <1>2 DEF Defer
  <2>0. row \in [Ops -> Entry \union {None}]
    BY DEF CopiesOK
  <2>2. pend' \in Snapshot /\ pend' # None
    <3>1. pend' \in Snapshot
      BY <2>0, <2>1 DEF Snapshot
    <3> QED BY <3>1, NoCopyAssumption
  <2>3. \A u \in Ops : Shifts(u)
    BY <1>1, <1>2, <2>1, <2>2 DEF Shifts, Flushing, Working
  <2> QED BY <1>1, <2>1, <2>2, <2>3, ShiftProgress DEF CopiesOK
<1>3. CASE pend # None
  <2>1. pend' = [pend EXCEPT !.dirty = pend.writing] /\ pend \in Snapshot
    BY <1>3 DEF Defer, CopiesOK
  <2>2. pend' \in Snapshot /\ pend'.ops = pend.ops /\ pend'.snap = pend.snap
    BY <2>1 DEF Snapshot
  <2>3. pend' # None
    BY <2>2, NoCopyAssumption
  <2>4. \A u \in Ops : Shifts(u)
    BY <1>1, <1>3, <2>2, <2>3 DEF Shifts, Flushing, Working
  <2>5. \A u \in Ops : /\ pend'.ops[u] = None <=> row'[u] = None
                       /\ pend'.snap[u] = None <=> row'[u] = None
    BY <1>1, <1>3, <2>2 DEF Rooted
  <2>6. row' \in [Ops -> Entry \union {None}] /\ pend' \in Snapshot \union {None}
    BY <1>1, <2>2 DEF CopiesOK
  <2> HIDE DEF Shifts
  <2> QED BY <1>1, <2>4, <2>5, <2>6, ShiftProgress
<1> QED BY <1>2, <1>3

LEMMA StartFlushProgress ==
    ASSUME CopiesOK, Rooted, \A u \in Ops : Fit(u), StartFlush
    PROVE  Progress(None, FALSE)
PROOF
<1>1. /\ UNCHANGED <<mem, row, file, faults>> /\ faults' \in 0 .. MaxFaults
      /\ pend # None /\ pend \in Snapshot
      /\ pend' = [pend EXCEPT !.writing = TRUE, !.snap = pend.ops, !.dirty = FALSE]
  BY DEF StartFlush, CopiesOK
<1>2. pend' \in Snapshot /\ pend'.ops = pend.ops /\ pend'.snap = pend.ops
  BY <1>1 DEF Snapshot
<1>3. pend' # None
  BY <1>2, NoCopyAssumption
<1>4. \A u \in Ops : Shifts(u)
  BY <1>1, <1>2, <1>3 DEF Shifts, Flushing, Working
<1>5. \A u \in Ops : /\ pend'.ops[u] = None <=> row'[u] = None
                     /\ pend'.snap[u] = None <=> row'[u] = None
  BY <1>1, <1>2 DEF Rooted
<1>6. row' \in [Ops -> Entry \union {None}] /\ pend' \in Snapshot \union {None}
  BY <1>1, <1>2 DEF CopiesOK
<1> QED BY <1>1, <1>4, <1>5, <1>6, ShiftProgress

LEMMA EndFlushProgress ==
    ASSUME Assumptions, CopiesOK, Rooted, \A u \in Ops : Fit(u), EndFlush
    PROVE  Progress(None, FALSE)
PROOF
<1>1. /\ UNCHANGED <<mem, file>> /\ faults' \in 0 .. MaxFaults
      /\ pend # None /\ pend \in Snapshot /\ pend.snap \in [Ops -> Entry \union {None}]
      /\ \A u \in Ops : /\ pend.ops[u] = None <=> row[u] = None
                        /\ pend.snap[u] = None <=> row[u] = None
  BY DEF EndFlush, Writing, CopiesOK, Snapshot, Assumptions, Rooted
<1>2. row' \in {row, pend.snap}
  BY DEF EndFlush
<1>3. /\ row' \in [Ops -> Entry \union {None}]
      /\ \A u \in Ops : row'[u] = None <=> row[u] = None
  BY <1>1, <1>2 DEF CopiesOK
<1>4. CASE pend' = [pend EXCEPT !.writing = FALSE, !.dirty = FALSE, !.snap = pend.ops]
  <2>1. pend' \in Snapshot /\ pend'.ops = pend.ops /\ pend'.snap = pend.ops
    BY <1>1, <1>4 DEF Snapshot
  <2>2. pend' # None
    BY <2>1, NoCopyAssumption
  <2>3. \A u \in Ops : Shifts(u)
    BY <1>1, <1>2, <2>1, <2>2 DEF Shifts, Flushing, Working
  <2>4. \A u \in Ops : /\ pend'.ops[u] = None <=> row'[u] = None
                       /\ pend'.snap[u] = None <=> row'[u] = None
    BY <1>1, <1>3, <2>1
  <2> QED BY <1>1, <1>3, <2>1, <2>3, <2>4, ShiftProgress
<1>5. CASE pend' = None /\ row' = pend.snap
  <2>1. \A u \in Ops : Shifts(u)
    BY <1>1, <1>5 DEF Shifts, Flushing, Working
  <2> QED BY <1>1, <1>3, <1>5, <2>1, ShiftProgress
<1> QED BY <1>4, <1>5 DEF EndFlush

LEMMA CrashProgress ==
    ASSUME Assumptions, CopiesOK, Rooted, \A u \in Ops : Fit(u), Crash
    PROVE  Progress(None, FALSE)
PROOF
<1>1. /\ mem' = [o \in Ops |-> None] /\ pend' = None /\ UNCHANGED <<row, file>>
      /\ faults' \in 0 .. MaxFaults
  BY DEF Crash, CopiesOK, Assumptions
<1>2. CopiesOK' /\ Rooted'
  BY <1>1 DEF CopiesOK, Rooted
<1>3. ASSUME NEW u \in Ops
      PROVE  Advances(u, FALSE)
  <2>1. row'[u] = row[u] /\ Flushing(u)' = row[u] /\ Working'[u] = row[u] /\ mem'[u] = None /\ file'[u] = file[u]
    BY <1>1 DEF Flushing, Working
  <2>2. CASE row[u] = None
    BY <2>1, <2>2 DEF Advances, Fit, Final, Selected, IsJournal, Live, Rooted
  <2>3. CASE row[u] # None
    <3>1. Coherent(row[u], Flushing(u), Working[u], file[u], mem[u])
      BY <2>3 DEF Fit
    <3>2. Coherent(row[u], row[u], row[u], file[u], None)
      BY <3>1, Crashes
    <3>3. Final(row[u], file[u], row[u], file[u])
      BY <3>1, CollapsesFinal
    <3>4. row[u].ack => Working[u].ack
      BY <3>1, LaterTwice DEF Coherent, Chained, Later
    <3> QED BY <2>1, <2>3, <3>2, <3>3, <3>4 DEF Advances, Fit, Acknowledged, Live
  <2> QED BY <2>2, <2>3
<1> QED BY <1>2, <1>3 DEF Progress

LEMMA OwnerStopsProgress ==
    ASSUME Assumptions, CopiesOK, Rooted, \A u \in Ops : Fit(u), NEW o \in Ops, OwnerStops(o),
           owner \in [Ops -> BOOLEAN], row[o] # None
    PROVE  Progress(o, FALSE)
PROOF
<1> DEFINE c == row[o]
           r == [c EXCEPT !.st = "interrupted", !.rev = @ + 1, !.by = "reconciliation"]
           d == row'[o]
<1>1. /\ ~ Live(o) /\ pend = None /\ UNCHANGED <<mem, pend, file, faults>> /\ ~ owner'[o]
      /\ faults' \in 0 .. MaxFaults
  BY DEF OwnerStops, CopiesOK
<1>2. c \in Entry /\ Coherent(c, c, c, file[o], mem[o])
  BY <1>1 DEF CopiesOK, Fit, Flushing, Working
<1>3. c.rev + 1 \in Nat
  BY <1>2 DEF Entry
<1>4. r \in Entry /\ r.st = "interrupted" /\ r.rev = c.rev + 1 /\ r.ack = c.ack /\ r.by = "reconciliation"
  BY <1>2, <1>3 DEF Entry, Statuses
<1>5. \A u \in Ops : Flushing(u)' = row'[u] /\ Working'[u] = row'[u] /\ Working[u] = row[u] /\ Flushing(u) = row[u]
  BY <1>1 DEF Flushing, Working
<1>6. CASE row' = row
  BY <1>1, <1>6, StandsProgress
<1>7. CASE row' # row
  <2>1. /\ row' = [row EXCEPT ![o].st = "interrupted", ![o].rev = @ + 1, ![o].by = "reconciliation"]
        /\ c.st \in {"running", "interrupted"} /\ ~ Recon(c)
    BY <1>7 DEF OwnerStops, Recon
  <2>2. row' = [row EXCEPT ![o] = r]
    BY <2>1 DEF CopiesOK
  <2>3. /\ row' \in [Ops -> Entry \union {None}] /\ d = r
        /\ \A u \in Ops \ {o} : row'[u] = row[u]
        /\ \A u \in Ops : row'[u] = None <=> row[u] = None
    BY <1>2, <1>4, <2>2, NoCopyAssumption DEF CopiesOK
  <2> HIDE DEF r
  <2>4. CopiesOK' /\ Rooted'
    BY <1>1, <2>3 DEF CopiesOK, Rooted
  <2>5. ASSUME NEW u \in Ops \ {o}
        PROVE  Advances(u, u = o /\ FALSE)
    <3>1. Advances(u, FALSE)
      BY <1>1, <1>5, <2>3, ShiftsAdvance DEF Shifts
    <3> QED BY <3>1
  <2>6. mem[o] # None => mem[o].run = "none"
    BY <1>1 DEF Live
  <2>7. Coherent(d, d, d, file[o], mem[o]) /\ Final(c, file[o], d, file[o])
    BY <1>2, <1>4, <2>1, <2>3, <2>6, Reconciles
  <2>8. Advances(o, FALSE)
    BY <1>1, <1>4, <1>5, <2>3, <2>7 DEF Advances, Fit, Acknowledged, Live
  <2> QED BY <2>4, <2>5, <2>8 DEF Progress
<1> QED BY <1>6, <1>7
-----------------------------------------------------------------------------
(* The inductive invariant: beside the copies, who has heard what. *)

(* Of an operation without a row nothing is known to anybody. *)
Unheard ==
    \A o \in Ops : row[o] = None =>
        ~ owner[o] /\ o \notin started /\ o \notin received /\ \A r \in replies : r.op # o

(* A process on record belongs to an operation that was not reconciled. *)
Owned == \A o \in Ops : row[o] # None /\ owner[o] => ~ Recon(row[o])

(* Nobody was told a result of a run that goes on. *)
Open == \A o \in Ops : Live(o) =>
            o \notin received /\ \A r \in replies : r.op = o => r.st = "running"

(* Only what a client received is acknowledged. *)
Heeded == \A o \in Ops :
            row[o] # None /\ Acknowledged(Working[o], file[o], mem[o]) => o \in received

(* Of two operations of one request that were admitted, one was received. *)
Once == \A o, p \in Ops :
            o # p /\ Asks[o] = Asks[p] /\ row[o] # None /\ row[p] # None =>
                o \in received \/ p \in received

Ledger ==
    /\ TypeOK
    /\ Rooted
    /\ \A o \in Ops : Fit(o)
    /\ Unheard
    /\ Owned
    /\ Open
    /\ Heeded
    /\ Once

LEMMA LedgerFacts ==
    ASSUME Ledger
    PROVE  CopiesOK /\ Rooted /\ \A u \in Ops : Fit(u)
PROOF BY DEF Ledger, TypeOK, CopiesOK

(* What a step says and counts beside its writes. *)
LEMMA ProgressKeeps ==
    ASSUME Ledger, NEW o, NEW a \in BOOLEAN, Progress(o, a), a => o \in received',
           owner' \in [Ops -> BOOLEAN], replies' \subseteq [op : Ops, st : Statuses, rev : Nat],
           started' \subseteq Ops, received' \subseteq Ops, defers' \in 0 .. MaxDefers,
           received \subseteq received',
           \A u \in Ops : u \in received' => u \in received \/ \E r \in replies : r.op = u /\ r.st # "running",
           \A r \in replies' : r \in replies \/ (mem[r.op] # None /\ (Live(r.op) => r.st = "running")),
           \A u \in Ops : u \in started' => u \in started \/ Live(u),
           \A u \in Ops : owner'[u] => owner[u] \/ Live(u)
    PROVE  Ledger'
PROOF
<1>1. TypeOK'
  BY DEF Progress, CopiesOK, TypeOK
<1>2. Rooted' /\ \A u \in Ops : Fit(u)'
  BY DEF Progress, Advances
<1>3. \A u \in Ops : row'[u] = None <=> row[u] = None
  BY DEF Progress, Advances
<1>4. \A u \in Ops : row[u] = None => mem[u] = None
  BY DEF Ledger, Rooted
<1>5. ASSUME NEW u \in Ops, Live(u)
      PROVE  /\ row[u] # None /\ ~ Recon(row[u])
             /\ u \notin received /\ \A r \in replies : r.op = u => r.st = "running"
  <2>1. row[u] # None /\ row[u].by = "run"
    BY <1>5, LedgerFacts, RunFacts DEF Live
  <2> QED BY <1>5, <2>1 DEF Ledger, Open, Recon
<1>6. Unheard'
  <2> SUFFICES ASSUME NEW u \in Ops, row'[u] = None
               PROVE  ~ owner'[u] /\ u \notin started' /\ u \notin received' /\ \A r \in replies' : r.op # u
    BY DEF Unheard
  <2>1. row[u] = None /\ ~ Live(u) /\ mem[u] = None
    BY <1>3, <1>4 DEF Live
  <2>2. ~ owner[u] /\ u \notin started /\ u \notin received /\ \A r \in replies : r.op # u
    BY <2>1 DEF Ledger, Unheard
  <2> QED BY <2>1, <2>2
<1>7. Owned'
  <2> SUFFICES ASSUME NEW u \in Ops, row'[u] # None, owner'[u], Recon(row'[u])
               PROVE  FALSE
    BY DEF Owned
  <2>1. Recon(row[u]) /\ row[u] # None
    BY <1>3 DEF Progress, Advances
  <2>2. ~ owner[u]
    BY <2>1 DEF Ledger, Owned
  <2> QED BY <1>5, <2>1, <2>2
<1>8. Open'
  <2> SUFFICES ASSUME NEW u \in Ops, Live(u)'
               PROVE  u \notin received' /\ \A r \in replies' : r.op = u => r.st = "running"
    BY DEF Open
  <2>1. Live(u)
    BY DEF Progress, Advances
  <2> QED BY <1>5, <2>1
<1>9. Heeded'
  <2> SUFFICES ASSUME NEW u \in Ops, row'[u] # None, Acknowledged(Working'[u], file'[u], mem'[u])
               PROVE  u \in received'
    BY DEF Heeded
  <2>1. Acknowledged(Working[u], file[u], mem[u]) \/ (u = o /\ a)
    BY <1>3 DEF Progress, Advances
  <2>2. Acknowledged(Working[u], file[u], mem[u]) => u \in received
    BY <1>3 DEF Ledger, Heeded
  <2> QED BY <2>1, <2>2
<1>10. Once'
  BY <1>3 DEF Ledger, Once
<1> QED BY <1>1, <1>2, <1>6, <1>7, <1>8, <1>9, <1>10 DEF Ledger

(* A step that starts no handler, sends and receives nothing, and puts no  *)
(* process on record.                                                      *)
LEMMA QuietKeeps ==
    ASSUME Ledger, NEW o, Progress(o, FALSE),
           UNCHANGED <<started, received>>, replies' \subseteq replies,
           owner' \in [Ops -> BOOLEAN], \A u \in Ops : owner'[u] => owner[u],
           defers' \in 0 .. MaxDefers
    PROVE  Ledger' /\ \A u \in Ops : Final(row[u], file[u], row'[u], file'[u])
PROOF
<1>1. started \subseteq Ops /\ received \subseteq Ops /\ replies \subseteq [op : Ops, st : Statuses, rev : Nat]
  BY DEF Ledger, TypeOK
<1>2. Ledger'
  BY <1>1, ProgressKeeps
<1>3. \A u \in Ops : Final(row[u], file[u], row'[u], file'[u])
  BY DEF Progress, Advances
<1> QED BY <1>2, <1>3

LEMMA Settles ==
    ASSUME NEW o \in Ops, owner \in [Ops -> BOOLEAN], ProcessSettles(o)
    PROVE  owner' \in [Ops -> BOOLEAN] /\ \A u \in Ops : owner'[u] => owner[u]
PROOF BY DEF ProcessSettles

(* Requests: everything of the task is known, and all of the same request  *)
(* is over and acknowledged.                                               *)
LEMMA AdmitKeeps ==
    ASSUME Assumptions, Ledger, NEW o \in Ops, Admit(o)
    PROVE  Ledger' /\ \A u \in Ops : Final(row[u], file[u], row'[u], file'[u])
PROOF
<1> DEFINE c == EntryOf(Accepted)
<1>1. /\ pend = None /\ pend' = None /\ mem[o] = None /\ row[o] = None
      /\ row' = [row EXCEPT ![o] = c]
      /\ UNCHANGED <<owner, replies, started, received, defers>>
  BY DEF Admit, ghost
<1>2. /\ c \in Entry /\ Running(c) /\ ~ c.ack /\ c.by = "run" /\ c.rev = 1 /\ c # None
      /\ Accepted \in Record /\ Running(Accepted) /\ Accepted.run # "none" /\ ~ Accepted.ack
      /\ Accepted.by = "run" /\ Accepted.rev = 1 /\ Accepted.dur = "persisted" /\ Accepted # None
  <2>1. /\ Accepted \in Record /\ Running(Accepted) /\ Accepted.run # "none" /\ ~ Accepted.ack
        /\ Accepted.by = "run" /\ Accepted.rev = 1 /\ Accepted.dur = "persisted"
    BY DEF Accepted, Record, Statuses, Running
  <2>2. c \in Entry /\ Says(c, Accepted)
    BY <2>1, EntryOfSays
  <2>3. c # None /\ Accepted # None
    BY <2>1, <2>2, NoCopyAssumption
  <2> HIDE DEF c
  <2> QED BY <2>1, <2>2, <2>3 DEF Says, Running
<1> HIDE DEF c
<1>3. CopiesOK /\ Rooted /\ \A u \in Ops : Fit(u)
  BY LedgerFacts
<1>4. file[o] = None /\ ~ owner[o] /\ o \notin started /\ o \notin received /\ \A r \in replies : r.op # o
  BY <1>1, <1>3 DEF Ledger, Unheard, Rooted
<1>5. \/ file' = [file EXCEPT ![o] = Pointer] /\ mem' = [mem EXCEPT ![o] = Accepted] /\ UNCHANGED faults
      \/ Faults(o, "ok", FALSE) /\ UNCHANGED <<file, mem>>
  BY DEF Admit
<1>6. faults' \in 0 .. MaxFaults
  BY <1>3, <1>5, Faulted DEF CopiesOK
<1>7. /\ row' \in [Ops -> Entry \union {None}] /\ row'[o] = c
      /\ \A u \in Ops \ {o} : row'[u] = row[u]
  BY <1>1, <1>2, <1>3 DEF CopiesOK
<1>8. /\ mem' \in [Ops -> Record \union {None}] /\ file' \in [Ops -> Entry \union {None, Pointer}]
      /\ \A u \in Ops \ {o} : mem'[u] = mem[u] /\ file'[u] = file[u]
  <2>1. mem \in [Ops -> Record \union {None}] /\ file \in [Ops -> Entry \union {None, Pointer}]
    BY <1>3 DEF CopiesOK
  <2>2. CASE file' = [file EXCEPT ![o] = Pointer] /\ mem' = [mem EXCEPT ![o] = Accepted]
    BY <1>2, <2>1, <2>2
  <2>3. CASE UNCHANGED <<file, mem>>
    BY <2>1, <2>3
  <2> QED BY <1>5, <2>2, <2>3
<1>9. ~ IsJournal(file'[o]) /\ (mem'[o] = None \/ mem'[o] = Accepted)
  BY <1>1, <1>3, <1>4, <1>5 DEF CopiesOK, IsJournal
<1>10. CopiesOK' /\ Rooted'
  BY <1>1, <1>2, <1>3, <1>6, <1>7, <1>8 DEF CopiesOK, Rooted
<1>11. \A u \in Ops : /\ Flushing(u)' = row'[u] /\ Working'[u] = row'[u]
                      /\ Flushing(u) = row[u] /\ Working[u] = row[u]
  BY <1>1 DEF Flushing, Working
<1>12. Coherent(c, c, c, file'[o], mem'[o])
  <2> DEFINE g == file'[o]
             n == mem'[o]
  <2>1. n # None => /\ n \in Record /\ Running(n) /\ n.run # "none" /\ ~ n.ack /\ n.by = "run"
                    /\ c.rev <= n.rev /\ n.dur = "persisted"
    BY <1>2, <1>9
  <2>2. ~ IsJournal(g)
    BY <1>9
  <2> HIDE DEF g, n
  <2>3. Coherent(c, c, c, g, n)
    BY <1>2, <2>1, <2>2, Accepts
  <2> QED BY <2>3 DEF g, n
<1>13. ASSUME NEW u \in Ops
       PROVE  Fit(u)' /\ Final(row[u], file[u], row'[u], file'[u])
  <2>1. CASE u = o
    BY <1>1, <1>4, <1>7, <1>11, <1>12, <2>1 DEF Fit, Final, Selected, IsJournal
  <2>2. CASE u # o
    <3>1. Advances(u, FALSE)
      BY <1>3, <1>7, <1>8, <1>11, <2>2, ShiftsAdvance DEF Shifts
    <3> QED BY <3>1 DEF Advances
  <2> QED BY <2>1, <2>2
<1>14. TypeOK'
  BY <1>1, <1>10 DEF CopiesOK, TypeOK, Ledger
<1>15. Unheard'
  BY <1>1, <1>2, <1>7 DEF Ledger, Unheard
<1>16. Owned'
  BY <1>1, <1>4, <1>7 DEF Ledger, Owned
<1>17. Open'
  BY <1>1, <1>4, <1>8 DEF Ledger, Open, Live
<1>18. ~ Acknowledged(Working'[o], file'[o], mem'[o])
  BY <1>2, <1>7, <1>9, <1>11 DEF Acknowledged
<1>19. Heeded'
  BY <1>1, <1>7, <1>8, <1>11, <1>18 DEF Ledger, Heeded
<1>20. ASSUME NEW p \in Ops, p # o, Asks[p] = Asks[o], row[p] # None
       PROVE  p \in received
  <2>1. mem[p] # None
    BY <1>11, <1>20 DEF Admit, Lost
  <2>2. mem[p].ack
    BY <1>20, <2>1 DEF Admit, Reusable
  <2> QED BY <1>20, <2>1, <2>2 DEF Ledger, Heeded, Acknowledged
<1>21. Once'
  BY <1>1, <1>7, <1>20 DEF Ledger, Once
<1> QED BY <1>10, <1>13, <1>14, <1>15, <1>16, <1>17, <1>19, <1>21 DEF Ledger

LEMMA StartHandlerKeeps ==
    ASSUME Assumptions, Ledger, NEW o \in Ops, StartHandler(o)
    PROVE  Ledger' /\ \A u \in Ops : Final(row[u], file[u], row'[u], file'[u])
PROOF
<1>1. Progress(o, FALSE)
  BY LedgerFacts, StartHandlerProgress
<1>2. /\ Live(o) /\ started' = started \union {o} /\ UNCHANGED <<replies, received, defers>>
      /\ owner' \in [Ops -> BOOLEAN] /\ \A u \in Ops : owner'[u] => owner[u] \/ u = o
  BY DEF StartHandler, Ledger, TypeOK
<1>3. Ledger'
  BY <1>1, <1>2, ProgressKeeps DEF Ledger, TypeOK
<1> QED BY <1>1, <1>3 DEF Progress, Advances

(* Responses are made of what the record says, and only the delivery of a  *)
(* result acknowledges.                                                    *)
LEMMA ReplyKeeps ==
    ASSUME Assumptions, Ledger, NEW o \in Ops, Reply(o)
    PROVE  Ledger' /\ \A u \in Ops : Final(row[u], file[u], row'[u], file'[u])
PROOF
<1> DEFINE r == [op |-> o, st |-> mem[o].st, rev |-> IF Running(mem[o]) THEN 0 ELSE mem[o].rev]
<1>1. /\ mem[o] # None /\ replies' = replies \union {r}
      /\ UNCHANGED <<mem, row, pend, file, faults, owner, started, received, defers>>
  BY DEF Reply, store, ghost
<1>2. Progress(o, FALSE)
  BY <1>1, LedgerFacts, StandsProgress
<1>3. /\ mem[o] \in Record /\ (Live(o) => Running(mem[o]))
  BY <1>1, LedgerFacts, RunFacts
<1>4. r \in [op : Ops, st : Statuses, rev : Nat] /\ r.op = o /\ (Live(o) => r.st = "running")
  BY <1>3 DEF Record, Running
<1> HIDE DEF r
<1>5. Ledger'
  BY <1>1, <1>2, <1>4, ProgressKeeps DEF Ledger, TypeOK
<1> QED BY <1>2, <1>5 DEF Progress, Advances

LEMMA DeliveredKeeps ==
    ASSUME Assumptions, Ledger, NEW r \in replies, Delivered(r)
    PROVE  Ledger' /\ \A u \in Ops : Final(row[u], file[u], row'[u], file'[u])
PROOF
<1> DEFINE o == r.op
           a == r.st # "running"
<1>1. /\ o \in Ops /\ replies' \subseteq replies
      /\ received' = IF r.st = "running" THEN received ELSE received \union {o}
      /\ UNCHANGED <<owner, started, defers>>
  BY DEF Delivered, Ledger, TypeOK
<1>2. CopiesOK /\ Rooted /\ \A u \in Ops : Fit(u)
  BY LedgerFacts
<1>3. Progress(o, a)
  <2>1. CASE UNCHANGED <<mem, store>>
    BY <1>2, <2>1, StandsProgress DEF store
  <2>2. CASE mem[o] # None /\ Acknowledges(mem[o], r) /\ Persist(o, [mem[o] EXCEPT !.ack = TRUE])
    <3> DEFINE n == [mem[o] EXCEPT !.ack = TRUE]
    <3>1. /\ row[o] # None /\ mem[o] \in Record
          /\ Coherent(row[o], Flushing(o), Working[o], file[o], mem[o])
          /\ Live(o) <=> mem[o].run # "none"
      BY <1>1, <1>2, <2>2, RunFacts
    <3>2. ~ Running(mem[o]) /\ a
      BY <2>2 DEF Acknowledges, Running
    <3>3. /\ n \in Record /\ n.run = mem[o].run /\ n.st = mem[o].st /\ n.rev = mem[o].rev
          /\ n.ack /\ n.by = mem[o].by
      BY <3>1 DEF Record
    <3>4. Persist(o, n)
      BY <2>2
    <3> HIDE DEF n, a
    <3>5. Writable(row[o], Flushing(o), Working[o], file[o], n)
          /\ (~ Recon(n) => Agreed(row[o], Flushing(o), Working[o]))
      BY <2>2, <3>1, <3>2, <3>3, AcknowledgedWritable
    <3>6. ~ Running(n) /\ (n.run # "none" => Live(o))
      BY <3>1, <3>2, <3>3 DEF Running
    <3>7. a \in BOOLEAN
      BY DEF a
    <3> QED BY <1>1, <1>2, <3>1, <3>2, <3>4, <3>5, <3>6, <3>7, PersistProgress
  <2> QED BY <2>1, <2>2 DEF Delivered
<1>4. Ledger'
  <2>1. a \in BOOLEAN /\ (a => o \in received') /\ received \subseteq received' /\ received' \subseteq Ops
    BY <1>1 DEF Ledger, TypeOK
  <2>2. \A u \in Ops : u \in received' => u \in received \/ \E x \in replies : x.op = u /\ x.st # "running"
    BY <1>1
  <2>3. /\ owner' \in [Ops -> BOOLEAN] /\ replies' \subseteq [op : Ops, st : Statuses, rev : Nat]
        /\ started' \subseteq Ops /\ defers' \in 0 .. MaxDefers
    BY <1>1 DEF Ledger, TypeOK
  <2> HIDE DEF a, o
  <2> QED BY <1>1, <1>3, <2>1, <2>2, <2>3, ProgressKeeps
<1> QED BY <1>3, <1>4 DEF Progress, Advances
-----------------------------------------------------------------------------
(* Theorems. *)

LEMMA LedgerInit ==
    ASSUME Assumptions, Init
    PROVE  Ledger
PROOF
<1>1. \A o \in Ops : row[o] = None /\ mem[o] = None /\ file[o] = None /\ ~ owner[o]
  BY DEF Init
<1>2. TypeOK
  BY DEF Init, TypeOK, Assumptions
<1>3. Rooted /\ (\A o \in Ops : Fit(o)) /\ Unheard /\ Owned /\ Open /\ Heeded /\ Once
  BY <1>1 DEF Init, Rooted, Fit, Unheard, Owned, Open, Live, Heeded, Once
<1> QED BY <1>2, <1>3 DEF Ledger

LEMMA LedgerNext ==
    ASSUME Assumptions, Ledger, [Next]_vars
    PROVE  Ledger' /\ \A u \in Ops : Final(row[u], file[u], row'[u], file'[u])
PROOF
<1> DEFINE Goal == Ledger' /\ \A u \in Ops : Final(row[u], file[u], row'[u], file'[u])
<1> SUFFICES Goal
  OBVIOUS
<1>1. /\ CopiesOK /\ Rooted /\ \A u \in Ops : Fit(u)
      /\ owner \in [Ops -> BOOLEAN] /\ defers \in 0 .. MaxDefers
  BY LedgerFacts DEF Ledger, TypeOK
<1>2. ASSUME NEW o, Progress(o, FALSE), UNCHANGED <<owner, replies, ghost>>
      PROVE  Goal
  BY <1>1, <1>2, QuietKeeps DEF ghost
<1>3. ASSUME NEW o \in Ops
      PROVE  /\ Admit(o) => Goal
             /\ Recover(o) => Goal
             /\ StatusRead(o) => Goal
             /\ RetryFires(o) => Goal
             /\ Prune(o) => Goal
             /\ StartHandler(o) => Goal
             /\ HandlerReturns(o) => Goal
             /\ Settle(o) => Goal
             /\ Cancel(o) => Goal
             /\ Shutdown(o) => Goal
             /\ OwnerStops(o) => Goal
             /\ Reply(o) => Goal
  <2>1. Admit(o) => Goal
    BY AdmitKeeps
  <2>2. Recover(o) => Goal
    <3>1. Recover(o) => Progress(o, FALSE) /\ UNCHANGED <<owner, replies, ghost>>
      BY <1>1, RecoverProgress DEF Recover
    <3> QED BY <1>2, <3>1
  <2>3. StatusRead(o) => Goal
    <3>1. StatusRead(o) => Progress(o, FALSE) /\ UNCHANGED <<owner, replies, ghost>>
      BY <1>1, StatusReadProgress DEF StatusRead
    <3> QED BY <1>2, <3>1
  <2>4. RetryFires(o) => Goal
    <3>1. RetryFires(o) => Progress(o, FALSE) /\ UNCHANGED <<owner, replies, ghost>>
      BY <1>1, ReattemptProgress DEF RetryFires
    <3> QED BY <1>2, <3>1
  <2>5. Prune(o) => Goal
    <3>1. Prune(o) => Progress(o, FALSE) /\ UNCHANGED <<owner, replies, ghost>>
      BY <1>1, PruneProgress DEF Prune
    <3> QED BY <1>2, <3>1
  <2>6. StartHandler(o) => Goal
    BY StartHandlerKeeps
  <2>7. HandlerReturns(o) => Goal
    <3>1. HandlerReturns(o) => /\ Progress(o, FALSE) /\ UNCHANGED <<replies, ghost>>
                               /\ owner' \in [Ops -> BOOLEAN] /\ \A u \in Ops : owner'[u] => owner[u]
      BY <1>1, HandlerReturnsProgress, Settles DEF HandlerReturns
    <3> QED BY <1>1, <3>1, QuietKeeps DEF ghost
  <2>8. Settle(o) => Goal
    <3>1. Settle(o) => /\ Progress(o, FALSE) /\ UNCHANGED <<replies, ghost>>
                       /\ owner' \in [Ops -> BOOLEAN] /\ \A u \in Ops : owner'[u] => owner[u]
      BY <1>1, SettleProgress, Settles DEF Settle
    <3> QED BY <1>1, <3>1, QuietKeeps DEF ghost
  <2>9. Cancel(o) => Goal
    <3>1. Cancel(o) => Progress(o, FALSE) /\ UNCHANGED <<owner, replies, ghost>>
      BY <1>1, CancelProgress DEF Cancel
    <3> QED BY <1>2, <3>1
  <2>10. Shutdown(o) => Goal
    <3>1. Shutdown(o) => Progress(o, FALSE) /\ UNCHANGED <<owner, replies, ghost>>
      BY <1>1, ShutdownProgress DEF Shutdown
    <3> QED BY <1>2, <3>1
  <2>11. OwnerStops(o) => Goal
    <3>1. OwnerStops(o) => row[o] # None
      BY DEF OwnerStops, Ledger, Unheard
    <3>2. OwnerStops(o) => /\ Progress(o, FALSE) /\ UNCHANGED <<replies, ghost>>
                           /\ owner' \in [Ops -> BOOLEAN] /\ \A u \in Ops : owner'[u] => owner[u]
      BY <1>1, <3>1, OwnerStopsProgress DEF OwnerStops
    <3> QED BY <1>1, <3>2, QuietKeeps DEF ghost
  <2>12. Reply(o) => Goal
    BY ReplyKeeps
  <2> QED BY <2>1, <2>2, <2>3, <2>4, <2>5, <2>6, <2>7, <2>8, <2>9, <2>10, <2>11, <2>12
<1>4. ASSUME NEW r \in replies
      PROVE  (Delivered(r) => Goal) /\ (ReplyLost(r) => Goal)
  <2>1. Delivered(r) => Goal
    BY DeliveredKeeps
  <2>2. ReplyLost(r) => Goal
    <3>1. ReplyLost(r) => /\ UNCHANGED <<mem, row, pend, file, faults, owner, started, received, defers>>
                          /\ replies' \subseteq replies
      BY DEF ReplyLost, store, ghost
    <3>2. ReplyLost(r) => Progress(None, FALSE)
      BY <1>1, <3>1, StandsProgress
    <3> QED BY <1>1, <3>1, <3>2, QuietKeeps
  <2> QED BY <2>1, <2>2
<1>5. CASE Defer
  <2>1. Progress(None, FALSE)
    BY <1>1, <1>5, DeferProgress
  <2>2. defers' \in 0 .. MaxDefers /\ UNCHANGED <<owner, replies, started, received>>
    BY <1>1, <1>5 DEF Defer, Assumptions
  <2> QED BY <1>1, <2>1, <2>2, QuietKeeps
<1>6. CASE StartFlush
  BY <1>1, <1>2, <1>6, StartFlushProgress DEF StartFlush
<1>7. CASE EndFlush
  BY <1>1, <1>2, <1>7, EndFlushProgress DEF EndFlush
<1>8. CASE Crash
  <2>1. Progress(None, FALSE)
    BY <1>1, <1>8, CrashProgress
  <2>2. UNCHANGED <<owner, started, received, defers>> /\ replies' \subseteq replies
    BY <1>8 DEF Crash
  <2> QED BY <1>1, <2>1, <2>2, QuietKeeps
<1>9. CASE UNCHANGED vars
  <2>1. UNCHANGED <<mem, row, pend, file, faults, owner, replies, ghost>>
    BY <1>9 DEF vars, ghost
  <2>2. Progress(None, FALSE)
    BY <1>1, <2>1, StandsProgress
  <2> QED BY <1>2, <2>1, <2>2
<1> HIDE DEF Goal
<1> QED BY <1>3, <1>4, <1>5, <1>6, <1>7, <1>8, <1>9 DEF Next

(* The copies of every operation are coherent, and only what a client     *)
(* received is acknowledged, in every state.                               *)
THEOREM LedgerHolds == Spec => []Ledger
PROOF
<1>1. Init => Ledger
  BY LedgerInit, Assumptions
<1>2. Ledger /\ [Next]_vars => Ledger'
  BY LedgerNext, Assumptions
<1> QED BY <1>1, <1>2, PTL DEF Spec

(* What the variables hold: every copy of an operation is a record, an     *)
(* entry or a pointer of the declared kind, whatever writes failed.        *)
THEOREM ReceiptTypes == Spec => []TypeOK
PROOF BY LedgerHolds, PTL DEF Ledger

(* startFallbackExecution starts no handler for a request while an earlier *)
(* operation of it is unreceived: not after a crash, with a response lost, *)
(* or with row and journal at odds.                                        *)
THEOREM RequestRunsOnce == Spec => RunsOnce
PROOF
<1>1. ASSUME Ledger, [Next]_vars
      PROVE  [\A o \in started' \ started : \A p \in started :
                 Asks[p] = Asks[o] => p \in received]_vars
  <2>1. CASE UNCHANGED vars
    BY <2>1
  <2>2. CASE Next
    <3> SUFFICES ASSUME NEW o \in started' \ started, NEW p \in started, Asks[p] = Asks[o]
                 PROVE  p \in received
      OBVIOUS
    <3>1. o \in Ops /\ Live(o)
      <4>1. PICK u \in Ops : StartHandler(u)
        BY <2>2 DEF Next, Admit, Recover, StatusRead, RetryFires, Prune, StartHandler, HandlerReturns,
                    Settle, Cancel, Shutdown, OwnerStops, Reply, Delivered, ReplyLost, Defer, StartFlush,
                    EndFlush, Crash, ghost
      <4> QED BY <4>1 DEF StartHandler
    <3>2. p \in Ops /\ row[p] # None /\ p # o
      BY <1>1 DEF Ledger, TypeOK, Unheard
    <3>3. row[o] # None /\ o \notin received
      BY <1>1, <3>1 DEF Ledger, Rooted, Open, Live
    <3>4. Once
      BY <1>1 DEF Ledger
    <3> QED BY <3>1, <3>2, <3>3, <3>4 DEF Once
  <2> QED BY <1>1, <2>1, <2>2
<1> QED BY <1>1, LedgerHolds, PTL DEF Spec, RunsOnce

(* persistFallbackRecord and repairFallbackPointer call a result persisted *)
(* or journaled only if row and file show it after a crash.                *)
THEOREM DurabilityIsTrue == Spec => []DurabilityIsTruthful
PROOF
<1>1. Ledger => DurabilityIsTruthful
  <2> SUFFICES ASSUME Ledger, NEW o \in Ops, mem[o] # None, ~ Running(mem[o]), mem[o].dur # "memory_only"
               PROVE  \/ Reconciled(Stored(o))
                      \/ /\ Stored(o).entry # None /\ Stored(o).entry.st = mem[o].st
                         /\ mem[o].ack => Stored(o).entry.ack
    BY DEF DurabilityIsTruthful
  <2>1. row[o] # None /\ Coherent(row[o], Flushing(o), Working[o], file[o], mem[o])
    BY LedgerFacts, RunFacts
  <2>2. Shows(row[o], file[o], mem[o]) /\ row[o] \in Entry /\ (IsJournal(file[o]) => file[o] \in Entry)
    BY <2>1 DEF Coherent, Claimed, Chained, Journaled, Copy
  <2> QED BY <2>1, <2>2, NoCopyAssumption DEF Stored, Selected, Reconciled, Shows, Told, Recon
<1> QED BY <1>1, LedgerHolds, PTL

(* No write, repair, flush of an older snapshot or recovery replaces a     *)
(* result that could be read from disk by another, or its acknowledgement. *)
THEOREM ResultsStay == Spec => ResultsAreFinal
PROOF
<1>1. ASSUME Ledger, [Next]_vars
      PROVE  [\A o \in Ops :
                LET c == Stored(o).entry
                    d == Stored(o)'.entry
                IN c # None /\ ~ Running(c) /\ c.by = "run" /\ ~ Reconciled(Stored(o)') =>
                      d # None /\ d.st = c.st /\ (c.ack => d.ack)]_vars
  <2>1. \A u \in Ops : Final(row[u], file[u], row'[u], file'[u])
    BY <1>1, LedgerNext, Assumptions
  <2> QED BY <2>1 DEF Final, Stored
<1> QED BY <1>1, LedgerHolds, PTL DEF Spec, ResultsAreFinal
=============================================================================
