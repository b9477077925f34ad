--------------------------- MODULE AuditExportProofs --------------------------
(***************************************************************************)
(* Proofs about AuditExport and Artifacts, for any number of writers,      *)
(* replicas and clients, any page, any length of the log and any faults.   *)
(***************************************************************************)
EXTENDS AuditExport, FiniteSetTheorems, WellFoundedInduction, TLAPS

-----------------------------------------------------------------------------
(* The invariant.  The log: its rows are numbered in the order they become *)
(* visible, because who allocates a number holds the sequence.             *)
Rows == [seq : Nat, kind : Kinds]

LogInv ==
  /\ rows \in SUBSET Rows /\ IsFiniteSet(rows)
  /\ \A a, b \in rows : a.seq = b.seq => a = b
  /\ nextSeq \in Nat /\ \A row \in rows : row.seq < nextSeq
  /\ open \in [Writer -> Int]
  /\ \A w \in Writer : open[w] # NotOpen =>
       /\ holder = w /\ open[w] \in Nat /\ nextSeq = open[w] + 1
       /\ \A row \in rows : row.seq < open[w]

\* The registry: what a step is about to register is stored already.
Uploaded(dir, id, body) == Object(dir, id, body) \in objects

StoreInv ==
  /\ \A o \in objects : o = Object(o.key[1], o.key[2], o.key[3])
  /\ \A a \in artifacts : a = Record(a.key[1], a.id, a.body) /\ Uploaded(a.key[1], a.id, a.body)
  /\ \A a, b \in artifacts : a.id = b.id => a = b
  /\ client \in [Client -> {"idle", "absent", "uploaded", "stored", "conflict"}]
  /\ \A c \in Client : client[c] = "uploaded" => Uploaded("artifacts", Request[c].id, Request[c].body)
  /\ \A c \in Client : client[c] = "stored" => ClientRecord(c) \in artifacts
  /\ \A r \in Replica : exporter[r].at = "uploaded" => Uploaded("audit", ExportId(r), exporter[r].included)

\* An export under way has all the evidence between the checkpoint it read and
\* the end of its page.
Numbers == {row.seq : row \in rows}
Doing == [at : {"idle", "checked", "read", "uploaded"}, expected : Int, from : Int, to : Int,
          included : SUBSET Rows]

PageInv ==
  /\ exporter \in [Replica -> Doing]
  /\ \A r \in Replica : exporter[r].at \in {"read", "uploaded"} =>
       /\ exporter[r].expected < exporter[r].from /\ exporter[r].from <= exporter[r].to
       /\ exporter[r].to \in Numbers
       /\ \A row \in rows : exporter[r].expected < row.seq => exporter[r].from <= row.seq
       /\ exporter[r].included = Evidence(exporter[r].from, exporter[r].to)

\* The exports so far end at the checkpoint, and one has each event up to it.
CheckpointInv ==
  /\ checkpoint.seq \in Int /\ (checkpoint.seq # -1 => checkpoint.seq \in Numbers)
  /\ \A a \in Exports :
       /\ a.id[1] \in Int /\ a.id[2] \in Int /\ a.id[2] <= checkpoint.seq
       /\ a.body = Evidence(a.id[1], a.id[2])
  /\ \A row \in Included(rows) : row.seq <= checkpoint.seq =>
       \E a \in Exports : row \in a.body /\ \A b \in Exports : row \in b.body => b = a

ExportInv == LogInv /\ StoreInv /\ PageInv /\ CheckpointInv

-----------------------------------------------------------------------------
(* Numbers.                                                                *)
LEMMA LeastNatural ==
  ASSUME NEW S \in SUBSET Nat, S # {}
  PROVE  \E least \in S : \A other \in S : least <= other
<1>1. PICK least \in S : \A other \in S : <<other, least>> \notin OpToRel(<, Nat)
  BY NatLessThanWellFounded, WFMin
<1>2. \A other \in S : ~(other < least)
  BY <1>1 DEF OpToRel
<1> QED
  BY <1>2

LEMMA GreatestNatural ==
  ASSUME NEW S \in SUBSET Nat, S # {}, NEW n \in Nat, \A s \in S : s < n
  PROVE  \E greatest \in S : \A other \in S : other <= greatest
<1> DEFINE T == {n - s : s \in S}
<1>1. T \in SUBSET Nat /\ T # {}
  <2>1. \A s \in S : s \in Nat /\ s < n
    OBVIOUS
  <2>2. \A s \in S : n - s \in Nat
    BY <2>1
  <2> QED
    BY <2>2
<1>2. PICK least \in T : \A other \in T : least <= other
  BY <1>1, LeastNatural
<1>3. PICK s \in S : least = n - s
  OBVIOUS
<1>4. \A other \in S : n - s <= n - other
  BY <1>2, <1>3
<1> QED
  BY <1>4

-----------------------------------------------------------------------------
(* A page is the next rows of the log, all of them up to its last one.     *)
LEMMA PageIsNext ==
  ASSUME LogInv, NEW cursor \in Int, NEW limit \in Nat \ {0}, Ahead(cursor) # {}
  PROVE  /\ Page(cursor, limit) # {} /\ Page(cursor, limit) \subseteq Ahead(cursor)
         /\ \A row \in Page(cursor, limit), other \in Ahead(cursor) :
              other.seq < row.seq => other \in Page(cursor, limit)
<1> DEFINE Preceding(row) == {other \in Ahead(cursor) : other.seq < row.seq}
<1>1. \A row : IsFiniteSet(Preceding(row)) /\ Cardinality(Preceding(row)) \in Nat
  <2> SUFFICES ASSUME NEW row
               PROVE  IsFiniteSet(Preceding(row)) /\ Cardinality(Preceding(row)) \in Nat
    OBVIOUS
  <2>1. Preceding(row) \subseteq rows /\ IsFiniteSet(rows)
    BY DEF Ahead, LogInv
  <2>2. IsFiniteSet(Preceding(row))
    BY <2>1, FS_Subset
  <2> QED
    BY <2>2, FS_CardinalityType
<1>2. Page(cursor, limit) # {}
  <2> DEFINE seqs == {row.seq : row \in Ahead(cursor)}
  <2>1. seqs \in SUBSET Nat /\ seqs # {}
    BY DEF LogInv, Rows, Ahead
  <2>2. PICK least \in seqs : \A other \in seqs : least <= other
    BY <2>1, LeastNatural
  <2>3. PICK row \in Ahead(cursor) : row.seq = least
    OBVIOUS
  <2>4. Preceding(row) = {}
    <3>1. \A other \in Ahead(cursor) : ~(other.seq < row.seq)
      <4>1. \A other \in Ahead(cursor) : other.seq \in Nat /\ row.seq <= other.seq
        BY <2>1, <2>2, <2>3
      <4> QED
        BY <2>3, <4>1
    <3> QED
      BY <3>1
  <2>5. Cardinality(Preceding(row)) < limit
    BY <2>4, FS_EmptySet
  <2> QED
    BY <2>5 DEF Page
<1>3. ASSUME NEW row \in Page(cursor, limit), NEW other \in Ahead(cursor), other.seq < row.seq
      PROVE  other \in Page(cursor, limit)
  <2>1. Preceding(other) \subseteq Preceding(row)
    <3>1. \A third \in Ahead(cursor) : third.seq \in Nat
      BY DEF LogInv, Rows, Ahead
    <3>2. row \in Ahead(cursor)
      BY DEF Page
    <3> QED
      BY <1>3, <3>1, <3>2
  <2>2. Cardinality(Preceding(other)) <= Cardinality(Preceding(row))
    BY <1>1, <2>1, FS_Subset
  <2>3. Cardinality(Preceding(row)) < limit
    BY DEF Page
  <2>4. Cardinality(Preceding(other)) < limit
    <3>1. Cardinality(Preceding(other)) \in Nat /\ Cardinality(Preceding(row)) \in Nat
      BY <1>1
    <3> HIDE DEF Preceding
    <3> QED
      BY <2>2, <2>3, <3>1
  <2> QED
    BY <2>4 DEF Page
<1> QED
  BY <1>2, <1>3 DEF Page

\* What Read makes of a page.
LEMMA ReadIs ==
  ASSUME ExportInv, NEW r \in Replica, NEW limit \in Nat \ {0}, Ahead(exporter[r].expected) # {},
         Read(r, Page(exporter[r].expected, limit))
  PROVE  \E from, to \in Nat :
           /\ exporter' = [exporter EXCEPT ![r] = Task("read", exporter[r].expected, from, to, Evidence(from, to))]
           /\ exporter[r].expected < from /\ from <= to /\ to \in Numbers
           /\ \A row \in rows : exporter[r].expected < row.seq => from <= row.seq
<1> DEFINE cursor == exporter[r].expected
           page == Page(cursor, limit)
           seqs == {row.seq : row \in page}
           from == CHOOSE s \in seqs : \A other \in seqs : s <= other
           to == CHOOSE s \in seqs : \A other \in seqs : other <= s
<1>1. cursor \in Int /\ exporter[r] \in Doing
  BY DEF ExportInv, PageInv, Doing
<1>2. /\ page # {} /\ page \subseteq Ahead(cursor)
      /\ \A row \in page, other \in Ahead(cursor) : other.seq < row.seq => other \in page
  BY <1>1, PageIsNext DEF ExportInv
<1>3. seqs \in SUBSET Nat /\ seqs # {} /\ nextSeq \in Nat /\ \A s \in seqs : s < nextSeq
  BY <1>2 DEF ExportInv, LogInv, Rows, Ahead
<1> HIDE DEF page
<1>4. from \in seqs /\ \A other \in seqs : from <= other
  <2>1. \E s \in seqs : \A other \in seqs : s <= other
    BY <1>3, LeastNatural
  <2> QED
    BY <2>1
<1>5. to \in seqs /\ \A other \in seqs : other <= to
  <2>1. \E s \in seqs : \A other \in seqs : other <= s
    BY <1>3, GreatestNatural
  <2> QED
    BY <2>1
<1>6. PICK first \in page : first.seq = from
  BY <1>4
<1>7. PICK last \in page : last.seq = to
  BY <1>5
<1> HIDE DEF from, to
<1>8. /\ \A row \in page : row \in rows /\ row.seq \in Nat /\ cursor < row.seq /\ from <= row.seq /\ row.seq <= to
      /\ \A row \in rows : row.seq \in Nat
      /\ from \in Nat /\ to \in Nat
  BY <1>2, <1>3, <1>4, <1>5 DEF Ahead, ExportInv, LogInv, Rows
<1>9. cursor < from /\ from <= to /\ to \in Numbers
  BY <1>6, <1>7, <1>8 DEF Numbers
<1>10. \A row \in rows : cursor < row.seq => from <= row.seq
  <2> SUFFICES ASSUME NEW row \in rows, cursor < row.seq, row.seq < from
               PROVE  FALSE
    BY <1>8
  <2>1. row \in page
    BY <1>2, <1>6 DEF Ahead
  <2> QED
    BY <1>8, <2>1
<1>11. \A row \in rows : from <= row.seq /\ row.seq <= to <=> row \in page
  <2> SUFFICES ASSUME NEW row \in rows, from <= row.seq, row.seq <= to
               PROVE  row \in page
    BY <1>8
  <2>1. row \in Ahead(cursor)
    BY <1>1, <1>8, <1>9 DEF Ahead
  <2>2. CASE row.seq = to
    BY <1>7, <1>8, <2>2 DEF ExportInv, LogInv
  <2>3. CASE row.seq # to
    BY <1>2, <1>7, <1>8, <2>1, <2>3
  <2> QED
    BY <2>2, <2>3
<1>12. Included(page) = Evidence(from, to)
  <2>1. page \subseteq rows
    BY <1>8
  <2> QED
    BY <1>11, <2>1 DEF Included, Evidence
<1>13. exporter' = [exporter EXCEPT ![r] = Task("read", cursor, from, to, Evidence(from, to))]
  BY <1>12 DEF Read, page, from, to
<1> QED
  BY <1>8, <1>9, <1>10, <1>13

-----------------------------------------------------------------------------
(* The object store and the registry.                                      *)
LEMMA RecordsAre ==
  /\ \A d, i, b : /\ Object(d, i, b).key = <<d, i, b>> /\ Object(d, i, b).body = b
                  /\ Object(d, i, b) = [key |-> <<d, i, b>>, body |-> b]
                  /\ Object(d, i, b).key[1] = d /\ Object(d, i, b).key[2] = i /\ Object(d, i, b).key[3] = b
  /\ \A d, i, b : /\ Record(d, i, b).id = i /\ Record(d, i, b).body = b
                  /\ Record(d, i, b).key = <<d, i, b>> /\ Record(d, i, b).key[1] = d
BY DEF Object, Record, Key

\* Objects are only added, and are what their keys say.
Grows == objects \subseteq objects' /\ \A o \in objects' : o = Object(o.key[1], o.key[2], o.key[3])

LEMMA Puts ==
  ASSUME StoreInv, NEW d, NEW i, NEW b
  PROVE  /\ PutObject(Object(d, i, b)) => Grows /\ Object(d, i, b) \in objects'
         /\ PutFails(Object(d, i, b)) => Grows
<1>1. Object(d, i, b) = Object(Object(d, i, b).key[1], Object(d, i, b).key[2], Object(d, i, b).key[3])
  BY RecordsAre
<1>2. ASSUME PutObject(Object(d, i, b))
      PROVE  Grows /\ Object(d, i, b) \in objects'
  <2>1. CASE Taken(Object(d, i, b))
    <3>1. PICK stored \in objects : stored.key = Object(d, i, b).key
      BY <2>1 DEF Taken
    <3>2. stored = Object(stored.key[1], stored.key[2], stored.key[3])
      BY DEF StoreInv
    <3>3. stored = Object(d, i, b)
      BY <3>1, <3>2, RecordsAre
    <3> QED
      BY <1>2, <2>1, <3>3 DEF PutObject, Grows, StoreInv
  <2>2. CASE ~Taken(Object(d, i, b))
    BY <1>1, <1>2, <2>2 DEF PutObject, Grows, StoreInv
  <2> QED
    BY <2>1, <2>2
<1>3. ASSUME PutFails(Object(d, i, b))
      PROVE  Grows
  BY <1>1, <1>3 DEF PutFails, Grows, StoreInv
<1> QED
  BY <1>2, <1>3

\* What stays true of the registry while objects are only added.
LEMMA StoreGrows ==
  ASSUME StoreInv, Grows, UNCHANGED artifacts
  PROVE  /\ \A o \in objects' : o = Object(o.key[1], o.key[2], o.key[3])
         /\ \A a \in artifacts' : a = Record(a.key[1], a.id, a.body) /\ Uploaded(a.key[1], a.id, a.body)'
         /\ \A a, b \in artifacts' : a.id = b.id => a = b
         /\ \A d, i, b : Uploaded(d, i, b) => Uploaded(d, i, b)'
BY DEF StoreInv, Grows, Uploaded

\* One more artifact is registered, whose object is stored.
LEMMA Registers ==
  ASSUME StoreInv, NEW d, NEW i, NEW b, Uploaded(d, i, b), Registrable(Record(d, i, b)),
         artifacts' = artifacts \union {Record(d, i, b)}, UNCHANGED objects
  PROVE  /\ \A o \in objects' : o = Object(o.key[1], o.key[2], o.key[3])
         /\ \A a \in artifacts' : a = Record(a.key[1], a.id, a.body) /\ Uploaded(a.key[1], a.id, a.body)'
         /\ \A a, a2 \in artifacts' : a.id = a2.id => a = a2
         /\ \A e, j, c : Uploaded(e, j, c)' <=> Uploaded(e, j, c)
<1>1. \A e, j, c : Uploaded(e, j, c)' <=> Uploaded(e, j, c)
  BY DEF Uploaded
<1>2. Record(d, i, b) = Record(Record(d, i, b).key[1], Record(d, i, b).id, Record(d, i, b).body)
      /\ Uploaded(Record(d, i, b).key[1], Record(d, i, b).id, Record(d, i, b).body)
  BY RecordsAre
<1>3. \A a \in artifacts' : a = Record(a.key[1], a.id, a.body) /\ Uploaded(a.key[1], a.id, a.body)'
  BY <1>1, <1>2 DEF StoreInv
<1>4. \A a \in artifacts : a.id = Record(d, i, b).id => a = Record(d, i, b)
  BY DEF Registrable, Known, StoreInv
<1> QED
  BY <1>1, <1>3, <1>4 DEF StoreInv

\* The steps of a client leave the exports as they are.
LEMMA ClientSteps ==
  ASSUME ExportInv, NEW c \in Client, RegistryStep(c) \/ ClientRetries(c),
         UNCHANGED <<log, bookkeeping, checkpoint, exporter>>
  PROVE  ExportInv'
<1> DEFINE i == Request[c].id
           b == Request[c].body
<1>0. ClientRecord(c) = Record("artifacts", i, b)
  BY DEF ClientRecord
<1>1. LogInv' /\ PageInv'
  BY DEF ExportInv, LogInv, PageInv, log, Numbers, Evidence, Included
<1>2. Exports' = Exports => CheckpointInv'
  BY DEF ExportInv, CheckpointInv, log, Numbers, Evidence, Included
<1>3. \A r \in Replica : ExportId(r)' = ExportId(r) /\ exporter'[r] = exporter[r]
  BY DEF ExportId
<1>4. CASE LookUp(c) \/ ClientRetries(c)
  <2>1. UNCHANGED <<objects, artifacts>>
    BY <1>4 DEF LookUp, ClientRetries
  <2>2. /\ client' \in [Client -> {"idle", "absent", "uploaded", "stored", "conflict"}]
        /\ \A d \in Client : client'[d] = "uploaded" => client[d] = "uploaded"
        /\ \A d \in Client : client'[d] = "stored" => client[d] = "stored" \/ (d = c /\ ClientRecord(c) \in artifacts)
    BY <1>4 DEF LookUp, ClientRetries, ExportInv, StoreInv
  <2>3. StoreInv'
    BY <1>3, <2>1, <2>2 DEF ExportInv, StoreInv, Uploaded
  <2> QED
    BY <1>1, <1>2, <2>1, <2>3 DEF ExportInv, Exports
<1>5. CASE Upload(c)
  <2>1. /\ UNCHANGED artifacts /\ client[c] = "absent"
        /\ \/ PutObject(Object("artifacts", i, b)) /\ client' = [client EXCEPT ![c] = "uploaded"]
           \/ PutFails(Object("artifacts", i, b)) /\ client' = [client EXCEPT ![c] = "idle"]
    BY <1>5 DEF Upload
  <2>2. Grows
    BY <2>1, Puts DEF ExportInv
  <2>3. /\ client' \in [Client -> {"idle", "absent", "uploaded", "stored", "conflict"}]
        /\ \A d \in Client : client'[d] = "uploaded" =>
             client[d] = "uploaded" \/ (d = c /\ Object("artifacts", i, b) \in objects')
        /\ \A d \in Client : client'[d] = "stored" => client[d] = "stored"
    BY <2>1, Puts DEF ExportInv, StoreInv
  <2>4. StoreInv'
    BY <1>3, <2>1, <2>2, <2>3, StoreGrows DEF ExportInv, StoreInv, Uploaded
  <2> QED
    BY <1>1, <1>2, <2>1, <2>4 DEF ExportInv, Exports
<1>6. CASE Register(c)
  <2>1. client[c] = "uploaded" /\ UNCHANGED objects /\ Uploaded("artifacts", i, b)
    BY <1>6 DEF Register, ExportInv, StoreInv
  <2>2. CASE Registrable(ClientRecord(c))
    <3>1. /\ artifacts' = artifacts \union {ClientRecord(c)}
          /\ \/ client' = [client EXCEPT ![c] = "stored"]
             \/ client' = [client EXCEPT ![c] = "idle"]
      BY <1>6, <2>2 DEF Register
    <3>2. /\ client' \in [Client -> {"idle", "absent", "uploaded", "stored", "conflict"}]
          /\ \A d \in Client : client'[d] = "uploaded" => client[d] = "uploaded"
          /\ \A d \in Client : client'[d] = "stored" => client[d] = "stored" \/ d = c
      BY <3>1 DEF ExportInv, StoreInv
    <3>3. StoreInv'
      BY <1>0, <1>3, <2>1, <2>2, <3>1, <3>2, Registers DEF ExportInv, StoreInv
    <3>4. Exports' = Exports
      <4>1. ClientRecord(c).key[1] # "audit"
        BY <1>0, RecordsAre
      <4> QED
        BY <3>1, <4>1 DEF Exports
    <3> QED
      BY <1>1, <1>2, <3>3, <3>4 DEF ExportInv
  <2>3. CASE ~Registrable(ClientRecord(c))
    <3>1. client' = [client EXCEPT ![c] = "conflict"] /\ UNCHANGED artifacts
      BY <1>6, <2>3 DEF Register
    <3>2. StoreInv'
      BY <1>3, <2>1, <3>1 DEF ExportInv, StoreInv, Uploaded
    <3> QED
      BY <1>1, <1>2, <3>1, <3>2 DEF ExportInv, Exports
  <2> QED
    BY <2>2, <2>3
<1> QED
  BY <1>4, <1>5, <1>6 DEF RegistryStep

-----------------------------------------------------------------------------
(* The log grows at its end.                                               *)

\* A row that comes is after all that there are: it is in no page and in no
\* export, and the checkpoint has not passed it.
LEMMA RowComes ==
  ASSUME ExportInv, NEW row \in Rows, \A other \in rows : other.seq < row.seq,
         rows' = rows \union {row}, UNCHANGED <<objects, artifacts, client, checkpoint, exporter>>
  PROVE  StoreInv' /\ PageInv' /\ CheckpointInv' /\ IsFiniteSet(rows')
         /\ \A a, b \in rows' : a.seq = b.seq => a = b
<1>1. StoreInv'
  BY DEF ExportInv, StoreInv, Uploaded, ExportId
<1>2. row.seq \in Nat /\ \A other \in rows : other.seq \in Nat
  BY DEF Rows, ExportInv, LogInv
<1>3. IsFiniteSet(rows') /\ \A a, b \in rows' : a.seq = b.seq => a = b
  BY <1>2, FS_AddElement DEF ExportInv, LogInv
<1>4. Numbers \subseteq Numbers'
  BY DEF Numbers
<1>5. \A from, to \in Int : to \in Numbers => Evidence(from, to)' = Evidence(from, to)
  <2> SUFFICES ASSUME NEW from \in Int, NEW to \in Int, to \in Numbers
               PROVE  Evidence(from, to)' = Evidence(from, to)
    OBVIOUS
  <2>1. to < row.seq
    BY DEF Numbers
  <2> QED
    BY <1>2, <2>1 DEF Evidence, Included
<1>6. PageInv'
  <2> SUFFICES ASSUME NEW r \in Replica, exporter[r].at \in {"read", "uploaded"}
               PROVE  /\ exporter[r].expected < exporter[r].from /\ exporter[r].from <= exporter[r].to
                      /\ exporter[r].to \in Numbers'
                      /\ \A other \in rows' : exporter[r].expected < other.seq => exporter[r].from <= other.seq
                      /\ exporter[r].included = Evidence(exporter[r].from, exporter[r].to)'
    BY DEF ExportInv, PageInv
  <2>1. /\ exporter[r].expected < exporter[r].from /\ exporter[r].from <= exporter[r].to
        /\ exporter[r].to \in Numbers /\ exporter[r].from \in Int /\ exporter[r].to \in Int
        /\ exporter[r].included = Evidence(exporter[r].from, exporter[r].to)
        /\ \A other \in rows : exporter[r].expected < other.seq => exporter[r].from <= other.seq
    BY DEF ExportInv, PageInv, Doing
  <2>2. exporter[r].to < row.seq
    BY <2>1 DEF Numbers
  <2> QED
    BY <1>2, <1>4, <1>5, <2>1, <2>2
<1>7. CheckpointInv'
  <2>1. Exports' = Exports /\ checkpoint.seq \in Int /\ (checkpoint.seq # -1 => checkpoint.seq \in Numbers)
    BY DEF Exports, ExportInv, CheckpointInv
  <2>2. checkpoint.seq < row.seq
    BY <1>2, <2>1 DEF Numbers
  <2>3. \A a \in Exports : a.body = Evidence(a.id[1], a.id[2])'
    <3> SUFFICES ASSUME NEW a \in Exports
                 PROVE  a.body = Evidence(a.id[1], a.id[2])'
      OBVIOUS
    <3>1. a.id[1] \in Int /\ a.id[2] \in Int /\ a.id[2] < row.seq /\ a.body = Evidence(a.id[1], a.id[2])
      BY <1>2, <2>1, <2>2 DEF ExportInv, CheckpointInv
    <3> QED
      BY <1>2, <3>1 DEF Evidence, Included
  <2>4. \A other \in Included(rows)' : other.seq <= checkpoint.seq => other \in Included(rows)
    BY <1>2, <2>1, <2>2 DEF Included
  <2>5. \A a \in Exports : a.id[1] \in Int /\ a.id[2] \in Int /\ a.id[2] <= checkpoint.seq
    BY DEF ExportInv, CheckpointInv
  <2>6. \A other \in Included(rows)' : other.seq <= checkpoint.seq =>
           \E a \in Exports : other \in a.body /\ \A b \in Exports : other \in b.body => b = a
    BY <2>4 DEF ExportInv, CheckpointInv
  <2>7. checkpoint' = checkpoint /\ Numbers \subseteq Numbers'
    BY <1>2 DEF Numbers
  <2> HIDE DEF ExportInv
  <2> QED
    BY <2>1, <2>3, <2>5, <2>6, <2>7 DEF CheckpointInv
<1> QED
  BY <1>1, <1>3, <1>6, <1>7

LEMMA LogSteps ==
  ASSUME ExportInv,
         \/ \E w \in Writer : Allocate(w) \/ CommitEvent(w) \/ RollBack(w)
         \/ PublishBookkeeping
  PROVE  ExportInv'
<1>1. ASSUME UNCHANGED <<objects, artifacts, client, rows, checkpoint, exporter>>
      PROVE  StoreInv' /\ PageInv' /\ CheckpointInv'
  BY <1>1 DEF ExportInv, StoreInv, Uploaded, ExportId, PageInv, Numbers, Evidence, Included, CheckpointInv, Exports
<1>2. ASSUME NEW w \in Writer, Allocate(w)
      PROVE  ExportInv'
  <2>1. /\ holder = "free" /\ holder' = w /\ open' = [open EXCEPT ![w] = nextSeq] /\ nextSeq' = nextSeq + 1
        /\ UNCHANGED <<objects, artifacts, client, rows, checkpoint, exporter>>
    BY <1>2 DEF Allocate, Take, registry
  <2>2. \A v \in Writer : open[v] = NotOpen
    BY <2>1, ExportAssumption DEF ExportInv, LogInv
  <2>3. LogInv'
    BY <2>1, <2>2 DEF ExportInv, LogInv, NotOpen, Rows
  <2> QED
    BY <1>1, <2>1, <2>3 DEF ExportInv
<1>3. ASSUME NEW w \in Writer, RollBack(w)
      PROVE  ExportInv'
  <2>1. /\ open[w] # NotOpen /\ nextSeq' = open[w] /\ open' = [open EXCEPT ![w] = NotOpen] /\ holder' = "free"
        /\ UNCHANGED <<objects, artifacts, client, rows, checkpoint, exporter>>
    BY <1>3 DEF RollBack
  <2>2. \A v \in Writer : v # w => open[v] = NotOpen
    BY <2>1 DEF ExportInv, LogInv
  <2>3. LogInv'
    BY <2>1, <2>2 DEF ExportInv, LogInv, NotOpen
  <2> QED
    BY <1>1, <2>1, <2>3 DEF ExportInv
<1>4. ASSUME NEW w \in Writer, CommitEvent(w)
      PROVE  ExportInv'
  <2>0. PICK kind \in Appends[w] : rows' = rows \union {[seq |-> open[w], kind |-> kind]}
    BY <1>4 DEF CommitEvent
  <2> DEFINE row == [seq |-> open[w], kind |-> kind]
  <2>1. /\ open[w] # NotOpen /\ rows' = rows \union {row}
        /\ open' = [open EXCEPT ![w] = NotOpen] /\ holder' = "free" /\ UNCHANGED nextSeq
        /\ UNCHANGED <<objects, artifacts, client, checkpoint, exporter>>
    BY <1>4, <2>0 DEF CommitEvent, registry
  <2>2. /\ row \in Rows /\ row.seq = open[w] /\ nextSeq = open[w] + 1 /\ open[w] \in Nat
        /\ \A other \in rows : other.seq < row.seq
        /\ \A v \in Writer : v # w => open[v] = NotOpen
    BY <2>1, ExportAssumption DEF ExportInv, LogInv, Rows, Kinds
  <2> HIDE DEF row
  <2>3. /\ StoreInv' /\ PageInv' /\ CheckpointInv' /\ IsFiniteSet(rows')
        /\ \A a, b \in rows' : a.seq = b.seq => a = b
    BY <2>1, <2>2, RowComes
  <2>4. LogInv'
    BY <2>1, <2>2, <2>3 DEF ExportInv, LogInv, NotOpen
  <2> QED
    BY <2>3, <2>4 DEF ExportInv
<1>5. ASSUME PublishBookkeeping
      PROVE  ExportInv'
  <2> DEFINE row == [seq |-> nextSeq, kind |-> "own"]
  <2>1. /\ holder = "free" /\ rows' = rows \union {row} /\ nextSeq' = nextSeq + 1 /\ UNCHANGED <<open, holder>>
        /\ UNCHANGED <<objects, artifacts, client, checkpoint, exporter>>
    BY <1>5 DEF PublishBookkeeping, registry
  <2>2. /\ row \in Rows /\ row.seq = nextSeq /\ nextSeq \in Nat
        /\ \A other \in rows : other.seq < row.seq /\ other.seq \in Nat
        /\ \A v \in Writer : open[v] = NotOpen
    BY <2>1, ExportAssumption DEF ExportInv, LogInv, Rows, Kinds
  <2> HIDE DEF row
  <2>3. /\ StoreInv' /\ PageInv' /\ CheckpointInv' /\ IsFiniteSet(rows')
        /\ \A a, b \in rows' : a.seq = b.seq => a = b
    BY <2>1, <2>2, RowComes
  <2>4. LogInv'
    BY <2>1, <2>2, <2>3 DEF ExportInv, LogInv, NotOpen
  <2> QED
    BY <2>3, <2>4 DEF ExportInv
<1> QED
  BY <1>2, <1>3, <1>4, <1>5

-----------------------------------------------------------------------------
(* A replica exports.                                                      *)

\* The task of one replica changes and nothing that is registered does.
LEMMA TaskChanges ==
  ASSUME ExportInv, NEW r \in Replica, NEW task \in Doing, exporter' = [exporter EXCEPT ![r] = task],
         UNCHANGED <<artifacts, client, log, checkpoint>>, Grows,
         task.at \in {"idle", "checked"} \/ (task = exporter[r])
           \/ /\ task.at \in {"read", "uploaded"}
              /\ task.expected < task.from /\ task.from <= task.to /\ task.to \in Numbers
              /\ \A row \in rows : task.expected < row.seq => task.from <= row.seq
              /\ task.included = Evidence(task.from, task.to)
              /\ task.at = "uploaded" => Object("audit", <<task.from, task.to, task.included>>, task.included) \in objects'
  PROVE  ExportInv'
<1>1. LogInv' /\ CheckpointInv'
  BY DEF ExportInv, LogInv, CheckpointInv, Exports, log, Numbers, Evidence, Included
<1>2. /\ exporter' \in [Replica -> Doing] /\ exporter'[r] = task
      /\ \A other \in Replica \ {r} : exporter'[other] = exporter[other]
  BY DEF ExportInv, PageInv
<1>3. /\ Numbers' = Numbers /\ rows' = rows /\ \A from, to : Evidence(from, to)' = Evidence(from, to)
  BY DEF log, Numbers, Evidence, Included
<1>4. PageInv'
  BY <1>2, <1>3 DEF ExportInv, PageInv
<1>5. StoreInv'
  <2>1. \A other \in Replica : ExportId(other)' = <<exporter'[other].from, exporter'[other].to, exporter'[other].included>>
    BY DEF ExportId
  <2>2. \A other \in Replica : exporter'[other].at = "uploaded" =>
          Object("audit", <<exporter'[other].from, exporter'[other].to, exporter'[other].included>>,
                 exporter'[other].included) \in objects'
    BY <1>2, StoreGrows DEF ExportInv, StoreInv, Uploaded, ExportId
  <2> QED
    BY <2>1, <2>2, StoreGrows DEF ExportInv, StoreInv, Uploaded
<1> QED
  BY <1>1, <1>4, <1>5 DEF ExportInv

LEMMA TaskTypes ==
  /\ Idle \in Doing /\ Idle.at = "idle"
  /\ \A seq \in Int : Task("checked", seq, -1, -1, {}) \in Doing /\ Task("checked", seq, -1, -1, {}).at = "checked"
BY DEF Idle, Task, Doing

LEMMA ReadSteps ==
  ASSUME ExportInv, NEW r \in Replica, ReadCheckpoint(r) \/ ReadPage(r) \/ CrashReplica(r)
  PROVE  ExportInv'
<1>1. UNCHANGED <<objects, artifacts, client, log, checkpoint>> /\ Grows
  BY DEF ReadCheckpoint, ReadPage, CrashReplica, registry, Grows, ExportInv, StoreInv
<1>2. CASE \/ exporter' = [exporter EXCEPT ![r] = Idle]
           \/ exporter' = [exporter EXCEPT ![r] = Task("checked", checkpoint.seq, -1, -1, {})]
  <2>1. checkpoint.seq \in Int
    BY DEF ExportInv, CheckpointInv
  <2> QED
    BY <1>1, <1>2, <2>1, TaskTypes, TaskChanges
<1>3. CASE /\ ReadPage(r) /\ Ahead(exporter[r].expected) # {}
           /\ \E limit \in 1..MaxPage : Read(r, Page(exporter[r].expected, limit))
  <2>1. PICK limit \in 1..MaxPage : Read(r, Page(exporter[r].expected, limit))
    BY <1>3
  <2>2. limit \in Nat \ {0}
    BY ExportAssumption
  <2>3. PICK from \in Nat, to \in Nat :
          /\ exporter' = [exporter EXCEPT ![r] = Task("read", exporter[r].expected, from, to, Evidence(from, to))]
          /\ exporter[r].expected < from /\ from <= to /\ to \in Numbers
          /\ \A row \in rows : exporter[r].expected < row.seq => from <= row.seq
    BY <1>3, <2>1, <2>2, ReadIs
  <2> DEFINE task == Task("read", exporter[r].expected, from, to, Evidence(from, to))
  <2>4. /\ task.at = "read" /\ task.expected = exporter[r].expected /\ task.from = from /\ task.to = to
        /\ task.included = Evidence(from, to)
    BY DEF Task
  <2>5. task \in Doing
    <3>1. Evidence(from, to) \in SUBSET Rows /\ exporter[r].expected \in Int
      BY DEF Evidence, Included, ExportInv, LogInv, PageInv, Doing
    <3> QED
      BY <3>1 DEF Task, Doing
  <2> HIDE DEF task
  <2> QED
    BY <1>1, <2>3, <2>4, <2>5, TaskChanges DEF task
<1> QED
  BY <1>2, <1>3 DEF ReadCheckpoint, ReadPage, CrashReplica

LEMMA UploadStep ==
  ASSUME ExportInv, NEW r \in Replica, UploadPage(r)
  PROVE  ExportInv'
<1> DEFINE body == exporter[r].included
<1>1. exporter[r].at = "read" /\ exporter[r] \in Doing /\ UNCHANGED <<artifacts, client, log, checkpoint>>
  BY DEF UploadPage, ExportInv, PageInv
<1>2. CASE PutFails(ExportObject(r)) /\ exporter' = [exporter EXCEPT ![r] = Idle]
  BY <1>1, <1>2, Puts, TaskTypes, TaskChanges DEF ExportInv, ExportObject
<1>3. CASE PutObject(ExportObject(r)) /\ exporter' = [exporter EXCEPT ![r].at = "uploaded"]
  <2> DEFINE task == [exporter[r] EXCEPT !.at = "uploaded"]
  <2>1. Grows /\ ExportObject(r) \in objects'
    BY <1>3, Puts DEF ExportInv, ExportObject
  <2>2. exporter' = [exporter EXCEPT ![r] = task]
    BY <1>3
  <2>3. /\ task \in Doing /\ task.at = "uploaded" /\ task.expected = exporter[r].expected
        /\ task.from = exporter[r].from /\ task.to = exporter[r].to /\ task.included = body
    BY <1>1 DEF Doing
  <2>4. /\ exporter[r].expected < exporter[r].from /\ exporter[r].from <= exporter[r].to
        /\ exporter[r].to \in Numbers
        /\ \A row \in rows : exporter[r].expected < row.seq => exporter[r].from <= row.seq
        /\ body = Evidence(exporter[r].from, exporter[r].to)
    BY <1>1 DEF ExportInv, PageInv
  <2> HIDE DEF task
  <2> QED
    BY <1>1, <2>1, <2>2, <2>3, <2>4, TaskChanges DEF ExportId, ExportObject
<1> QED
  BY <1>2, <1>3 DEF UploadPage

\* The export that a commit registers follows all that there are.
LEMMA CommitStep ==
  ASSUME ExportInv, NEW r \in Replica, CommitExport(r)
  PROVE  ExportInv'
<1> DEFINE from == exporter[r].from
           to == exporter[r].to
           body == exporter[r].included
           export == ExportRecord(r)
<1>1. /\ exporter[r].at = "uploaded" /\ exporter' = [exporter EXCEPT ![r] = Idle]
      /\ UNCHANGED <<objects, client, log>>
  BY DEF CommitExport
<1>2. CASE UNCHANGED <<artifacts, checkpoint>>
  <2>1. Grows
    BY <1>1 DEF Grows, ExportInv, StoreInv
  <2> QED
    BY <1>1, <1>2, <2>1, TaskTypes, TaskChanges
<1>3. CASE /\ checkpoint.seq = exporter[r].expected /\ Registrable(export)
           /\ artifacts' = artifacts \union {export}
           /\ checkpoint' = [seq |-> to, artifact |-> ExportId(r)]
  <2>1. /\ exporter[r] \in Doing /\ checkpoint.seq < from /\ from <= to /\ to \in Numbers
        /\ \A row \in rows : checkpoint.seq < row.seq => from <= row.seq
        /\ body = Evidence(from, to) /\ from \in Int /\ to \in Int /\ checkpoint.seq \in Int
        /\ Uploaded("audit", ExportId(r), body)
    BY <1>1, <1>3 DEF ExportInv, PageInv, StoreInv, CheckpointInv, Doing
  <2>2. /\ export = Record("audit", ExportId(r), body) /\ export.key[1] = "audit"
        /\ export.id = <<from, to, body>> /\ export.body = body
        /\ export.id[1] = from /\ export.id[2] = to
    BY RecordsAre DEF ExportRecord, ExportId
  <2>4. Exports' = Exports \union {export}
    BY <1>3, <2>2 DEF Exports
  <2>5. UNCHANGED <<rows, open, nextSeq, holder>>
    BY <1>1 DEF log
  <2>6. LogInv'
    BY <2>5 DEF ExportInv, LogInv
  <2>7. /\ exporter' \in [Replica -> Doing] /\ exporter'[r].at = "idle"
        /\ \A other \in Replica \ {r} : exporter'[other] = exporter[other]
    BY <1>1, TaskTypes DEF ExportInv, PageInv
  <2>8. PageInv'
    BY <2>5, <2>7 DEF ExportInv, PageInv, Numbers, Evidence, Included
  <2>9. StoreInv'
    <3>1. \A other \in Replica \ {r} : ExportId(other)' = ExportId(other)
      BY <2>7 DEF ExportId
    <3>2. /\ \A o \in objects' : o = Object(o.key[1], o.key[2], o.key[3])
          /\ \A a \in artifacts' : a = Record(a.key[1], a.id, a.body) /\ Uploaded(a.key[1], a.id, a.body)'
          /\ \A a, a2 \in artifacts' : a.id = a2.id => a = a2
          /\ \A d, j, c : Uploaded(d, j, c)' <=> Uploaded(d, j, c)
      <4>1. Uploaded("audit", ExportId(r), body) /\ Registrable(Record("audit", ExportId(r), body))
            /\ artifacts' = artifacts \union {Record("audit", ExportId(r), body)} /\ UNCHANGED objects
        BY <1>1, <1>3, <2>1, <2>2
      <4> QED
        BY <4>1, Registers DEF ExportInv
    <3>3. \A other \in Replica :
            (exporter[other].at = "uploaded" => Uploaded("audit", ExportId(other), exporter[other].included))'
      BY <1>1, <2>7, <3>1 DEF ExportInv, StoreInv, Uploaded
    <3>4. artifacts \subseteq artifacts' /\ client' = client
      BY <1>1, <1>3
    <3> QED
      BY <3>2, <3>3, <3>4 DEF ExportInv, StoreInv
  <2>10. CheckpointInv'
    <3> HIDE DEF export
    <3>1. checkpoint'.seq = to /\ \A row \in rows : row.seq \in Int
      BY <1>3 DEF ExportInv, LogInv, Rows
    <3>2. /\ \A i, j : Evidence(i, j)' = Evidence(i, j)
          /\ Numbers' = Numbers /\ Included(rows)' = Included(rows)
      BY <2>5 DEF Evidence, Numbers, Included
    <3>3. \A a \in Exports' :
            /\ a.id[1] \in Int /\ a.id[2] \in Int /\ a.id[2] <= to
            /\ a.body = Evidence(a.id[1], a.id[2])
      <4>1. \A a \in Exports :
              /\ a.id[1] \in Int /\ a.id[2] \in Int /\ a.id[2] <= checkpoint.seq
              /\ a.body = Evidence(a.id[1], a.id[2])
        BY DEF ExportInv, CheckpointInv
      <4>2. export.id[1] \in Int /\ export.id[2] \in Int /\ export.id[2] <= to
            /\ export.body = Evidence(export.id[1], export.id[2])
        BY <2>1, <2>2
      <4>3. \A n \in Int : n <= checkpoint.seq => n <= to
        BY <2>1
      <4> QED
        BY <2>4, <4>1, <4>2, <4>3
    <3>4. \A a \in Exports : \A row \in a.body : row.seq <= checkpoint.seq
      BY <2>1, <3>1 DEF ExportInv, CheckpointInv, Evidence, Included
    <3>5. \A row \in body : row.seq > checkpoint.seq
      BY <2>1, <3>1 DEF Evidence, Included
    <3>6. ASSUME NEW row \in Included(rows), row.seq <= to
          PROVE  \E a \in Exports' : row \in a.body /\ \A b \in Exports' : row \in b.body => b = a
      <4>0. row \in rows /\ row.seq \in Int
        BY <3>1 DEF Included
      <4>1. CASE row.seq <= checkpoint.seq
        <5>1. PICK a \in Exports : row \in a.body /\ \A b \in Exports : row \in b.body => b = a
          BY <4>1 DEF ExportInv, CheckpointInv
        <5>2. row \notin export.body
          BY <2>1, <2>2, <3>5, <4>0, <4>1
        <5> QED
          BY <2>4, <5>1, <5>2
      <4>2. CASE ~(row.seq <= checkpoint.seq)
        <5>1. row \in body
          BY <2>1, <3>6, <4>0, <4>2 DEF Evidence
        <5>2. \A b \in Exports : row \notin b.body
          BY <3>4, <4>2
        <5> QED
          BY <2>2, <2>4, <5>1, <5>2
      <4> QED
        BY <4>1, <4>2
    <3> QED
      BY <2>1, <3>1, <3>2, <3>3, <3>6 DEF CheckpointInv
  <2> QED
    BY <2>6, <2>8, <2>9, <2>10 DEF ExportInv
<1> QED
  BY <1>2, <1>3 DEF CommitExport

-----------------------------------------------------------------------------
LEMMA ExportInvInit == Init => ExportInv
<1> SUFFICES ASSUME Init
             PROVE  ExportInv
  OBVIOUS
<1> USE DEF Init, RegistryInit
<1>1. LogInv
  BY FS_EmptySet DEF LogInv, NotOpen
<1>2. StoreInv
  BY TaskTypes DEF StoreInv
<1>3. PageInv
  BY TaskTypes DEF PageInv
<1>4. CheckpointInv
  BY DEF CheckpointInv, Exports, Included
<1> QED
  BY <1>1, <1>2, <1>3, <1>4 DEF ExportInv

LEMMA ExportInvStep == ExportInv /\ [Next]_vars => ExportInv'
<1> SUFFICES ASSUME ExportInv, [Next]_vars
             PROVE  ExportInv'
  OBVIOUS
<1>1. CASE UNCHANGED vars
  <2>1. UNCHANGED <<objects, artifacts, client, log, checkpoint, exporter>>
    BY <1>1 DEF vars, registry, log
  <2>2. LogInv' /\ StoreInv' /\ PageInv' /\ CheckpointInv'
    BY <2>1 DEF ExportInv, LogInv, StoreInv, PageInv, CheckpointInv, Uploaded, ExportId, Exports, Numbers,
                Evidence, Included, log
  <2> QED
    BY <2>2 DEF ExportInv
<1>2. CASE (\E w \in Writer : Allocate(w) \/ CommitEvent(w) \/ RollBack(w)) \/ PublishBookkeeping
  BY <1>2, LogSteps
<1>3. ASSUME NEW r \in Replica, Export(r) \/ CrashReplica(r)
      PROVE  ExportInv'
  BY <1>3, ReadSteps, UploadStep, CommitStep DEF Export
<1>4. ASSUME NEW c \in Client, RegistryStep(c) \/ ClientRetries(c),
             UNCHANGED <<log, bookkeeping, checkpoint, exporter>>
      PROVE  ExportInv'
  BY <1>4, ClientSteps
<1> QED
  BY <1>1, <1>2, <1>3, <1>4 DEF Next

LEMMA ExportInvAlways == Spec => []ExportInv
<1>1. Init => ExportInv
  BY ExportInvInit
<1>2. ExportInv /\ [Next]_vars => ExportInv'
  BY ExportInvStep
<1> QED
  BY <1>1, <1>2, PTL DEF Spec

(* What is registered can be had, an id has one content, and a client that *)
(* was told that its artifact is stored is right: for any clients that     *)
(* share ids, any retries and any faults.                                  *)
THEOREM RegistryCorrect == Spec => []RegisteredIsStored
<1>1. ExportInv => RegisteredIsStored
  <2> SUFFICES ASSUME ExportInv
               PROVE  RegisteredIsStored
    OBVIOUS
  <2>1. ASSUME NEW a \in artifacts
        PROVE  \E o \in objects : o.key = a.key /\ o.body = a.body
    <3>1. a = Record(a.key[1], a.id, a.body) /\ Object(a.key[1], a.id, a.body) \in objects
      BY DEF ExportInv, StoreInv, Uploaded
    <3>2. Object(a.key[1], a.id, a.body).key = a.key /\ Object(a.key[1], a.id, a.body).body = a.body
      BY <3>1, RecordsAre
    <3> QED
      BY <3>1, <3>2
  <2> QED
    BY <2>1 DEF RegisteredIsStored, ExportInv, StoreInv
<1> QED
  BY <1>1, ExportInvAlways, PTL

(* Every event of evidence the checkpoint has passed is in exactly one     *)
(* export, and an export has the evidence of its range: for any number of  *)
(* replicas that race and of writers that commit or roll back meanwhile.   *)
THEOREM AuditCorrect == Spec => []AuditComplete
<1>1. ExportInv => AuditComplete
  <2> SUFFICES ASSUME ExportInv
               PROVE  AuditComplete
    OBVIOUS
  <2>1. ASSUME NEW row \in Included(rows), row.seq <= checkpoint.seq
        PROVE  Cardinality({a \in Exports : row \in a.body}) = 1
    <3>1. PICK a \in Exports : row \in a.body /\ \A b \in Exports : row \in b.body => b = a
      BY <2>1 DEF ExportInv, CheckpointInv
    <3>2. {b \in Exports : row \in b.body} = {a}
      BY <3>1
    <3> QED
      BY <3>2, FS_Singleton
  <2>2. \A a \in Exports : a.body = Evidence(a.id[1], a.id[2])
    BY DEF ExportInv, CheckpointInv
  <2> QED
    BY <2>1, <2>2 DEF AuditComplete
<1> QED
  BY <1>1, ExportInvAlways, PTL
=============================================================================
