------------------------------ MODULE AuditExport ----------------------------
(***************************************************************************)
(* The audit exporter of the control plane (audit.ts) from the session     *)
(* store it reads (packages/sessions/src/postgres.ts) to the checkpoint it *)
(* commits (postgres.ts), by several replicas at once, beside the other    *)
(* artifacts.                                                              *)
(*                                                                         *)
(* The log is read by cursor: an event that became visible behind a        *)
(* checkpoint would never be exported.  An export publishes events of its  *)
(* own, which come back through the log; its two are counted as one here.  *)
(* How they get there is module Outbox.  An event too large for an export  *)
(* or one that does not parse stops every drain that meets it, and so does *)
(* an artifact that a client registered under the name of an export.       *)
(***************************************************************************)
EXTENDS Artifacts

CONSTANTS Writer,  \* transactions that append one event each
          Appends, \* the kinds of event each may append
          Replica, \* replicas of the control plane
          MaxPage, \* maxEventsPerExport
          MaxLog   \* bound: numbers the log can take; an export that announced
                   \* every export of its own announcements would use them all up

\* Evidence is exported, if it fits: a "large" event alone exceeds
\* maxExportBytes, one that is "malformed" is not deserialized.  "own" events
\* are those of the exports.
Kinds == {"evidence", "large", "malformed", "own"}

ASSUME ExportAssumption ==
  /\ MaxPage \in Nat \ {0} /\ MaxLog \in Nat /\ "free" \notin Writer
  /\ Appends \in [Writer -> SUBSET (Kinds \ {"own"})]

VARIABLES
  rows,       \* harness_events: set of [seq, kind]
  nextSeq,    \* harness_event_global_sequence
  holder,     \* the transaction that holds the row lock of the sequence, or "free"
  open,       \* the number a writer's open transaction allocated, or NotOpen
  written,    \* writers that committed
  bookkeeping,\* export events on their way back to the log
  checkpoint, \* control_audit_checkpoints: [seq, artifact]
  exporter    \* what a replica is doing: [at, expected, from, to, included]

vars == <<registry, rows, nextSeq, holder, open, written, bookkeeping, checkpoint, exporter>>
log == <<rows, nextSeq, holder, open, written>>

NotOpen == -1
Task(stage, expected, from, to, included) ==
  [at |-> stage, expected |-> expected, from |-> from, to |-> to, included |-> included]
Idle == Task("idle", -1, -1, -1, {})

-----------------------------------------------------------------------------
(* appendWithLockedSession and allocateGlobalSequence.  Who updates the     *)
(* sequence holds its row until the end of the transaction.                *)

Take(w) ==
  /\ open' = [open EXCEPT ![w] = nextSeq] /\ nextSeq' = nextSeq + 1
  /\ UNCHANGED <<registry, rows, written, bookkeeping, checkpoint, exporter>>

\* mutant: an identity column, which no transaction holds
AllocateIdentity(w) ==
  /\ open[w] = NotOpen /\ w \notin written
  /\ Take(w) /\ UNCHANGED holder

Allocate(w) ==
  /\ open[w] = NotOpen /\ w \notin written /\ holder = "free"
  /\ Take(w) /\ holder' = w

CommitEvent(w) ==
  /\ open[w] # NotOpen
  /\ \E kind \in Appends[w] : rows' = rows \union {[seq |-> open[w], kind |-> kind]}
  /\ open' = [open EXCEPT ![w] = NotOpen] /\ written' = written \union {w} /\ holder' = "free"
  /\ UNCHANGED <<registry, nextSeq, bookkeeping, checkpoint, exporter>>

RollBack(w) ==
  /\ open[w] # NotOpen /\ Fault
  /\ nextSeq' = open[w] /\ open' = [open EXCEPT ![w] = NotOpen] /\ holder' = "free"
  /\ UNCHANGED <<objects, artifacts, client, rows, written, bookkeeping, checkpoint, exporter>>

\* the outbox delivers an event of an export
PublishBookkeeping ==
  /\ bookkeeping > 0 /\ bookkeeping' = bookkeeping - 1
  /\ holder = "free" /\ nextSeq < MaxLog
  /\ rows' = rows \union {[seq |-> nextSeq, kind |-> "own"]} /\ nextSeq' = nextSeq + 1
  /\ UNCHANGED <<registry, holder, open, written, checkpoint, exporter>>

-----------------------------------------------------------------------------
(* exportNextUnlocked: one at a time in a replica *)

ReadCheckpoint(r) ==
  /\ exporter[r].at = "idle"
  /\ exporter' = [exporter EXCEPT ![r] = Task("checked", checkpoint.seq, -1, -1, {})]
  /\ UNCHANGED <<registry, log, bookkeeping, checkpoint>>

\* the rows of readAuditEvents, in order
Ahead(cursor) == {row \in rows : row.seq > cursor}
Page(cursor, limit) ==
  {row \in Ahead(cursor) : Cardinality({before \in Ahead(cursor) : before.seq < row.seq}) < limit}
Included(page) == {row \in page : row.kind # "own"}
Has(page, kind) == \E row \in page : row.kind = kind

Read(r, page) ==
  LET seqs == {row.seq : row \in page} IN
    exporter' = [exporter EXCEPT ![r] =
                   Task("read", @.expected, CHOOSE s \in seqs : \A other \in seqs : s <= other,
                        CHOOSE s \in seqs : \A other \in seqs : other <= s, Included(page))]

\* mutant: a page with an event that is too large is refused, not halved
ReadWhole(r) ==
  LET page == Page(exporter[r].expected, MaxPage) IN
    /\ exporter[r].at = "checked"
    /\ IF page = {} \/ Has(page, "malformed") \/ Has(page, "large") THEN exporter' = [exporter EXCEPT ![r] = Idle]
       ELSE Read(r, page)
    /\ UNCHANGED <<registry, log, bookkeeping, checkpoint>>

\* a body that is too large halves the page, so that any length up to the limit
\* may come out; an event that is too large alone fails the drain, and so does a
\* malformed one anywhere in the page
ReadPage(r) ==
  LET cursor == exporter[r].expected
      fitting == IF Has(Page(cursor, MaxPage), "malformed") THEN {}
                 ELSE {limit \in 1..MaxPage : ~Has(Page(cursor, limit), "large")}
  IN  /\ exporter[r].at = "checked"
      /\ IF Ahead(cursor) = {} \/ fitting = {} THEN exporter' = [exporter EXCEPT ![r] = Idle]
         ELSE \E limit \in fitting : Read(r, Page(cursor, limit))
      /\ UNCHANGED <<registry, log, bookkeeping, checkpoint>>

\* exportId: the range and the digest of what is in it
ExportId(r) == <<exporter[r].from, exporter[r].to, exporter[r].included>>
ExportRecord(r) == Record("audit", ExportId(r), exporter[r].included)
ExportObject(r) == Object("audit", ExportId(r), exporter[r].included)

UploadPage(r) ==
  /\ exporter[r].at = "read"
  /\ \/ PutObject(ExportObject(r))
        /\ exporter' = [exporter EXCEPT ![r].at = "uploaded"] /\ UNCHANGED faults
     \/ PutFails(ExportObject(r)) /\ Fault
        /\ exporter' = [exporter EXCEPT ![r] = Idle]
  /\ UNCHANGED <<artifacts, client, log, bookkeeping, checkpoint>>

(* commitAuditExport: one transaction under the checkpoint's row lock.  A  *)
(* checkpoint that moved is this very export, committed already, or a      *)
(* conflict, and so is an artifact of a client with the export's name;     *)
(* either way the next drain starts over.                                  *)
CommitExport(r) ==
  /\ exporter[r].at = "uploaded"
  /\ exporter' = [exporter EXCEPT ![r] = Idle]
  /\ IF checkpoint.seq = exporter[r].expected /\ Registrable(ExportRecord(r))
     THEN /\ artifacts' = artifacts \union {ExportRecord(r)}
          /\ checkpoint' = [seq |-> exporter[r].to, artifact |-> ExportId(r)]
          /\ bookkeeping' = bookkeeping + IF exporter[r].included = {} THEN 0 ELSE 1
     ELSE UNCHANGED <<artifacts, checkpoint, bookkeeping>>
  /\ UNCHANGED <<objects, client, faults, log>>

CrashReplica(r) ==
  /\ exporter[r] # Idle /\ Fault
  /\ exporter' = [exporter EXCEPT ![r] = Idle]
  /\ UNCHANGED <<objects, artifacts, client, log, bookkeeping, checkpoint>>

-----------------------------------------------------------------------------
Init ==
  /\ RegistryInit
  /\ rows = {} /\ nextSeq = 0 /\ holder = "free" /\ open = [w \in Writer |-> NotOpen] /\ written = {}
  /\ bookkeeping = 0 /\ checkpoint = [seq |-> -1, artifact |-> "none"]
  /\ exporter = [r \in Replica |-> Idle]

Export(r) == ReadCheckpoint(r) \/ ReadPage(r) \/ UploadPage(r) \/ CommitExport(r)

Next ==
  \/ \E w \in Writer : Allocate(w) \/ CommitEvent(w) \/ RollBack(w)
  \/ PublishBookkeeping
  \/ \E r \in Replica : Export(r) \/ CrashReplica(r)
  \/ \E c \in Client : RegistryStep(c) /\ UNCHANGED <<log, bookkeeping, checkpoint, exporter>>
  \/ \E c \in Client : ClientRetries(c) /\ UNCHANGED <<log, bookkeeping, checkpoint, exporter>>

Spec == Init /\ [][Next]_vars

\* The drain timer of each replica goes on, and the outbox publishes
\* (Outbox!PublishedIsDelivered); nothing is asked of the writers.
FairSpec ==
  /\ Spec
  /\ \A w \in Writer : WF_vars(CommitEvent(w) \/ RollBack(w))
  /\ WF_vars(PublishBookkeeping)
  /\ \A r \in Replica : WF_vars(Export(r))

-----------------------------------------------------------------------------
Exports == {a \in artifacts : a.key[1] = "audit"}
Evidence(from, to) == {row \in Included(rows) : from <= row.seq /\ row.seq <= to}

(* The export is complete: every event of evidence up to the checkpoint is *)
(* in exactly one registered export, and an export has the evidence of its *)
(* range, whichever replicas raced for it and whenever writers committed,  *)
(* and whatever names clients give their artifacts.                        *)
AuditComplete ==
  /\ \A row \in Included(rows) : row.seq <= checkpoint.seq => Cardinality({a \in Exports : row \in a.body}) = 1
  /\ \A a \in Exports : a.body = Evidence(a.id[1], a.id[2])

(* What may keep an event from ever being exported: an event before it, or *)
(* itself, that is too large; a malformed one before it or in its page; an *)
(* artifact of a client with the name of an export that starts before it.  *)
Kept(row) ==
  \/ \E other \in rows : \/ other.kind = "large" /\ other.seq <= row.seq
                         \/ other.kind = "malformed" /\ other.seq < row.seq + MaxPage
  \/ \E a \in artifacts \ Exports, first, last \in rows :
       first.seq <= row.seq /\ a.id = <<first.seq, last.seq, Evidence(first.seq, last.seq)>>

(* The drain ends: exports announce themselves in the log they export, and *)
(* still there comes a time when no announcement is on its way and the     *)
(* checkpoint is at the end of the log, or at what stops it, and stays     *)
(* there: one event that cannot be exported holds up none before it.       *)
AuditDrains == <>[](bookkeeping = 0 /\ \A row \in rows : row.seq <= checkpoint.seq \/ Kept(row))
=============================================================================
