------------------------------ MODULE Artifacts ------------------------------
(***************************************************************************)
(* The artifact registry of the control plane (artifacts.ts), the S3       *)
(* object store under it (s3.ts) and the table that names the objects      *)
(* (postgres.ts).                                                          *)
(*                                                                         *)
(* An object is a key and a body, an artifact an id, a key and a body that *)
(* stands for its digest, size and type.  The key has the id and the       *)
(* digest in it, so two bodies under one id are two objects; keys under    *)
(* "artifacts" are the clients', those under "audit" the exporter's.  As   *)
(* the key tells its body, a key that is taken has the same bytes: uploads *)
(* that differ in their content type alone are not told apart.  An upload  *)
(* and the transaction that registers it are two steps: the replica may    *)
(* crash in between, and a request may have happened though it failed.     *)
(***************************************************************************)
EXTENDS Integers, FiniteSets

CONSTANTS Client,    \* calls of POST /v1/artifacts, each retried until it is answered
          Request,   \* what a client asks to register: [id, body]; the id stands
                     \* for its idempotency key
          MaxFaults  \* bound: crashes, lost answers and failed uploads

ASSUME ArtifactAssumption == MaxFaults \in Nat

VARIABLES
  objects,   \* the bucket: set of [key, body]
  artifacts, \* control_artifacts: set of [id, key, body]
  client,    \* "idle", "absent", "uploaded", or its answer: "stored" or "conflict"
  faults

registry == <<objects, artifacts, client, faults>>

Key(dir, id, body) == <<dir, id, body>>
Record(dir, id, body) == [id |-> id, key |-> Key(dir, id, body), body |-> body]
Object(dir, id, body) == [key |-> Key(dir, id, body), body |-> body]
ClientRecord(c) == Record("artifacts", Request[c].id, Request[c].body)

Fault == faults < MaxFaults /\ faults' = faults + 1

-----------------------------------------------------------------------------
(* putObject with if-none-match: a key that is taken is read back, and is   *)
(* as good as stored if it has the same bytes                              *)
Taken(object) == \E stored \in objects : stored.key = object.key
Verified(object) == \A stored \in objects : stored.key = object.key => stored.body = object.body

\* mutant: an upload whose answer did not arrive is taken for stored
PutAssumed(object) == objects' \in {objects, IF Taken(object) THEN objects ELSE objects \union {object}}

PutObject(object) ==
  /\ Verified(object)
  /\ objects' = IF Taken(object) THEN objects ELSE objects \union {object}

\* the request failed, timed out or was never sent: the bytes may be there
PutFails(object) ==
  \/ UNCHANGED objects
  \/ ~Taken(object) /\ objects' = objects \union {object}

(* registerArtifactWith *)
Known(id) == \E artifact \in artifacts : artifact.id = id
Registrable(record) == record \in artifacts \/ ~Known(record.id)

-----------------------------------------------------------------------------
(* register: an id that is known is answered at once *)
LookUp(c) ==
  /\ client[c] = "idle"
  /\ client' = [client EXCEPT ![c] = IF ClientRecord(c) \in artifacts THEN "stored"
                                     ELSE IF Known(Request[c].id) THEN "conflict" ELSE "absent"]
  /\ UNCHANGED <<objects, artifacts, faults>>

(* prepare *)
Upload(c) ==
  LET object == Object("artifacts", Request[c].id, Request[c].body) IN
    /\ client[c] = "absent"
    /\ \/ PutObject(object) /\ client' = [client EXCEPT ![c] = "uploaded"] /\ UNCHANGED faults
       \/ PutFails(object) /\ Fault /\ client' = [client EXCEPT ![c] = "idle"]
    /\ UNCHANGED artifacts

(* commitPrepared *)
Register(c) ==
  /\ client[c] = "uploaded"
  /\ IF Registrable(ClientRecord(c))
     THEN /\ artifacts' = artifacts \union {ClientRecord(c)}
          /\ \/ client' = [client EXCEPT ![c] = "stored"] /\ UNCHANGED faults
             \/ client' = [client EXCEPT ![c] = "idle"] /\ Fault
     ELSE client' = [client EXCEPT ![c] = "conflict"] /\ UNCHANGED <<artifacts, faults>>
  /\ UNCHANGED objects

\* A replica crashes in the middle of a call; its client tries again.
ClientRetries(c) ==
  /\ client[c] \in {"absent", "uploaded"} /\ Fault
  /\ client' = [client EXCEPT ![c] = "idle"]
  /\ UNCHANGED <<objects, artifacts>>

RegistryInit ==
  /\ objects = {} /\ artifacts = {} /\ faults = 0
  /\ client = [c \in Client |-> "idle"]

RegistryStep(c) == LookUp(c) \/ Upload(c) \/ Register(c)

-----------------------------------------------------------------------------
(* What is registered can be had: its object is stored with its bytes, an  *)
(* id never changes its content, and a client that was told so is right,   *)
(* whatever its retries and a client with the same key did meanwhile.      *)
RegisteredIsStored ==
  /\ \A a \in artifacts : \E o \in objects : o.key = a.key /\ o.body = a.body
  /\ \A a, b \in artifacts : a.id = b.id => a = b
  /\ \A c \in Client : client[c] = "stored" => ClientRecord(c) \in artifacts
=============================================================================
