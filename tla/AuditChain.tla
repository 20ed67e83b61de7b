----------------------------- MODULE AuditChain -----------------------------
(***************************************************************************)
(* The audit trail of an organisation: rows chained by hash, written by    *)
(* requests that may overlap, each in a serializable transaction, verified *)
(* on demand, and anonymised when their retention has passed.              *)
(*                                                                         *)
(* A hash is the sequence number of its row: it stands for the content and *)
(* the predecessor that were hashed.  Rows from before the hash column     *)
(* have none.                                                              *)
(***************************************************************************)
EXTENDS Naturals, SequencesExt

CONSTANTS
    AuditReqs,      \* requests that record an event
    VERIFY_LIMIT,   \* rows one verification reads
    MaxLegacy,      \* bound on rows without a hash
    MaxAuditRows    \* bound on the rows of the trail

ASSUME AuditAssumption == VERIFY_LIMIT \in Nat /\ MaxLegacy \in Nat /\ MaxAuditRows \in Nat

VARIABLES
    trail,      \* rows by sequence: prev is the hash of its predecessor, 0 when null
    auditor,    \* request -> where its transaction is, the hash it read, the rows it saw
    missed      \* history: events that were not recorded

auditVars == <<trail, auditor, missed>>

NoAudit == [pc |-> "idle", last |-> 0, saw |-> 0]
Row(prev, hashed) == [prev |-> prev, hashed |-> hashed, anon |-> FALSE]

AuditInit ==
    /\ \E n \in 0..MaxLegacy : trail = [i \in 1..n |-> Row(0, FALSE)]
    /\ auditor = [r \in AuditReqs |-> NoAudit]
    /\ missed = 0

\* The hash column of the newest row.
LastHash == IF trail # <<>> /\ Last(trail).hashed THEN Len(trail) ELSE 0

----------------------------------------------------------------------------
(* logAuditEvent.                                                          *)

\* The transaction reads the newest row, on its snapshot.
ReadsLast(r) ==
    /\ auditor[r].pc = "idle" /\ Len(trail) < MaxAuditRows
    /\ auditor' = [auditor EXCEPT ![r] = [pc |-> "insert", last |-> LastHash, saw |-> Len(trail)]]
    /\ UNCHANGED <<trail, missed>>

\* Mutant: a transaction that is not serializable.
InsertsAnyway(r) ==
    /\ auditor[r].pc = "insert"
    /\ trail' = Append(trail, Row(auditor[r].last, TRUE))
    /\ auditor' = [auditor EXCEPT ![r] = NoAudit]
    /\ UNCHANGED missed

\* It commits only if no other row was inserted since its snapshot.
Inserts(r) ==
    /\ auditor[r].pc = "insert" /\ auditor[r].saw = Len(trail)
    /\ trail' = Append(trail, Row(auditor[r].last, TRUE))
    /\ auditor' = [auditor EXCEPT ![r] = NoAudit]
    /\ UNCHANGED missed

\* A serialization failure, a time-out: logged, not tried again; the operation went through.
EventLost(r) ==
    /\ auditor[r].pc = "insert"
    /\ auditor' = [auditor EXCEPT ![r] = NoAudit]
    /\ missed' = missed + 1 /\ missed < MaxAuditRows
    /\ UNCHANGED trail

----------------------------------------------------------------------------
(* verifyAuditChain: rows that are not anonymised and have a hash, oldest  *)
(* first, each to follow the one before it.                                *)

Verifiable == {i \in DOMAIN trail : trail[i].hashed /\ ~trail[i].anon}

Before(i) == {j \in Verifiable : j < i}

Checked == {i \in Verifiable : Cardinality(Before(i)) < VERIFY_LIMIT}

prevHash(i) == IF Before(i) = {} THEN 0 ELSE Max(Before(i))

\* The rows that do not follow: valid when there are none, else the oldest is accused.
Broken == {i \in Checked : trail[i].prev # prevHash(i)}

\* anonymizeExpiredAuditLogs: every row older than the retention.
Anonymizes(n) ==
    /\ \E i \in 1..n : ~trail[i].anon
    /\ trail' = [i \in DOMAIN trail |-> IF i <= n THEN [trail[i] EXCEPT !.anon = TRUE] ELSE trail[i]]
    /\ UNCHANGED <<auditor, missed>>

AuditNext ==
    \/ \E r \in AuditReqs : ReadsLast(r) \/ Inserts(r) \/ EventLost(r)
    \/ \E n \in DOMAIN trail : Anonymizes(n)

AuditSpec == AuditInit /\ [][AuditNext]_auditVars

----------------------------------------------------------------------------
AuditTypeOK ==
    /\ trail \in Seq([prev : Nat, hashed : BOOLEAN, anon : BOOLEAN])
    /\ auditor \in [AuditReqs -> [pc : {"idle", "insert"}, last : Nat, saw : Nat]]
    /\ missed \in Nat

(***************************************************************************)
(* Whatever requests are recorded at once, whatever is lost and whatever   *)
(* is anonymised, the verification never accuses the code's own            *)
(* concurrency of tampering: the one row it may accuse is the oldest one   *)
(* it still reads, when the row just before it was chained and has been    *)
(* anonymised.  A trail of which nothing is anonymised verifies            *)
(* (logAuditEvent, verifyAuditChain, anonymizeExpiredAuditLogs).           *)
(***************************************************************************)
ChainVerifies ==
    \A i \in Broken : Before(i) = {} /\ i > 1 /\ trail[i - 1].hashed /\ trail[i - 1].anon
=============================================================================
