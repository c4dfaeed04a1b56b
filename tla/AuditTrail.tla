------------------------------ MODULE AuditTrail ------------------------------
(***************************************************************************)
(* The audit log: one row per tool call (server/src/audit/audit-writer.ts) *)
(* and its pages for admins (server/src/services/audit-service.ts), newest *)
(* first, each beginning below the last id of the one before.              *)
(*                                                                         *)
(* An insert takes its id from the sequence first and is visible when it   *)
(* commits, so rows may appear in another order than their ids'.  A row    *)
(* matches the filter of the walk or it does not.                          *)
(***************************************************************************)
EXTENDS Integers, Sequences, FiniteSets

CONSTANTS
    MaxRows,        \* bound: ids
    PageSizes       \* page sizes the reader asks for

ASSUME TrailAssumption == MaxRows \in Nat /\ PageSizes \subseteq Nat \ {0}

VARIABLES
    auditRow,       \* [1..MaxRows -> state of the row with this id]
    reader          \* the walk through the pages

trailVars == <<auditRow, reader>>

RowStates == {"free", "inserting", "failed", "matching", "other"}

AuditReader == [pc : {"idle", "paging", "done"}, before : 1..(MaxRows + 1),
                seen : Seq(1..MaxRows), there : SUBSET (1..MaxRows)]

TrailTypeOK ==
    /\ auditRow \in [1..MaxRows -> RowStates]
    /\ reader \in AuditReader

TrailInit ==
    /\ auditRow = [n \in 1..MaxRows |-> "free"]
    /\ reader = [pc |-> "idle", before |-> MaxRows + 1, seen |-> << >>, there |-> {}]

Visible == {n \in 1..MaxRows : auditRow[n] = "matching"}

(* recordToolCall: the insert takes the next id ... *)
InsertRow ==
    /\ \E n \in 1..MaxRows :
          /\ auditRow[n] = "free" /\ \A m \in 1..(n - 1) : auditRow[m] # "free"
          /\ auditRow' = [auditRow EXCEPT ![n] = "inserting"]
    /\ UNCHANGED reader

(* ... and commits, or fails and leaves its entry to the log of the process. *)
EndInsert(n) ==
    /\ auditRow[n] = "inserting"
    /\ \E state \in {"matching", "other", "failed"} : auditRow' = [auditRow EXCEPT ![n] = state]
    /\ UNCHANGED reader

(* The first n of a set of ids, newest first. *)
Newest(ids, n) ==
    LET rank(i) == Cardinality({j \in ids : j >= i})
        size == IF Cardinality(ids) < n THEN Cardinality(ids) ELSE n
    IN  [k \in 1..size |-> CHOOSE i \in ids : rank(i) = k]

(* Mutant: the next page begins below the row that told there is one. *)
CursorBelowNext(page, found, limit) == Newest(found, limit + 1)[limit + 1]

(* nextCursor: the id of the last row shown. *)
NextCursor(page, found, limit) == page[Len(page)]

(* list: one row more than the page holds tells whether there is another page. *)
ReadPage(limit) ==
    LET found == {n \in Visible : n < reader.before}
        page == Newest(found, limit)
    IN  /\ reader.pc # "done"
        /\ reader' = [reader EXCEPT
              !.pc = IF Cardinality(found) > limit THEN "paging" ELSE "done",
              !.before = IF Cardinality(found) > limit THEN NextCursor(page, found, limit) ELSE @,
              !.seen = @ \o page,
              !.there = IF reader.pc = "idle" THEN Visible ELSE @]
        /\ UNCHANGED auditRow

TrailNext ==
    \/ InsertRow \/ \E n \in 1..MaxRows : EndInsert(n)
    \/ \E limit \in PageSizes : ReadPage(limit)

TrailSpec == TrailInit /\ [][TrailNext]_trailVars

(* "Newest first, paginated by id so pages stay stable while new rows keep arriving"
   (audit-service.ts:18-19): the pages show no row twice, and a walk to the last page has
   shown every row that was there when it began. *)
AuditPagesComplete ==
    /\ \A k \in 1..(Len(reader.seen) - 1) : reader.seen[k + 1] < reader.seen[k]
    /\ reader.pc = "done" =>
          \A n \in reader.there : \E k \in DOMAIN reader.seen : reader.seen[k] = n

=============================================================================
