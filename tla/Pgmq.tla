-------------------------------- MODULE Pgmq --------------------------------
(***************************************************************************)
(* The command queue of the asset optimizer as the code uses it: one row   *)
(* per command in a PGMQ table, touched only through the five SQL calls    *)
(* made by internal/mq/consumer.go.  PGMQ itself is not part of the        *)
(* repository; the operators below say what each call does to one row.     *)
(*                                                                         *)
(*   st         where the row is: in the queue table, deleted, or moved to *)
(*              the archive (the dead-letter table)                        *)
(*   visible    whether its visibility timeout has passed                  *)
(*   readCount  how many times it has been read (Message.ReadCount)        *)
(*                                                                         *)
(* Every call but Read names the row by its transport id alone: PGMQ does  *)
(* not check that the caller still holds the lease it got from Read, and a *)
(* call that finds no row in the queue table changes nothing.              *)
(***************************************************************************)
EXTENDS Naturals

RowStates == {"queued", "deleted", "archived"}

Row == [st : RowStates, visible : BOOLEAN, readCount : Nat]

\* A command the API has just enqueued.
Enqueued == [st |-> "queued", visible |-> TRUE, readCount |-> 0]

\* Only queued, visible rows are returned by pgmq.read.
Readable(row) == row.st = "queued" /\ row.visible

\* pgmq.read(queue, vt, 1): the row is hidden for vt and its count grows.
RowRead(row) == [st |-> row.st, visible |-> FALSE, readCount |-> row.readCount + 1]

\* pgmq.delete: Complete.
RowDelete(row) ==
    IF row.st = "queued" THEN [row EXCEPT !.st = "deleted", !.visible = FALSE] ELSE row

\* pgmq.archive: DeadLetter.
RowArchive(row) ==
    IF row.st = "queued" THEN [row EXCEPT !.st = "archived", !.visible = FALSE] ELSE row

\* pgmq.set_vt: Retry.  With no delay the row is visible at once, with a delay
\* it stays hidden until the new timeout passes.
RowSetVt(row, delayed) ==
    IF row.st = "queued" THEN [row EXCEPT !.visible = ~delayed] ELSE row

\* The visibility timeout of a hidden row passes.
RowExpire(row) == [row EXCEPT !.visible = TRUE]
=============================================================================
