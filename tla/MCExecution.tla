------------------------------ MODULE MCExecution -----------------------------
(* Small instances of Execution for TLC. *)
EXTENDS Execution, TLC

CONSTANTS book, look

MCCallers == Runs \X Tasks

\* A booking, and a look at it that only reads.
BookThenLook == [t \in Tasks |-> IF t = look THEN Tasks \cap {book} ELSE {}]

NothingHasKey == [t \in Tasks |-> NoKey]
===============================================================================
