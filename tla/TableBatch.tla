----------------------------- MODULE TableBatch -----------------------------
(***************************************************************************)
(* The batch of table operations (src/lib/services/table/tablebatch.js): a *)
(* value of the program that owns it, changed by the operators below.      *)
(***************************************************************************)
EXTENDS Integers, Sequences, SequencesExt

CONSTANT BatchLimit                  \* 100 operations

(* An operation is a record of its type and its entity's PartitionKey.      *)
Retrieve == "RETRIEVE"
None == "null"                       \* pk of a batch without operations

NewBatch == [operations |-> <<>>, pk |-> None, retrieve |-> FALSE]

HasOperations(batch) == batch.operations # <<>>

(* addOperation throws, and leaves the batch as it was.                     *)
Refuses(batch, operation) ==
    \/ Len(batch.operations) >= BatchLimit
    \/ IF operation.type = Retrieve THEN HasOperations(batch) ELSE batch.retrieve
    \/ HasOperations(batch) /\ operation.pk # batch.pk

AddOperation(batch, operation) ==
    [operations |-> Append(batch.operations, operation),
     pk |-> IF HasOperations(batch) THEN batch.pk ELSE operation.pk,
     retrieve |-> batch.retrieve \/ operation.type = Retrieve]

RemoveKeepingKey(batch, index) ==           \* mutant: an empty batch keeps its key
    [batch EXCEPT !.operations = RemoveAt(batch.operations, index)]

RemoveOperation(batch, index) ==
    LET operations == RemoveAt(batch.operations, index)
    IN IF operations = <<>> THEN NewBatch
       ELSE [batch EXCEPT !.operations = operations]

(* The key and retrieve stay as they were.                                  *)
Clear(batch) == [batch EXCEPT !.operations = <<>>]

(* What the service accepts, and executeBatch needs: at least one operation,*)
(* one partition key, and a retrieval only by itself.                       *)
ValidOperations(operations) ==
    /\ Len(operations) \in 1..BatchLimit
    /\ \A i, j \in DOMAIN operations : operations[i].pk = operations[j].pk
    /\ \A i \in DOMAIN operations :
           operations[i].type = Retrieve => Len(operations) = 1
=============================================================================
