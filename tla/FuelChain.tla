------------------------------ MODULE FuelChain ------------------------------
(***************************************************************************)
(* The contract (contracts/contracts/FuelChain.sol): an append-only list   *)
(* of hashes, and for each batch the places where its hashes are.  Actors, *)
(* timestamps and the typed events are left out: nothing reads them back.  *)
(***************************************************************************)
EXTENDS Integers, Sequences

CONSTANTS BatchIds, Hashes   \* the bytes32 values other than zero

VARIABLES anchors,             \* the list, from 1 here, from 0 in Solidity
          batchAnchorIndexes   \* for each batch, positions counted from 0

chainVars == <<anchors, batchAnchorIndexes>>

ChainInit == anchors = <<>> /\ batchAnchorIndexes = [b \in BatchIds |-> <<>>]

anchorEvidence(batchId, dataHash) ==
    /\ anchors' = Append(anchors, [batchId |-> batchId, dataHash |-> dataHash])
    /\ batchAnchorIndexes' =
         [batchAnchorIndexes EXCEPT ![batchId] = Append(@, Len(anchors))]

\* The positions in at are those of the anchors of batch b, in increasing order.
Agrees(at, list, b) ==
    /\ \A k \in 1..Len(at) : at[k] < Len(list) /\ list[at[k] + 1].batchId = b
    /\ \A k, l \in 1..Len(at) : k < l => at[k] < at[l]
    /\ \A i \in 1..Len(list) :
         list[i].batchId = b => \E k \in 1..Len(at) : at[k] = i - 1

\* The per-batch index names exactly the anchors of the batch, each once, in the
\* order in which they were made.
IndexesAgree == \A b \in BatchIds : Agrees(batchAnchorIndexes[b], anchors, b)

===============================================================================
