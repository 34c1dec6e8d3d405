------------------------------- MODULE TxnSet -------------------------------
(***************************************************************************)
(* What a MySQL GTID set promises to the syncer and to canal: it is a      *)
(* plain set of transactions.  An operation adds exactly the transactions  *)
(* its argument names, and an argument that is refused adds nothing.       *)
(***************************************************************************)

CONSTANT AllTxns      \* every <<source, tag, number>>

VARIABLES txns,       \* the transactions in the set
          arg         \* the transactions the last operation named

TxnInit == txns \subseteq AllTxns /\ arg = {}

TxnNext ==
  /\ arg' \subseteq AllTxns
  /\ txns' = txns \cup arg'

TxnSpec == TxnInit /\ [][TxnNext]_<<txns, arg>>

=============================================================================
