--------------------------- MODULE BinlogDelivery ---------------------------
(***************************************************************************)
(* What a BinlogSyncer promises to the code that reads its events, however *)
(* often the connection breaks: the wanted events of the source's log      *)
(* arrive in the order of the log and without a gap.  When it was started  *)
(* from a GTID set, a reconnect may repeat the transaction in progress     *)
(* from its GTID event; when it was started from a position, nothing is    *)
(* repeated.                                                               *)
(***************************************************************************)
EXTENDS Integers, Sequences, FiniteSetsExt

VARIABLES
    log,           \* the source's log: a sequence of events with a kind
    wanted,        \* the log indices asked for by StartSync or StartSyncGTID
    resend,        \* whether the transaction in progress may be repeated
    last           \* index of the last log event handed over, 0 before the first

deliveryVars == <<log, wanted, resend, last>>

DeliveryInit == wanted = {} /\ resend = FALSE /\ last = 0

Start ==
    /\ last = 0
    /\ wanted' \subseteq DOMAIN log
    /\ resend' \in BOOLEAN
    /\ UNCHANGED <<log, last>>

After(w, i) == {j \in w : j > i}

\* Where a repeated transaction starts: at the latest GTID event handed over,
\* at the first wanted event when there is none yet.
RepeatFrom(w, i) ==
    LET gtids == {j \in w : j <= i /\ log[j].kind = "gtid"}
    IN  IF gtids = {} THEN Min(w) ELSE Max(gtids)

Deliver ==
    /\ After(wanted, last) # {}
    /\ last' = Min(After(wanted, last))
    /\ UNCHANGED <<log, wanted, resend>>

Repeat ==
    /\ resend
    /\ last # 0
    /\ last' = RepeatFrom(wanted, last)
    /\ UNCHANGED <<log, wanted, resend>>

DeliveryNext == Start \/ Deliver \/ Repeat

DeliverySpec == DeliveryInit /\ [][DeliveryNext]_deliveryVars
=============================================================================
