--------------------------- MODULE MCBinlogSyncer ---------------------------
(***************************************************************************)
(* Model-checking instances of BinlogSyncer.                               *)
(***************************************************************************)
EXTENDS BinlogSyncer

T(d, t, n) == [dom |-> d, tag |-> t, gno |-> n]

\* An event of size 1 at an offset of a file.
E(k, t, f, o) == [kind |-> k, txn |-> t, file |-> f, end |-> FileStart + o, size |-> 1, zero |-> FALSE]
Z(k, t, f, o) == [E(k, t, f, o) EXCEPT !.zero = TRUE]

\* Three transactions in two files.
ThreeTxns(a, b, c) ==
    << E("gtid", a, 1, 1), E("query", a, 1, 2), E("xid", a, 1, 3),
       E("gtid", b, 1, 4), E("xid", b, 1, 5), E("rotate", NoTxn, 1, 6),
       E("gtid", c, 2, 1), E("xid", c, 2, 2) >>

MySQLLog == ThreeTxns(T(1, "", 1), T(1, "", 2), T(1, "a", 2))
MariaDBLog == ThreeTxns(T(1, "", 1), T(2, "", 1), T(1, "", 2))

\* MariaDB 11.4: events of a transaction come without a position.
ZeroPosLog ==
    << E("gtid", T(1, "", 1), 1, 1), Z("query", T(1, "", 1), 1, 2), Z("xid", T(1, "", 1), 1, 3),
       E("gtid", T(1, "", 2), 1, 4), Z("xid", T(1, "", 2), 1, 5), E("rotate", NoTxn, 1, 6),
       E("gtid", T(1, "", 3), 2, 1), Z("xid", T(1, "", 3), 2, 2) >>

FromStart == [Name |-> 1, Pos |-> 0]
FromSecond == [Name |-> 1, Pos |-> FileStart + 3]
EmptyOrFirst == {{}, {T(1, "", 1)}}

Plain == [log |-> MySQLLog, Flavor |-> "mysql", DisableRetrySync |-> FALSE, MaxReconnectAttempts |-> 0,
          FillZeroLogPos |-> FALSE, SemiSyncEnabled |-> FALSE, SyncHandler |-> FALSE, EventCacheCount |-> 1,
          StartPositions |-> {}, StartSets |-> {}, LateSets |-> {}]

\* MySQL GTIDs with semi-sync and a limit of reconnects; positions without
\* LogPos through a synchronous handler, with and without reconnects; MariaDB
\* GTIDs of two domains.
AllConfigs ==
    {[Plain EXCEPT !.SemiSyncEnabled = TRUE, !.EventCacheCount = 2, !.MaxReconnectAttempts = 2,
                   !.StartSets = EmptyOrFirst],
     [Plain EXCEPT !.log = MariaDBLog, !.Flavor = "mariadb", !.StartSets = EmptyOrFirst]}
    \cup {[Plain EXCEPT !.log = ZeroPosLog, !.Flavor = "mariadb", !.FillZeroLogPos = TRUE, !.SyncHandler = TRUE,
                        !.DisableRetrySync = disable, !.StartPositions = {FromStart, FromSecond}] :
              disable \in BOOLEAN}

\* The configurations meet what the theorems on BinlogSyncer assume of them.
ASSUME OrderlyConfigs == \A c \in AllConfigs : Orderly(c)

FromPosition == {[Plain EXCEPT !.StartPositions = {FromStart}]}
=============================================================================
