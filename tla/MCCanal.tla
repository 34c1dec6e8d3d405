------------------------------ MODULE MCCanal ------------------------------
(***************************************************************************)
(* Model-checking instances of Canal.                                      *)
(***************************************************************************)
EXTENDS Canal

CONSTANTS A, B, X      \* tables; X is excluded

\* An event at an offset of a file.
E(k, txn, f, o, t) == [kind |-> k, txn |-> txn, file |-> f, end |-> FileStart + o, table |-> t, drop |-> FALSE]
Drop(txn, f, o, t) == [E("ddl", txn, f, o, t) EXCEPT !.drop = TRUE]

\* A MySQL source: a transaction with BEGIN, a DDL statement, a compressed
\* transaction, and in the next file a transaction on an excluded table and a
\* statement that the parser does not understand.
MySQLLog ==
    << E("gtid", 1, 1, 1, A), E("begin", 1, 1, 2, A), E("rows", 1, 1, 3, A), E("xid", 1, 1, 4, A),
       E("gtid", 2, 1, 5, A), E("ddl", 2, 1, 6, A),
       E("gtid", 3, 1, 7, A), E("payload", 3, 1, 8, A), E("rotate", NoTxn, 1, 9, A),
       E("gtid", 4, 2, 1, B), E("begin", 4, 2, 2, B), E("rows", 4, 2, 3, X), E("rows", 4, 2, 4, B), E("xid", 4, 2, 5, B),
       E("gtid", 5, 2, 6, B), E("badquery", 5, 2, 7, B) >>

\* A MariaDB source, whose GTID event begins the transaction: a DDL statement,
\* then a row of a table that is dropped.
MariaDBLog ==
    << E("gtid", 1, 1, 1, A), E("rows", 1, 1, 2, A), E("xid", 1, 1, 3, A),
       E("gtid", 2, 1, 4, A), E("ddl", 2, 1, 5, A), E("rotate", NoTxn, 1, 6, A),
       E("gtid", 3, 2, 1, A), E("rows", 3, 2, 2, A), E("xid", 3, 2, 3, A),
       E("gtid", 4, 2, 4, A), Drop(4, 2, 5, A) >>

Setup(l, flavor, gtid, dumper, skip, discard) ==
    [log |-> l, flavor |-> flavor, gtid |-> gtid, dumper |-> dumper, skipMasterData |-> skip, discard |-> discard]

RestartSetups ==
    { Setup(MySQLLog, "mysql", FALSE, FALSE, FALSE, FALSE),
      Setup(MySQLLog, "mysql", FALSE, TRUE, FALSE, FALSE),
      Setup(MySQLLog, "mysql", FALSE, TRUE, TRUE, FALSE),
      Setup(MariaDBLog, "mariadb", TRUE, TRUE, FALSE, TRUE) }

BeginSetups == { Setup(MySQLLog, "mysql", TRUE, TRUE, FALSE, FALSE) }

AllTables == {A, B, X}
OneExcluded == {X}
=============================================================================
