------------------------------ MODULE GTIDSet ------------------------------
(***************************************************************************)
(* GTID sets: src/mysql/mysql_gtid.go, mariadb_gtid.go and gtid.go.        *)
(*                                                                         *)
(* A MySQL set is a map from source (SID) to a map from tag to a slice of  *)
(* half open intervals; tag 0 is the empty tag.  Sources and tags are      *)
(* numbers in the order in which the code sorts their bytes.  A string is  *)
(* the sequence of what Split finds in it, a buffer the sequence of its    *)
(* fixed width fields.  A MariaDB position maps a domain to a GTID.        *)
(***************************************************************************)
EXTENDS Interval, SequencesExt

CONSTANTS Sids,       \* source identifiers
          Tags,       \* tags, with 0 the empty one
          MaxGno,     \* largest transaction number
          ByteBase,   \* values of a byte of the encoded header
          Strings,    \* arguments of Update and ParseGTIDSet, MySQL
          MariaStrings, \* the same for MariaDB
          Failed      \* an error result

ASSUME GTIDAssumption ==
  /\ Sids \subseteq Nat /\ Tags \subseteq Nat /\ 0 \in Tags
  /\ MaxGno \in Nat
  /\ ByteBase \in Nat /\ ByteBase > 1

VARIABLES flavor,     \* "mysql" or "mariadb"
          set,        \* the GTID set
          arg         \* the transactions (GTIDs) the last operation named

vars == <<flavor, set, arg>>

NoTag == 0

(***************************************************************************)
(* MySQL sets                                                              *)
(***************************************************************************)
EmptySet == <<>>

\* What a Go map lookup gives for a missing key: an empty map or slice.
Lookup(m, k) == IF k \in DOMAIN m THEN m[k] ELSE <<>>

Store(m, k, v) == [x \in DOMAIN m \cup {k} |-> IF x = k THEN v ELSE m[x]]

\* s[u][t] = v
StoreAt(s, u, t, v) == Store(s, u, Store(Lookup(s, u), t, v))

SliceAt(s, u, t) == Lookup(Lookup(s, u), t)

AddGTIDWithTag(s, u, t, gno) ==
  LET i == [start |-> gno, stop |-> gno + 1]
  IN  StoreAt(s, u, t, Normalize(Append(SliceAt(s, u, t), i)))

\* The string of a closed interval, and what parseInterval makes of it.
IntervalString(i) == [kind |-> "interval", lo |-> i.start, hi |-> i.stop - 1]

parseInterval(item) == [start |-> item.lo, stop |-> item.hi + 1]

ParseItem(acc, item) ==
  IF acc.m = Failed THEN acc
  ELSE IF item.kind = "tag"
       THEN [tag |-> item.tag, m |-> Store(acc.m, item.tag, Lookup(acc.m, item.tag))]
       ELSE LET i == parseInterval(item)
            IN  [acc EXCEPT !.m = IF i.stop <= i.start THEN Failed
                                  ELSE Store(@, acc.tag, Append(Lookup(@, acc.tag), i))]

\* A tag without an interval is let through.
ParsePartLoose(s, part) ==
  IF s = Failed \/ part.items = <<>> \/ part.sid \notin Sids THEN Failed
  ELSE LET m == FoldLeft(ParseItem, [tag |-> NoTag, m |-> Lookup(s, part.sid)], part.items).m
       IN  IF m = Failed THEN Failed
           ELSE Store(s, part.sid, [t \in DOMAIN m |-> Normalize(m[t])])

\* One comma separated part: the intervals of a source, those after a tag
\* belonging to that tag.  A tag must be followed by an interval.
ParsePart(s, part) ==
  IF s = Failed \/ part.items = <<>> \/ part.sid \notin Sids THEN Failed
  ELSE LET m == FoldLeft(ParseItem, [tag |-> NoTag, m |-> Lookup(s, part.sid)], part.items).m
       IN  IF m = Failed THEN Failed
           ELSE IF \E t \in DOMAIN m : m[t] = <<>> THEN Failed
           ELSE Store(s, part.sid, [t \in DOMAIN m |-> Normalize(m[t])])

ParseMysqlGTIDSet(str) == FoldLeft(ParsePart, EmptySet, str)

\* The slice of a known tag is replaced instead of merged.
UpdateMysqlReplace(s, str) ==
  LET o == ParseMysqlGTIDSet(str)
  IN  IF o = Failed THEN s
      ELSE [u \in DOMAIN s \cup DOMAIN o |->
             [t \in DOMAIN Lookup(s, u) \cup DOMAIN Lookup(o, u) |->
               IF t \in DOMAIN Lookup(o, u) THEN o[u][t] ELSE s[u][t]]]

\* Update keeps the set when the string does not parse.
UpdateMysql(s, str) ==
  LET o == ParseMysqlGTIDSet(str)
      merged(u, t) ==
        CASE t \notin DOMAIN Lookup(s, u) -> o[u][t]
          [] t \notin DOMAIN Lookup(o, u) -> s[u][t]
          [] OTHER -> Normalize(s[u][t] \o o[u][t])
  IN  IF o = Failed THEN s
      ELSE [u \in DOMAIN s \cup DOMAIN o |->
             [t \in DOMAIN Lookup(s, u) \cup DOMAIN Lookup(o, u) |-> merged(u, t)]]

ContainMysql(s, o) ==
  \A u \in DOMAIN o :
    /\ u \in DOMAIN s
    /\ \A t \in DOMAIN o[u] : t \in DOMAIN s[u] /\ ContainSlice(s[u][t], o[u][t])

EqualMysql(s, o) ==
  /\ Cardinality(DOMAIN s) = Cardinality(DOMAIN o)
  /\ \A u \in DOMAIN s :
       /\ u \in DOMAIN o
       /\ Cardinality(DOMAIN s[u]) = Cardinality(DOMAIN o[u])
       /\ \A t \in DOMAIN s[u] : s[u][t] = Lookup(o[u], t)

Sorted(S) == SetToSortSeq(S, <)

\* The parts in the order of the sources; within one, the tags in order, so
\* that the intervals of the empty tag come before any tag.
StringMysql(s) ==
  LET tagItem(t) == IF t = NoTag THEN <<>> ELSE <<[kind |-> "tag", tag |-> t]>>
      items(u, t) == tagItem(t) \o [j \in DOMAIN s[u][t] |-> IntervalString(s[u][t][j])]
      part(u) ==
        LET ts == Sorted(DOMAIN s[u])
        IN  [sid |-> u, items |-> FlattenSeq([k \in DOMAIN ts |-> items(u, ts[k])])]
      us == Sorted(DOMAIN s)
  IN  [k \in DOMAIN us |-> part(us[k])]

(***************************************************************************)
(* The binary form of a MySQL set, as in the dump command and in           *)
(* PREVIOUS_GTIDS_EVENT.  The first word holds the number of sources and,  *)
(* in its last byte, the format.                                           *)
(***************************************************************************)
\* The count of a tagged set is not moved past the first byte.
encodeSidUnshifted(tagged, n) ==
  [low |-> IF tagged THEN 1 ELSE n % ByteBase, mid |-> n \div ByteBase,
   high |-> IF tagged THEN 1 ELSE 0]

encodeSid(tagged, n) ==
  IF tagged THEN [low |-> 1, mid |-> n, high |-> 1]
  ELSE [low |-> n % ByteBase, mid |-> n \div ByteBase, high |-> 0]

DecodeSid(word) ==
  IF word.high = 1 THEN [tagged |-> TRUE, n |-> word.mid]
  ELSE [tagged |-> FALSE, n |-> word.low + ByteBase * word.mid]

EncodeMysql(s) ==
  LET us == Sorted(DOMAIN s)
      tagged == \E u \in DOMAIN s : \E t \in DOMAIN s[u] : t # NoTag
      slice(iv) == FlattenSeq([j \in DOMAIN iv |-> <<iv[j].start, iv[j].stop>>])
      entry(u, t) == <<u>> \o (IF tagged THEN <<t>> ELSE <<>>)
                           \o <<Len(s[u][t])>> \o slice(s[u][t])
      source(u) == LET ts == Sorted(DOMAIN s[u])
                   IN  FlattenSeq([k \in DOMAIN ts |-> entry(u, ts[k])])
      pairs == UNION {{<<u, t>> : t \in DOMAIN s[u]} : u \in DOMAIN s}
  IN  <<encodeSid(tagged, Cardinality(pairs))>>
        \o FlattenSeq([k \in DOMAIN us |-> source(us[k])])

\* One turn of the loop of DecodeMysqlGTIDSet; acc.pos is the next field.
DecodeEntry(data, tagged, acc) ==
  LET left == Len(data) - acc.pos + 1
      u == data[acc.pos]
      t == IF tagged THEN data[acc.pos + 1] ELSE NoTag
      at == acc.pos + (IF tagged THEN 2 ELSE 1)
      n == data[at]
      iv == [j \in 1 .. n |-> [start |-> data[at + 2 * j - 1], stop |-> data[at + 2 * j]]]
  IN  IF left < (IF tagged THEN 3 ELSE 2) THEN Failed
      ELSE IF n = 0 \/ Len(data) < at + 2 * n THEN Failed
      ELSE [pos |-> at + 2 * n + 1, s |-> StoreAt(acc.s, u, t, SliceAt(acc.s, u, t) \o iv)]

DecodeMysqlGTIDSet(data) ==
  IF data = <<>> THEN Failed
  ELSE LET head == DecodeSid(data[1])
           next(acc, k) == IF acc = Failed THEN Failed ELSE DecodeEntry(data, head.tagged, acc)
           end == FoldLeft(next, [pos |-> 2, s |-> EmptySet], [k \in 1 .. head.n |-> k])
       IN  IF end = Failed THEN Failed
           ELSE IF end.pos <= Len(data) THEN Failed
           ELSE [u \in DOMAIN end.s |-> [t \in DOMAIN end.s[u] |-> Normalize(end.s[u][t])]]

(***************************************************************************)
(* MariaDB positions.  The empty string is GTID 0-0-0.                     *)
(***************************************************************************)
ZeroGTID == [domain |-> 0, server |-> 0, seq |-> 0]

EmptyString == <<>>

ParseMariadbGTID(str) ==
  IF str = EmptyString THEN ZeroGTID
  ELSE IF Len(str) # 3 THEN Failed
  ELSE [domain |-> str[1], server |-> str[2], seq |-> str[3]]

MariadbGTIDString(g) ==
  IF g = ZeroGTID THEN EmptyString ELSE <<g.domain, g.server, g.seq>>

ContainMariadbGTID(g, other) == g.domain = other.domain /\ g.seq >= other.seq

\* forward refuses to go back.
AddSetForwardOnly(s, g) ==
  IF g.domain \in DOMAIN s /\ g.seq <= s[g.domain].seq THEN s ELSE Store(s, g.domain, g)

\* forward replaces the GTID of the domain, whatever its sequence number.
AddSet(s, g) == Store(s, g.domain, g)

\* Update stops at the first part that does not parse; the parts before it
\* have been applied.
UpdateMariadb(s, str) ==
  LET step(acc, part) ==
        IF acc.bad \/ ParseMariadbGTID(part) = Failed THEN [acc EXCEPT !.bad = TRUE]
        ELSE [acc EXCEPT !.s = AddSet(@, ParseMariadbGTID(part))]
  IN  FoldLeft(step, [bad |-> FALSE, s |-> s], str)

\* strings.Split of the empty string is one empty part.
SplitComma(str) == IF str = <<>> THEN <<EmptyString>> ELSE str

ParseMariadbGTIDSet(str) ==
  LET r == UpdateMariadb(EmptySet, str)
  IN  IF r.bad THEN Failed ELSE r.s

\* The GTIDs in some order (the code sorts the strings), joined by commas: a
\* single empty string is the empty string.
StringMariadb(s) ==
  LET ds == Sorted(DOMAIN s)
      parts == [k \in DOMAIN ds |-> MariadbGTIDString(s[ds[k]])]
  IN  IF parts = <<EmptyString>> THEN <<>> ELSE parts

ContainMariadb(s, o) ==
  \A d \in DOMAIN o : d \in DOMAIN s /\ ContainMariadbGTID(s[d], o[d])

\* The numbers of domains are not compared.
EqualMariadbSub(s, o) == \A d \in DOMAIN o : d \in DOMAIN s /\ o[d] = s[d]

EqualMariadb(s, o) ==
  /\ Cardinality(DOMAIN s) = Cardinality(DOMAIN o)
  /\ \A d \in DOMAIN o : d \in DOMAIN s /\ o[d] = s[d]

(***************************************************************************)
(* A set in use                                                            *)
(***************************************************************************)
\* The transactions of a set, and those a string names when it is read as a
\* person would: an interval belongs to the nearest tag before it.
Txns(s) == UNION {UNION {{<<u, t, n>> : n \in Covered(s[u][t])} : t \in DOMAIN s[u]} : u \in DOMAIN s}

TagOfItem(items, k) ==
  LET before == {j \in 1 .. k : items[j].kind = "tag"}
  IN  IF before = {} THEN NoTag ELSE items[Max(before)].tag

Named(str) ==
  {x \in Sids \X Tags \X (1 .. MaxGno) :
    \E p \in DOMAIN str : \E k \in DOMAIN str[p].items :
      LET item == str[p].items[k]
      IN  /\ x[1] = str[p].sid
          /\ x[2] = TagOfItem(str[p].items, k)
          /\ item.kind = "interval"
          /\ x[3] \in item.lo .. item.hi}

\* A well formed string: known sources, no reversed interval, and no tag
\* without an interval.
WellFormed(str) ==
  \A p \in DOMAIN str :
    LET items == str[p].items
    IN  /\ str[p].sid \in Sids
        /\ items # <<>>
        /\ \A k \in DOMAIN items :
             IF items[k].kind = "interval" THEN items[k].lo <= items[k].hi
             ELSE \E q \in 1 .. p : \E j \in DOMAIN str[q].items :
                    /\ str[q].sid = str[p].sid
                    /\ str[q].items[j].kind = "interval"
                    /\ TagOfItem(str[q].items, j) = items[k].tag

ParseGTIDSet(f, str) ==
  IF f = "mysql" THEN ParseMysqlGTIDSet(str) ELSE ParseMariadbGTIDSet(str)

Init ==
  \/ /\ flavor = "mysql"
     /\ \E str \in Strings : set = ParseGTIDSet(flavor, str)
     /\ set # Failed
     /\ arg = {}
  \/ /\ flavor = "mariadb"
     /\ \E str \in MariaStrings : set = ParseGTIDSet(flavor, str)
     /\ set # Failed
     /\ arg = {}

DoAddGTIDWithTag(u, t, n) ==
  /\ flavor = "mysql"
  /\ set' = AddGTIDWithTag(set, u, t, n)
  /\ arg' = {<<u, t, n>>}
  /\ UNCHANGED flavor

DoUpdateMysql(str) ==
  /\ flavor = "mysql"
  /\ set' = UpdateMysql(set, str)
  /\ arg' = IF WellFormed(str) THEN Named(str) ELSE {}
  /\ UNCHANGED flavor

DoAddSet(g) ==
  /\ flavor = "mariadb"
  /\ set' = AddSet(set, g)
  /\ arg' = {g}
  /\ UNCHANGED flavor

DoUpdateMariadb(str) ==
  /\ flavor = "mariadb"
  /\ set' = UpdateMariadb(set, SplitComma(str)).s
  /\ arg' = {ParseMariadbGTID(SplitComma(str)[k]) : k \in DOMAIN SplitComma(str)}
  /\ UNCHANGED flavor

Next ==
  \/ \E u \in Sids, t \in Tags, n \in 1 .. MaxGno : DoAddGTIDWithTag(u, t, n)
  \/ \E str \in Strings : DoUpdateMysql(str)
  \/ \E str \in MariaStrings : DoUpdateMariadb(str)
  \/ \E str \in MariaStrings : \E k \in DOMAIN str :
       ParseMariadbGTID(str[k]) # Failed /\ DoAddSet(ParseMariadbGTID(str[k]))

Spec == Init /\ [][Next]_vars

(***************************************************************************)
(* Properties                                                              *)
(***************************************************************************)
IsMysql == flavor = "mysql"

\* A MySQL set only holds known sources and tags, none without an interval;
\* a MariaDB position maps a domain to a GTID of that domain.
TypeOK ==
  /\ flavor \in {"mysql", "mariadb"}
  /\ IsMysql =>
       /\ DOMAIN set \subseteq Sids
       /\ \A u \in DOMAIN set :
            /\ DOMAIN set[u] \subseteq Tags /\ DOMAIN set[u] # {}
            /\ \A t \in DOMAIN set[u] : set[u][t] \in Seq(Interval) \ {<<>>}
  /\ ~ IsMysql => \A d \in DOMAIN set : set[d].domain = d

\* Whatever the order of AddGTIDWithTag and Update, every slice is sorted with
\* gaps between its intervals: what Contain, Equal and Encode rely on.
SlicesNormal == IsMysql => \A u \in DOMAIN set : \A t \in DOMAIN set[u] : Normal(set[u][t])

\* A set is well formed after every operation (TypeOK and SlicesNormal).
SetWellFormed == TypeOK /\ SlicesNormal

Parsed == {ParseMysqlGTIDSet(str) : str \in Strings} \ {Failed}

ParsedMariadb == {ParseMariadbGTIDSet(str) : str \in MariaStrings} \ {Failed}

\* MysqlGTIDSet.Contain is inclusion and Equal is equality of the sets of
\* transactions, although both look at intervals only.
ContainIsInclusion ==
  IsMysql => \A o \in Parsed :
    /\ ContainMysql(set, o) <=> Txns(o) \subseteq Txns(set)
    /\ ContainMysql(o, set) <=> Txns(set) \subseteq Txns(o)
    /\ EqualMysql(set, o) <=> Txns(set) = Txns(o)

\* A set survives String and ParseGTIDSet, and Encode and DecodeMysqlGTIDSet,
\* tags included; a buffer cut after any field is refused.  The one exception:
\* the MariaDB position 0-0-0 alone prints as the empty string.
RoundTrip ==
  IF IsMysql
  THEN /\ ParseMysqlGTIDSet(StringMysql(set)) = set
       /\ DecodeMysqlGTIDSet(EncodeMysql(set)) = set
       /\ \A n \in 0 .. Len(EncodeMysql(set)) - 1 :
            DecodeMysqlGTIDSet(SubSeq(EncodeMysql(set), 1, n)) = Failed
  ELSE \/ ParseMariadbGTIDSet(StringMariadb(set)) = set
       \/ Range(set) = {ZeroGTID} /\ StringMariadb(set) = <<>>

\* MariadbGTIDSet.Contain is a preorder that agrees with Equal on equal
\* positions; it ignores the server, so the converse fails.
MariadbContainOrder ==
  ~ IsMysql => \A o, p \in ParsedMariadb :
    /\ EqualMariadb(set, o) => ContainMariadb(set, o) /\ ContainMariadb(o, set)
    /\ ContainMariadb(set, o) /\ ContainMariadb(o, p) => ContainMariadb(set, p)
    /\ ContainMariadb(o, set) /\ ContainMariadb(set, o) => DOMAIN o = DOMAIN set

\* Contain and Equal of both kinds of set (ContainIsInclusion for MySQL,
\* MariadbContainOrder for MariaDB).
ContainExact == ContainIsInclusion /\ MariadbContainOrder

\* An operation on a MariaDB position moves the domains it names to a GTID it
\* names, even backwards, and leaves the other domains alone.
OneGTIDPerDomain ==
  [][~ IsMysql =>
       \A d \in DOMAIN set' :
         \/ set'[d] \in arg'
         \/ d \in DOMAIN set /\ set'[d] = set[d]
            /\ (Failed \notin arg' => \A g \in arg' : g.domain # d)]_vars

Promised == INSTANCE TxnSet WITH AllTxns <- Sids \X Tags \X (1 .. MaxGno),
                                 txns <- IF IsMysql THEN Txns(set) ELSE {},
                                 arg <- IF IsMysql THEN arg ELSE {}

\* A MySQL set is a plain set of transactions to its users: AddGTIDWithTag and
\* Update add what they are given and nothing else, and a string that does not
\* parse changes nothing.
SetOfTxns == Promised!TxnSpec

\* What an operation of either kind of set may change (SetOfTxns for MySQL,
\* OneGTIDPerDomain for MariaDB).
UpdateExact == SetOfTxns /\ OneGTIDPerDomain

=============================================================================
