----------------------------- MODULE ConfigStore -----------------------------
(***************************************************************************)
(* The configuration tables of goacos (internal/storage/configstore.go) as *)
(* a value, and the SQL operations on them as operators.  A database value *)
(* d has the fields                                                        *)
(*   row   config_info: the row of each key, or NoRow                      *)
(*   hist  his_config_info in nid order (append only)                      *)
(*   tags  config_tags_relation                                            *)
(* A key stands for (data_id, group_id, tenant_id), which is unique in     *)
(* config_info.  The md5 column is a function of the content and two       *)
(* contents with one md5 are not modelled, so a content is its own md5;    *)
(* the md5 of a missing row is Absent, which is no content's md5.          *)
(***************************************************************************)
EXTENDS Integers, Sequences

CONSTANTS
    Keys,       \* (dataId, group, tenant) triples
    Contents,   \* configuration contents, each its own md5
    TagNames,   \* tag names
    Absent      \* md5 of a key that has no row

ASSUME AbsentAssumption == Absent \notin Contents

NoRow == [id |-> 0, content |-> Absent]

Rows == [id : Nat \ {0}, content : Contents]

HistoryEntries ==
    [id : Nat \ {0}, key : Keys, content : Contents, op : {"I", "U", "D"}]

TagRows == [id : Nat \ {0}, key : Keys, tag : TagNames]

Databases ==
    [row : [Keys -> Rows \cup {NoRow}], hist : Seq(HistoryEntries), tags : SUBSET TagRows]

EmptyDatabase == [row |-> [k \in Keys |-> NoRow], hist |-> <<>>, tags |-> {}]

(* SELECT coalesce(md5,'') ... : the empty string when there is no row.    *)
ConfigMD5(d, k) == d.row[k].content

insertHistory(d, i, k, c, o) ==
    [d EXCEPT !.hist = Append(@, [id |-> i, key |-> k, content |-> c, op |-> o])]

(* The AUTO_INCREMENT id of an inserted row: larger than every id that was *)
(* ever committed, because each id is first seen in a history entry.       *)
FreshId(d) == Len(d.hist) + 1

(***************************************************************************)
(* upsertConfig has a third path, the UPDATE after an INSERT that lost a   *)
(* race; it needs a second writer between the SELECT and the INSERT and    *)
(* ends like the UPDATE path.                                              *)
(***************************************************************************)
SetRow(d, k, i, c) == [d EXCEPT !.row[k] = [id |-> i, content |-> c]]

upsertConfig(d, k, c) ==
    IF d.row[k] = NoRow
      THEN insertHistory(SetRow(d, k, FreshId(d), c), FreshId(d), k, c, "I")
      ELSE insertHistory(SetRow(d, k, d.row[k].id, c), d.row[k].id, k, c, "U")

(* DELETE ... WHERE id=? then one INSERT per tag; only "text" tags exist.  *)
replaceConfigTags(d, k, T) ==
    [d EXCEPT !.tags = { t \in @ : t.id # d.row[k].id }
                       \cup { [id |-> d.row[k].id, key |-> k, tag |-> t] : t \in T }]

(* A faulty DropRow, for the sensitivity checks: a tombstone with the id.  *)
DropRowTombstone(d, k) == [d EXCEPT !.row[k].content = Absent]

DropRow(d, k) == [d EXCEPT !.row[k] = NoRow]

DropTags(d, k) == [d EXCEPT !.tags = { t \in @ : t.key # k }]

(* A faulty deleteConfig: the tags of the key stay.                        *)
deleteConfigKeepingTags(d, k) ==
    IF d.row[k] = NoRow
      THEN d
      ELSE insertHistory(DropRow(d, k), d.row[k].id, k, d.row[k].content, "D")

deleteConfig(d, k) ==
    IF d.row[k] = NoRow
      THEN d
      ELSE DropTags(insertHistory(DropRow(d, k), d.row[k].id, k, d.row[k].content, "D"), k)

-----------------------------------------------------------------------------
(***************************************************************************)
(* The operations the HTTP handlers run inside one owned transaction.      *)
(* "probe" is every operation that only reads: get, list, history, the     *)
(* md5 comparison of a listener and the empty CheckConfigOwnership.        *)
(***************************************************************************)
Operations ==
         [kind : {"publish"}, key : Keys, content : Contents, tags : SUBSET TagNames]
    \cup [kind : {"delete"}, key : Keys]
    \cup [kind : {"probe"}]

(* configV1Publish / configV2Publish: an empty tag list keeps the old tags *)
Publish(d, k, c, T) ==
    IF T = {} THEN upsertConfig(d, k, c)
              ELSE replaceConfigTags(upsertConfig(d, k, c), k, T)

Apply(d, o) ==
    CASE o.kind = "publish" -> Publish(d, o.key, o.content, o.tags)
      [] o.kind = "delete"  -> deleteConfig(d, o.key)
      [] OTHER              -> d

(***************************************************************************)
(* What a transaction that is rejected has done to its own copy of the     *)
(* tables: the effect of some prefix of its statements.                    *)
(***************************************************************************)
Prefixes(d, o) ==
    CASE o.kind = "publish" ->
            { d,
              SetRow(d, o.key, IF d.row[o.key] = NoRow THEN FreshId(d) ELSE d.row[o.key].id, o.content),
              upsertConfig(d, o.key, o.content) }
            \cup { replaceConfigTags(upsertConfig(d, o.key, o.content), o.key, T) :
                       T \in (SUBSET o.tags) \ {o.tags} }
      [] o.kind = "delete" /\ d.row[o.key] # NoRow ->
            { d, DropRow(d, o.key),
              insertHistory(DropRow(d, o.key), d.row[o.key].id, o.key, d.row[o.key].content, "D") }
      [] OTHER -> { d }

-----------------------------------------------------------------------------
(***************************************************************************)
(* What every committed database value satisfies.                          *)
(***************************************************************************)

(* i is the newest history entry of its key *)
Newest(d, i) == \A j \in DOMAIN d.hist : j > i => d.hist[j].key # d.hist[i].key

(* The newest history entry of a key agrees with config_info: a row with   *)
(* that id and content, or no row after a "D"; and a key without history   *)
(* has no row.  This is what the console's revert and history views need.  *)
HistoryMatchesRows(d) ==
    /\ \A i \in DOMAIN d.hist :
          Newest(d, i) =>
             d.row[d.hist[i].key] =
                IF d.hist[i].op = "D" THEN NoRow
                ELSE [id |-> d.hist[i].id, content |-> d.hist[i].content]
    /\ \A k \in Keys : d.row[k] # NoRow => \E i \in DOMAIN d.hist : d.hist[i].key = k

(* Every tag row belongs to the live row of its key: deleting and          *)
(* recreating a key never resurrects the tags of the old row.              *)
TagsBelongToRows(d) == \A t \in d.tags : d.row[t.key].id = t.id

(* An id is never reused: the ids in the history and of the rows are       *)
(* smaller than the next one.                                              *)
IdsBelowFresh(d) ==
    /\ \A i \in DOMAIN d.hist : d.hist[i].id < FreshId(d)
    /\ \A k \in Keys : d.row[k].id < FreshId(d)

WellFormed(d) == HistoryMatchesRows(d) /\ TagsBelongToRows(d) /\ IdsBelowFresh(d)
=============================================================================
