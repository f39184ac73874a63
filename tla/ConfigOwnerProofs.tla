-------------------------- MODULE ConfigOwnerProofs --------------------------
(***************************************************************************)
(* Proofs about ConfigStore and ConfigOwner.  The configuration operations *)
(* keep the tables typed and in agreement with one another, for every set  *)
(* of keys, contents and tags.  Fenced is inductive, and the safety        *)
(* properties of ConfigOwner follow from it: one lemma per action, then    *)
(* the theorems, and last that ConfigOwner implements SingleActive.        *)
(* Nothing is assumed about the constants but what the two modules assume. *)
(***************************************************************************)
EXTENDS ConfigOwner, TLAPS

-----------------------------------------------------------------------------
(***************************************************************************)
(* The tables.                                                             *)
(***************************************************************************)

(* The empty tables are typed and agree.                                   *)
LEMMA EmptyDatabaseOK == EmptyDatabase \in Databases /\ WellFormed(EmptyDatabase)
BY DEF EmptyDatabase, Databases, WellFormed, HistoryMatchesRows, TagsBelongToRows,
       IdsBelowFresh, FreshId, Newest, NoRow

(* Appending one entry to the history, as insertHistory does.              *)
LEMMA AppendHistory ==
    ASSUME NEW d \in Databases, NEW e \in HistoryEntries
    PROVE  LET h == Append(d.hist, e)
           IN  /\ h \in Seq(HistoryEntries)
               /\ Len(h) = Len(d.hist) + 1
               /\ DOMAIN h = 1..(Len(d.hist) + 1)
               /\ DOMAIN d.hist = 1..Len(d.hist)
               /\ Len(d.hist) \in Nat
               /\ h[Len(d.hist) + 1] = e
               /\ \A i \in 1..Len(d.hist) : h[i] = d.hist[i]
BY DEF Databases

(* The types of a row and of a history entry.                              *)
LEMMA FieldTypes ==
    ASSUME NEW d \in Databases
    PROVE  /\ \A k \in Keys : d.row[k] = NoRow \/ d.row[k] \in Rows
           /\ \A k \in Keys : d.row[k].id \in Nat
           /\ \A i \in 1..Len(d.hist) : d.hist[i] \in HistoryEntries
           /\ \A i \in 1..Len(d.hist) : d.hist[i].key \in Keys /\ d.hist[i].id \in Nat
<1>1. \A k \in Keys : d.row[k] = NoRow \/ d.row[k] \in Rows
  BY DEF Databases
<1>2. \A k \in Keys : d.row[k].id \in Nat
  <2> TAKE k \in Keys
  <2>1. d.row[k] \in Rows => d.row[k].id \in Nat
    BY DEF Rows
  <2>2. d.row[k] = NoRow => d.row[k].id \in Nat
    BY DEF NoRow
  <2> QED BY <1>1, <2>1, <2>2
<1>3. \A i \in 1..Len(d.hist) : d.hist[i] \in HistoryEntries
  BY DEF Databases
<1>4. \A i \in 1..Len(d.hist) : d.hist[i].key \in Keys /\ d.hist[i].id \in Nat
  BY <1>3 DEF HistoryEntries
<1> QED BY <1>1, <1>2, <1>3, <1>4

(* Publishing keeps the type: upsertConfig.                                *)
LEMMA UpsertType ==
    ASSUME NEW d \in Databases, NEW k \in Keys, NEW c \in Contents
    PROVE  /\ SetRow(d, k, FreshId(d), c) \in Databases
           /\ d.row[k] # NoRow => SetRow(d, k, d.row[k].id, c) \in Databases
           /\ upsertConfig(d, k, c) \in Databases
           /\ upsertConfig(d, k, c).row[k].id \in Nat \ {0}
<1>1. FreshId(d) \in Nat \ {0}
  BY DEF FreshId, Databases
<1>2. d.row[k] # NoRow => d.row[k].id \in Nat \ {0}
  BY DEF Databases, Rows
<1>3. ASSUME NEW i \in Nat \ {0}, NEW o \in {"I", "U"}
      PROVE  /\ SetRow(d, k, i, c) \in Databases
             /\ insertHistory(SetRow(d, k, i, c), i, k, c, o) \in Databases
             /\ insertHistory(SetRow(d, k, i, c), i, k, c, o).row[k].id = i
  <2>1. [id |-> i, content |-> c] \in Rows
    BY DEF Rows
  <2>2. SetRow(d, k, i, c) \in Databases
    BY <2>1 DEF SetRow, Databases
  <2>3. [id |-> i, key |-> k, content |-> c, op |-> o] \in HistoryEntries
    BY DEF HistoryEntries
  <2>4. Append(SetRow(d, k, i, c).hist, [id |-> i, key |-> k, content |-> c, op |-> o])
           \in Seq(HistoryEntries)
    BY <2>2, <2>3, AppendHistory
  <2>5. insertHistory(SetRow(d, k, i, c), i, k, c, o) \in Databases
    BY <2>2, <2>4 DEF insertHistory, Databases
  <2>6. insertHistory(SetRow(d, k, i, c), i, k, c, o).row[k].id = i
    BY DEF insertHistory, SetRow, Databases
  <2> QED BY <2>2, <2>5, <2>6
<1> QED BY <1>1, <1>2, <1>3 DEF upsertConfig

(* Every operation and every prefix of one keeps the type.                 *)
LEMMA ApplyType ==
    ASSUME NEW d \in Databases, NEW o \in Operations
    PROVE  Apply(d, o) \in Databases /\ Prefixes(d, o) \subseteq Databases
<1>1. ASSUME NEW e \in Databases, NEW k \in Keys, NEW T \in SUBSET TagNames,
             e.row[k].id \in Nat \ {0}
      PROVE  replaceConfigTags(e, k, T) \in Databases
  BY <1>1 DEF replaceConfigTags, Databases, TagRows
<1>2. CASE o \in [kind : {"publish"}, key : Keys, content : Contents, tags : SUBSET TagNames]
  <2>1. /\ o.kind = "publish" /\ o.key \in Keys
        /\ o.content \in Contents /\ o.tags \subseteq TagNames
    BY <1>2
  <2>2. upsertConfig(d, o.key, o.content) \in Databases
    BY <2>1, UpsertType
  <2>3. ASSUME NEW T \in SUBSET TagNames
        PROVE  replaceConfigTags(upsertConfig(d, o.key, o.content), o.key, T) \in Databases
    BY <2>1, <2>2, <1>1, UpsertType
  <2>4. Apply(d, o) \in Databases
    BY <2>1, <2>2, <2>3 DEF Apply, Publish
  <2>5. Prefixes(d, o) =
           { d,
             SetRow(d, o.key, IF d.row[o.key] = NoRow THEN FreshId(d) ELSE d.row[o.key].id, o.content),
             upsertConfig(d, o.key, o.content) }
           \cup { replaceConfigTags(upsertConfig(d, o.key, o.content), o.key, T) :
                     T \in (SUBSET o.tags) \ {o.tags} }
    BY <2>1 DEF Prefixes
  <2>6. SetRow(d, o.key, IF d.row[o.key] = NoRow THEN FreshId(d) ELSE d.row[o.key].id, o.content)
           \in Databases
    BY <2>1, UpsertType
  <2>7. { replaceConfigTags(upsertConfig(d, o.key, o.content), o.key, T) :
             T \in (SUBSET o.tags) \ {o.tags} } \subseteq Databases
    BY <2>1, <2>3
  <2> QED BY <2>2, <2>4, <2>5, <2>6, <2>7
<1>3. CASE o \in [kind : {"delete"}, key : Keys]
  <2>1. o.kind = "delete" /\ o.key \in Keys
    BY <1>3
  <2>2. CASE d.row[o.key] = NoRow
    <3>1. Apply(d, o) = d /\ Prefixes(d, o) = {d}
      BY <2>1, <2>2 DEF Apply, Prefixes, deleteConfig
    <3> QED BY <3>1
  <2>3. CASE d.row[o.key] # NoRow
    <3> DEFINE e == [id |-> d.row[o.key].id, key |-> o.key, content |-> d.row[o.key].content, op |-> "D"]
    <3>1. d.row[o.key] \in Rows
      BY <2>1, <2>3 DEF Databases
    <3>2. e \in HistoryEntries
      BY <2>1, <3>1 DEF HistoryEntries, Rows
    <3>3. DropRow(d, o.key) \in Databases
      BY DEF DropRow, Databases
    <3>4. Append(DropRow(d, o.key).hist, e) \in Seq(HistoryEntries)
      BY <3>2, <3>3, AppendHistory
    <3>5. insertHistory(DropRow(d, o.key), d.row[o.key].id, o.key, d.row[o.key].content, "D") \in Databases
      BY <3>3, <3>4 DEF insertHistory, Databases
    <3>6. DropTags(insertHistory(DropRow(d, o.key), d.row[o.key].id, o.key, d.row[o.key].content, "D"), o.key)
            \in Databases
      BY <3>5 DEF DropTags, Databases
    <3>7. Apply(d, o) =
            DropTags(insertHistory(DropRow(d, o.key), d.row[o.key].id, o.key, d.row[o.key].content, "D"), o.key)
      BY <2>1, <2>3 DEF Apply, deleteConfig
    <3>8. Prefixes(d, o) =
            { d, DropRow(d, o.key),
              insertHistory(DropRow(d, o.key), d.row[o.key].id, o.key, d.row[o.key].content, "D") }
      BY <2>1, <2>3 DEF Prefixes
    <3> QED BY <3>3, <3>5, <3>6, <3>7, <3>8
  <2> QED BY <2>2, <2>3
<1>4. CASE o \in [kind : {"probe"}]
  <2>1. o.kind = "probe"
    BY <1>4
  <2>2. Apply(d, o) = d /\ Prefixes(d, o) = {d}
    BY <2>1 DEF Apply, Prefixes
  <2> QED BY <2>2
<1> QED BY <1>2, <1>3, <1>4 DEF Operations

(* Writing the row of a key and the history entry that records it keeps    *)
(* rows and history in agreement, whether the entry is "I", "U" or "D".    *)
LEMMA RecordedWrite ==
    ASSUME NEW d \in Databases, NEW k \in Keys, NEW e \in HistoryEntries, NEW f \in Databases,
           HistoryMatchesRows(d), e.key = k,
           f.hist = Append(d.hist, e),
           f.row = [d.row EXCEPT ![k] = IF e.op = "D" THEN NoRow
                                        ELSE [id |-> e.id, content |-> e.content]]
    PROVE  HistoryMatchesRows(f)
<1> DEFINE n == Len(d.hist) + 1
<1>1. /\ DOMAIN f.hist = 1..n /\ DOMAIN d.hist = 1..(n - 1) /\ n \in Nat \ {0}
      /\ f.hist[n] = e /\ \A i \in 1..(n - 1) : f.hist[i] = d.hist[i]
  BY AppendHistory
<1>2. /\ f.row[k] = IF e.op = "D" THEN NoRow ELSE [id |-> e.id, content |-> e.content]
      /\ \A q \in Keys : q # k => f.row[q] = d.row[q]
  BY DEF Databases
<1>3. \A i \in 1..(n - 1) : d.hist[i].key \in Keys
  BY <1>1, FieldTypes
<1>4. ASSUME NEW i \in DOMAIN f.hist, Newest(f, i)
      PROVE  f.row[f.hist[i].key] =
                IF f.hist[i].op = "D" THEN NoRow
                ELSE [id |-> f.hist[i].id, content |-> f.hist[i].content]
  <2>1. CASE i = n
    BY <2>1, <1>1, <1>2
  <2>2. CASE i # n
    <3>1. i \in 1..(n - 1) /\ f.hist[i] = d.hist[i]
      BY <2>2, <1>1
    <3>2. d.hist[i].key # k
      BY <3>1, <1>1, <1>4 DEF Newest
    <3>3. Newest(d, i)
      BY <3>1, <1>1, <1>4 DEF Newest
    <3>4. d.row[d.hist[i].key] = IF d.hist[i].op = "D" THEN NoRow
                                 ELSE [id |-> d.hist[i].id, content |-> d.hist[i].content]
      BY <3>1, <3>3, <1>1 DEF HistoryMatchesRows
    <3> QED BY <3>1, <3>2, <3>4, <1>2, <1>3
  <2> QED BY <2>1, <2>2
<1>5. ASSUME NEW q \in Keys, f.row[q] # NoRow
      PROVE  \E i \in DOMAIN f.hist : f.hist[i].key = q
  <2>1. CASE q = k
    BY <2>1, <1>1
  <2>2. CASE q # k
    <3>1. PICK i \in DOMAIN d.hist : d.hist[i].key = q
      BY <2>2, <1>2, <1>5 DEF HistoryMatchesRows
    <3> QED BY <3>1, <1>1
  <2> QED BY <2>1, <2>2
<1> QED BY <1>4, <1>5 DEF HistoryMatchesRows

(* The same for the ids.                                                   *)
LEMMA RecordedIds ==
    ASSUME NEW d \in Databases, NEW k \in Keys, NEW e \in HistoryEntries, NEW f \in Databases,
           IdsBelowFresh(d), e.id <= FreshId(d),
           f.hist = Append(d.hist, e),
           f.row[k] = NoRow \/ f.row[k].id = e.id,
           \A q \in Keys : q # k => f.row[q] = d.row[q]
    PROVE  IdsBelowFresh(f)
<1>1. /\ DOMAIN f.hist = 1..(Len(d.hist) + 1) /\ DOMAIN d.hist = 1..Len(d.hist)
      /\ Len(d.hist) \in Nat /\ Len(f.hist) = Len(d.hist) + 1
      /\ f.hist[Len(d.hist) + 1] = e /\ \A i \in 1..Len(d.hist) : f.hist[i] = d.hist[i]
  BY AppendHistory
<1>2. /\ \A i \in 1..Len(d.hist) : d.hist[i].id \in Nat
      /\ e.id \in Nat
      /\ \A q \in Keys : d.row[q].id \in Nat
      /\ NoRow.id = 0
  BY <1>1, FieldTypes DEF HistoryEntries, NoRow
<1>3. \A i \in DOMAIN f.hist : f.hist[i].id < FreshId(f)
  BY <1>1, <1>2 DEF IdsBelowFresh, FreshId
<1>4. \A q \in Keys : f.row[q].id < FreshId(f)
  <2>1. \A q \in Keys : q # k => f.row[q].id < FreshId(f)
    BY <1>1, <1>2 DEF IdsBelowFresh, FreshId
  <2>2. f.row[k].id < FreshId(f)
    BY <1>1, <1>2 DEF FreshId
  <2> QED BY <2>1, <2>2
<1> QED BY <1>3, <1>4 DEF IdsBelowFresh

(* upsertConfig keeps the tables in agreement.                             *)
LEMMA UpsertWellFormed ==
    ASSUME NEW d \in Databases, WellFormed(d), NEW k \in Keys, NEW c \in Contents
    PROVE  WellFormed(upsertConfig(d, k, c))
<1> DEFINE i == IF d.row[k] = NoRow THEN FreshId(d) ELSE d.row[k].id
           o == IF d.row[k] = NoRow THEN "I" ELSE "U"
           e == [id |-> i, key |-> k, content |-> c, op |-> o]
           f == upsertConfig(d, k, c)
<1>1. i \in Nat \ {0} /\ i <= FreshId(d)
  <2>1. Len(d.hist) \in Nat
    BY DEF Databases
  <2>2. d.row[k] # NoRow => d.row[k].id \in Nat \ {0}
    BY FieldTypes DEF Rows
  <2>3. d.row[k].id < FreshId(d)
    BY DEF WellFormed, IdsBelowFresh
  <2> QED BY <2>1, <2>2, <2>3 DEF FreshId
<1>2. e \in HistoryEntries
  BY <1>1 DEF HistoryEntries
<1>3. f \in Databases
  BY UpsertType
<1>4. /\ f.hist = Append(d.hist, e)
      /\ f.row = [d.row EXCEPT ![k] = [id |-> i, content |-> c]]
      /\ f.tags = d.tags
  BY DEF upsertConfig, insertHistory, SetRow, Databases
<1>a. e.key = k /\ e.id = i /\ e.content = c /\ e.op # "D"
  OBVIOUS
<1> HIDE DEF e, f, i
<1>5. HistoryMatchesRows(f)
  <2>1. f.row = [d.row EXCEPT ![k] = IF e.op = "D" THEN NoRow
                                     ELSE [id |-> e.id, content |-> e.content]]
    BY <1>4, <1>a
  <2> QED BY <2>1, <1>2, <1>3, <1>4, <1>a, RecordedWrite DEF WellFormed
<1>6. /\ f.row[k].id = i
      /\ \A q \in Keys : q # k => f.row[q] = d.row[q]
  BY <1>4 DEF Databases
<1>7. IdsBelowFresh(f)
  <2>1. e.id <= FreshId(d) /\ f.row[k].id = e.id /\ IdsBelowFresh(d)
    BY <1>1, <1>a, <1>6 DEF WellFormed
  <2> QED BY <2>1, <1>2, <1>3, <1>4, <1>6, RecordedIds
<1>8. TagsBelongToRows(f)
  <2>1. ASSUME NEW t \in d.tags PROVE f.row[t.key].id = t.id
    <3>1. t.id \in Nat \ {0} /\ t.key \in Keys /\ d.row[t.key].id = t.id
      BY DEF Databases, TagRows, WellFormed, TagsBelongToRows
    <3>2. d.row[t.key] # NoRow
      BY <3>1 DEF NoRow
    <3> QED BY <3>1, <3>2, <1>6 DEF i
  <2> QED BY <2>1, <1>4 DEF TagsBelongToRows
<1> QED BY <1>5, <1>7, <1>8 DEF WellFormed, f

(* Every operation of the handlers, run to its end on tables that agree,   *)
(* leaves tables that agree: publish with and without tags, and delete.    *)
THEOREM ApplyKeepsTablesAgreeing ==
    ASSUME NEW d \in Databases, WellFormed(d), NEW o \in Operations
    PROVE  WellFormed(Apply(d, o))
<1>1. CASE o \in [kind : {"publish"}, key : Keys, content : Contents, tags : SUBSET TagNames]
  <2> DEFINE k == o.key
             f == upsertConfig(d, k, o.content)
             g == replaceConfigTags(f, k, o.tags)
  <2>1. o.kind = "publish" /\ k \in Keys /\ o.content \in Contents /\ o.tags \subseteq TagNames
    BY <1>1
  <2>2. f \in Databases /\ WellFormed(f)
    BY <2>1, UpsertType, UpsertWellFormed
  <2> HIDE DEF f
  <2>3. /\ g.row = f.row /\ g.hist = f.hist
        /\ g.tags = { t \in f.tags : t.id # f.row[k].id }
                    \cup { [id |-> f.row[k].id, key |-> k, tag |-> t] : t \in o.tags }
    BY <2>2 DEF replaceConfigTags, Databases
  <2>4. TagsBelongToRows(g)
    BY <2>2, <2>3 DEF WellFormed, TagsBelongToRows
  <2>5. HistoryMatchesRows(g) /\ IdsBelowFresh(g)
    BY <2>2, <2>3 DEF WellFormed, HistoryMatchesRows, IdsBelowFresh, FreshId, Newest
  <2>6. Apply(d, o) = IF o.tags = {} THEN f ELSE g
    BY <2>1 DEF Apply, Publish, f
  <2> QED BY <2>2, <2>4, <2>5, <2>6 DEF WellFormed
<1>2. CASE o \in [kind : {"delete"}, key : Keys]
  <2> DEFINE k == o.key
             e == [id |-> d.row[k].id, key |-> k, content |-> d.row[k].content, op |-> "D"]
             f == Apply(d, o)
  <2>1. o.kind = "delete" /\ k \in Keys
    BY <1>2
  <2>2. CASE d.row[k] = NoRow
    BY <2>1, <2>2 DEF Apply, deleteConfig
  <2>3. CASE d.row[k] # NoRow
    <3>1. d.row[k] \in Rows
      BY <2>1, <2>3 DEF Databases
    <3>2. e \in HistoryEntries
      BY <2>1, <3>1 DEF HistoryEntries, Rows
    <3>3. f \in Databases
      BY ApplyType
    <3>4. f = DropTags(insertHistory(DropRow(d, k), d.row[k].id, k, d.row[k].content, "D"), k)
      BY <2>1, <2>3 DEF Apply, deleteConfig
    <3>5. /\ f.hist = Append(d.hist, e)
          /\ f.row = [d.row EXCEPT ![k] = NoRow]
          /\ f.tags = { t \in d.tags : t.key # k }
      BY <3>4 DEF DropTags, insertHistory, DropRow, Databases
    <3>a. e.key = k /\ e.id = d.row[k].id /\ e.op = "D"
      OBVIOUS
    <3> HIDE DEF e, f, k
    <3>6. HistoryMatchesRows(f)
      <4>1. f.row = [d.row EXCEPT ![k] = IF e.op = "D" THEN NoRow
                                         ELSE [id |-> e.id, content |-> e.content]]
        BY <3>5, <3>a
      <4> QED BY <4>1, <2>1, <3>2, <3>3, <3>5, <3>a, RecordedWrite DEF WellFormed
    <3>7. /\ f.row[k] = NoRow
          /\ \A q \in Keys : q # k => f.row[q] = d.row[q]
      BY <2>1, <3>5 DEF Databases
    <3>8. e.id <= FreshId(d)
      BY <2>1, <3>1, <3>a, FieldTypes DEF WellFormed, IdsBelowFresh, FreshId, Databases
    <3>9. IdsBelowFresh(f)
      BY <2>1, <3>2, <3>3, <3>5, <3>7, <3>8, RecordedIds DEF WellFormed
    <3>10. TagsBelongToRows(f)
      BY <3>5, <3>7 DEF WellFormed, TagsBelongToRows, Databases, TagRows
    <3> QED BY <3>6, <3>9, <3>10 DEF WellFormed, f
  <2> QED BY <2>2, <2>3
<1>3. CASE o \in [kind : {"probe"}]
  <2>1. o.kind = "probe"
    BY <1>3
  <2>2. Apply(d, o) = d
    BY <2>1 DEF Apply
  <2> QED BY <2>2
<1> QED BY <1>1, <1>2, <1>3 DEF Operations

-----------------------------------------------------------------------------
(***************************************************************************)
(* The owner.                                                              *)
(***************************************************************************)

(* An operation, or a prefix of one, on typed tables gives typed tables.   *)
LEMMA OpTypes ==
    ASSUME NEW d \in Databases, NEW o \in Ops
    PROVE  Apply(d, o) \in Databases /\ Prefixes(d, o) \subseteq Databases
BY OpsAssumption, ApplyType

(* AcquireLock takes the lock and opens the session in one step:           *)
(* SessionIsLock keeps, and the new semaphore has its token.               *)
LEMMA AcquireLockFenced ==
    ASSUME Fenced, NEW p \in Procs, AcquireLock(p)
    PROVE  Fenced'
<1> USE DEF Fenced, AcquireLock, dbVars, procVars, reqVars, Goto, Answer, lose, CloseConn
<1>1. TypeOK'
  BY EmptyDatabaseOK, OpTypes DEF TypeOK, RequestInv, RequestFacts, PcStates, ProcStates, Holding, NoTx, Transactions
<1>2. SessionIsLock'
  BY NoProcAssumption DEF TypeOK, SessionIsLock
<1>3. TxInv'
  BY DEF TypeOK, TxInv, TxBelongs, RequestInv, RequestFacts, OneHolder, SessionIsLock, InTx, Holding, NoTx, Uncommitted, Abandoned
<1>4. RequestInv'
  BY NoProcAssumption DEF TypeOK, TxInv, TxBelongs, RequestInv, RequestFacts, OneHolder, InTx, Holding, NoTx, Uncommitted, Abandoned, Up
<1>5. OneHolder'
  BY NoProcAssumption DEF TypeOK, RequestInv, RequestFacts, OneHolder, InTx, Holding, Up
<1> QED BY <1>1, <1>2, <1>3, <1>4, <1>5

(* AcquireRefused ends a process that has no session.                      *)
LEMMA AcquireRefusedFenced ==
    ASSUME Fenced, NEW p \in Procs, AcquireRefused(p)
    PROVE  Fenced'
<1> USE DEF Fenced, AcquireRefused, dbVars, procVars, reqVars, Goto, Answer, lose, CloseConn
<1>1. TypeOK'
  BY EmptyDatabaseOK, OpTypes DEF TypeOK, RequestInv, RequestFacts, PcStates, ProcStates, Holding, NoTx, Transactions
<1>2. SessionIsLock'
  BY NoProcAssumption DEF TypeOK, SessionIsLock
<1>3. TxInv'
  BY DEF TypeOK, TxInv, TxBelongs, RequestInv, RequestFacts, OneHolder, SessionIsLock, InTx, Holding, NoTx, Uncommitted, Abandoned
<1>4. RequestInv'
  BY NoProcAssumption DEF TypeOK, TxInv, TxBelongs, RequestInv, RequestFacts, OneHolder, InTx, Holding, NoTx, Uncommitted, Abandoned, Up
<1>5. OneHolder'
  BY NoProcAssumption DEF TypeOK, RequestInv, RequestFacts, OneHolder, InTx, Holding, Up
<1> QED BY <1>1, <1>2, <1>3, <1>4, <1>5

(* InstallOwner moves only the process; its semaphore already exists.      *)
LEMMA InstallOwnerFenced ==
    ASSUME Fenced, NEW p \in Procs, InstallOwner(p)
    PROVE  Fenced'
<1> USE DEF Fenced, InstallOwner, dbVars, procVars, reqVars, Goto, Answer, lose, CloseConn, SessionUsable
<1>1. TypeOK'
  BY EmptyDatabaseOK, OpTypes DEF TypeOK, RequestInv, RequestFacts, PcStates, ProcStates, Holding, NoTx, Transactions
<1>2. SessionIsLock'
  BY NoProcAssumption DEF TypeOK, SessionIsLock
<1>3. TxInv'
  BY DEF TypeOK, TxInv, TxBelongs, RequestInv, RequestFacts, OneHolder, SessionIsLock, InTx, Holding, NoTx, Uncommitted, Abandoned
<1>4. RequestInv'
  BY NoProcAssumption DEF TypeOK, TxInv, TxBelongs, RequestInv, RequestFacts, OneHolder, InTx, Holding, NoTx, Uncommitted, Abandoned, Up
<1>5. OneHolder'
  BY NoProcAssumption DEF TypeOK, RequestInv, RequestFacts, OneHolder, InTx, Holding, Up
<1> QED BY <1>1, <1>2, <1>3, <1>4, <1>5

(* InstallRefused ends the process; the server still sees its session, and *)
(* the lock stays with it.                                                 *)
LEMMA InstallRefusedFenced ==
    ASSUME Fenced, NEW p \in Procs, InstallRefused(p)
    PROVE  Fenced'
<1> USE DEF Fenced, InstallRefused, dbVars, procVars, reqVars, Goto, Answer, lose, CloseConn
<1>1. TypeOK'
  BY EmptyDatabaseOK, OpTypes DEF TypeOK, RequestInv, RequestFacts, PcStates, ProcStates, Holding, NoTx, Transactions
<1>2. SessionIsLock'
  BY NoProcAssumption DEF TypeOK, SessionIsLock
<1>3. TxInv'
  BY DEF TypeOK, TxInv, TxBelongs, RequestInv, RequestFacts, OneHolder, SessionIsLock, InTx, Holding, NoTx, Uncommitted, Abandoned
<1>4. RequestInv'
  BY NoProcAssumption DEF TypeOK, TxInv, TxBelongs, RequestInv, RequestFacts, OneHolder, InTx, Holding, NoTx, Uncommitted, Abandoned, Up
<1>5. OneHolder'
  BY NoProcAssumption DEF TypeOK, RequestInv, RequestFacts, OneHolder, InTx, Holding, Up
<1> QED BY <1>1, <1>2, <1>3, <1>4, <1>5

(* Preload opens the process to requests, with the token in its semaphore. *)
LEMMA PreloadFenced ==
    ASSUME Fenced, NEW p \in Procs, Preload(p)
    PROVE  Fenced'
<1> USE DEF Fenced, Preload, dbVars, procVars, reqVars, Goto, Answer, lose, CloseConn, ConnUsable, SessionUsable, Owns
<1>1. TypeOK'
  BY EmptyDatabaseOK, OpTypes DEF TypeOK, RequestInv, RequestFacts, PcStates, ProcStates, Holding, NoTx, Transactions
<1>2. SessionIsLock'
  BY NoProcAssumption DEF TypeOK, SessionIsLock
<1>3. TxInv'
  BY DEF TypeOK, TxInv, TxBelongs, RequestInv, RequestFacts, OneHolder, SessionIsLock, InTx, Holding, NoTx, Uncommitted, Abandoned
<1>4. RequestInv'
  BY NoProcAssumption DEF TypeOK, TxInv, TxBelongs, RequestInv, RequestFacts, OneHolder, InTx, Holding, NoTx, Uncommitted, Abandoned, Up
<1>5. OneHolder'
  BY NoProcAssumption DEF TypeOK, RequestInv, RequestFacts, OneHolder, InTx, Holding, Up
<1> QED BY <1>1, <1>2, <1>3, <1>4, <1>5

(* PreloadFailed ends the process, like InstallRefused.                    *)
LEMMA PreloadFailedFenced ==
    ASSUME Fenced, NEW p \in Procs, PreloadFailed(p)
    PROVE  Fenced'
<1> USE DEF Fenced, PreloadFailed, dbVars, procVars, reqVars, Goto, Answer, lose, CloseConn
<1>1. TypeOK'
  BY EmptyDatabaseOK, OpTypes DEF TypeOK, RequestInv, RequestFacts, PcStates, ProcStates, Holding, NoTx, Transactions
<1>2. SessionIsLock'
  BY NoProcAssumption DEF TypeOK, SessionIsLock
<1>3. TxInv'
  BY DEF TypeOK, TxInv, TxBelongs, RequestInv, RequestFacts, OneHolder, SessionIsLock, InTx, Holding, NoTx, Uncommitted, Abandoned
<1>4. RequestInv'
  BY NoProcAssumption DEF TypeOK, TxInv, TxBelongs, RequestInv, RequestFacts, OneHolder, InTx, Holding, NoTx, Uncommitted, Abandoned, Up
<1>5. OneHolder'
  BY NoProcAssumption DEF TypeOK, RequestInv, RequestFacts, OneHolder, InTx, Holding, Up
<1> QED BY <1>1, <1>2, <1>3, <1>4, <1>5

(* ReleaseBegin sets lost, which the invariant only ever asks for.         *)
LEMMA ReleaseBeginFenced ==
    ASSUME Fenced, NEW p \in Procs, ReleaseBegin(p)
    PROVE  Fenced'
<1> USE DEF Fenced, ReleaseBegin, dbVars, procVars, reqVars, Goto, Answer, lose, CloseConn
<1>1. TypeOK'
  BY EmptyDatabaseOK, OpTypes DEF TypeOK, RequestInv, RequestFacts, PcStates, ProcStates, Holding, NoTx, Transactions
<1>2. SessionIsLock'
  BY NoProcAssumption DEF TypeOK, SessionIsLock
<1>3. TxInv'
  BY DEF TypeOK, TxInv, TxBelongs, RequestInv, RequestFacts, OneHolder, SessionIsLock, InTx, Holding, NoTx, Uncommitted, Abandoned
<1>4. RequestInv'
  BY NoProcAssumption DEF TypeOK, TxInv, TxBelongs, RequestInv, RequestFacts, OneHolder, InTx, Holding, NoTx, Uncommitted, Abandoned, Up
<1>5. OneHolder'
  BY NoProcAssumption DEF TypeOK, RequestInv, RequestFacts, OneHolder, InTx, Holding, Up
<1> QED BY <1>1, <1>2, <1>3, <1>4, <1>5

(* ReleaseDiscard closes the client's side only.                           *)
LEMMA ReleaseDiscardFenced ==
    ASSUME Fenced, NEW p \in Procs, ReleaseDiscard(p)
    PROVE  Fenced'
<1> USE DEF Fenced, ReleaseDiscard, dbVars, procVars, reqVars, Goto, Answer, lose, CloseConn
<1>1. TypeOK'
  BY EmptyDatabaseOK, OpTypes DEF TypeOK, RequestInv, RequestFacts, PcStates, ProcStates, Holding, NoTx, Transactions
<1>2. SessionIsLock'
  BY NoProcAssumption DEF TypeOK, SessionIsLock
<1>3. TxInv'
  BY DEF TypeOK, TxInv, TxBelongs, RequestInv, RequestFacts, OneHolder, SessionIsLock, InTx, Holding, NoTx, Uncommitted, Abandoned
<1>4. RequestInv'
  BY NoProcAssumption DEF TypeOK, TxInv, TxBelongs, RequestInv, RequestFacts, OneHolder, InTx, Holding, NoTx, Uncommitted, Abandoned, Up
<1>5. OneHolder'
  BY NoProcAssumption DEF TypeOK, RequestInv, RequestFacts, OneHolder, InTx, Holding, Up
<1> QED BY <1>1, <1>2, <1>3, <1>4, <1>5

(* ReleaseTimeout leaves the token with its holder.                        *)
LEMMA ReleaseTimeoutFenced ==
    ASSUME Fenced, NEW p \in Procs, ReleaseTimeout(p)
    PROVE  Fenced'
<1> USE DEF Fenced, ReleaseTimeout, dbVars, procVars, reqVars, Goto, Answer, lose, CloseConn
<1>1. TypeOK'
  BY EmptyDatabaseOK, OpTypes DEF TypeOK, RequestInv, RequestFacts, PcStates, ProcStates, Holding, NoTx, Transactions
<1>2. SessionIsLock'
  BY NoProcAssumption DEF TypeOK, SessionIsLock
<1>3. TxInv'
  BY DEF TypeOK, TxInv, TxBelongs, RequestInv, RequestFacts, OneHolder, SessionIsLock, InTx, Holding, NoTx, Uncommitted, Abandoned
<1>4. RequestInv'
  BY NoProcAssumption DEF TypeOK, TxInv, TxBelongs, RequestInv, RequestFacts, OneHolder, InTx, Holding, NoTx, Uncommitted, Abandoned, Up
<1>5. OneHolder'
  BY NoProcAssumption DEF TypeOK, RequestInv, RequestFacts, OneHolder, InTx, Holding, Up
<1> QED BY <1>1, <1>2, <1>3, <1>4, <1>5

(* Exit sends the requests of the process to "gone": its transaction may   *)
(* outlive them until the server ends the session.                         *)
LEMMA ExitFenced ==
    ASSUME Fenced, NEW p \in Procs, Exit(p)
    PROVE  Fenced'
<1> USE DEF Fenced, Exit, dbVars, procVars, reqVars, Goto, Answer, lose, CloseConn
<1>1. TypeOK'
  BY EmptyDatabaseOK, OpTypes DEF TypeOK, RequestInv, RequestFacts, PcStates, ProcStates, Holding, NoTx, Transactions
<1>2. SessionIsLock'
  BY NoProcAssumption DEF TypeOK, SessionIsLock
<1>3. TxInv'
  BY DEF TypeOK, TxInv, TxBelongs, RequestInv, RequestFacts, OneHolder, SessionIsLock, InTx, Holding, NoTx, Uncommitted, Abandoned
<1>4. RequestInv'
  BY NoProcAssumption DEF TypeOK, TxInv, TxBelongs, RequestInv, RequestFacts, OneHolder, InTx, Holding, NoTx, Uncommitted, Abandoned, Up
<1>5. OneHolder'
  BY NoProcAssumption DEF TypeOK, RequestInv, RequestFacts, OneHolder, InTx, Holding, Up
<1> QED BY <1>1, <1>2, <1>3, <1>4, <1>5

(* SessionEnd aborts the transaction together with the lock, so no         *)
(* transaction is left without it.                                         *)
LEMMA SessionEndFenced ==
    ASSUME Fenced, NEW p \in Procs, SessionEnd(p)
    PROVE  Fenced'
<1> USE DEF Fenced, SessionEnd, dbVars, procVars, reqVars, Goto, Answer, lose, CloseConn
<1>1. TypeOK'
  BY EmptyDatabaseOK, OpTypes DEF TypeOK, RequestInv, RequestFacts, PcStates, ProcStates, Holding, NoTx, Transactions
<1>2. SessionIsLock'
  BY NoProcAssumption DEF TypeOK, SessionIsLock
<1>3. TxInv'
  BY DEF TypeOK, TxInv, TxBelongs, RequestInv, RequestFacts, OneHolder, SessionIsLock, InTx, Holding, NoTx, Uncommitted, Abandoned
<1>4. RequestInv'
  BY NoProcAssumption DEF TypeOK, TxInv, TxBelongs, RequestInv, RequestFacts, OneHolder, InTx, Holding, NoTx, Uncommitted, Abandoned, Up
<1>5. OneHolder'
  BY NoProcAssumption DEF TypeOK, RequestInv, RequestFacts, OneHolder, InTx, Holding, Up
<1> QED BY <1>1, <1>2, <1>3, <1>4, <1>5

(* DbCommit changes the tables: no other session has a transaction,        *)
(* because none has the lock.                                              *)
LEMMA DbCommitFenced ==
    ASSUME Fenced, NEW p \in Procs, DbCommit(p)
    PROVE  Fenced'
<1> USE DEF Fenced, DbCommit, dbVars, procVars, reqVars, Goto, Answer, lose, CloseConn
<1>1. TypeOK'
  <2>1. tx[p] \in Transactions /\ tx[p].work \in Databases
    BY DEF TypeOK, Transactions
  <2>2. [tx[p] EXCEPT !.status = "committed"] \in Transactions
    BY <2>1 DEF Transactions
  <2>3. tx' \in [Procs -> Transactions]
    BY <2>2 DEF TypeOK
  <2>4. tx[p].req \in Requests
    BY DEF TxInv, TxBelongs
  <2> QED BY <2>1, <2>3, <2>4 DEF TypeOK
<1>2. SessionIsLock'
  BY NoProcAssumption DEF TypeOK, SessionIsLock
<1>3. TxInv'
  BY DEF TypeOK, TxInv, TxBelongs, RequestInv, RequestFacts, OneHolder, SessionIsLock, InTx, Holding, NoTx, Uncommitted, Abandoned
<1>4. RequestInv'
  BY NoProcAssumption DEF TypeOK, TxInv, TxBelongs, RequestInv, RequestFacts, OneHolder, InTx, Holding, NoTx, Uncommitted, Abandoned, Up
<1>5. OneHolder'
  BY NoProcAssumption DEF TypeOK, RequestInv, RequestFacts, OneHolder, InTx, Holding, Up
<1> QED BY <1>1, <1>2, <1>3, <1>4, <1>5

(* Cancel sets a flag, which no part of the invariant mentions.            *)
LEMMA CancelFenced ==
    ASSUME Fenced, NEW r \in Requests, Cancel(r)
    PROVE  Fenced'
<1> USE DEF Fenced, Cancel, dbVars, procVars, reqVars, Goto, Answer, lose, CloseConn
<1>1. TypeOK'
  BY EmptyDatabaseOK, OpTypes DEF TypeOK, RequestInv, RequestFacts, PcStates, ProcStates, Holding, NoTx, Transactions
<1>2. SessionIsLock'
  BY NoProcAssumption DEF TypeOK, SessionIsLock
<1>3. TxInv'
  BY DEF TypeOK, TxInv, TxBelongs, RequestInv, RequestFacts, OneHolder, SessionIsLock, InTx, Holding, NoTx, Uncommitted, Abandoned
<1>4. RequestInv'
  BY NoProcAssumption DEF TypeOK, TxInv, TxBelongs, RequestInv, RequestFacts, OneHolder, InTx, Holding, NoTx, Uncommitted, Abandoned, Up
<1>5. OneHolder'
  BY NoProcAssumption DEF TypeOK, RequestInv, RequestFacts, OneHolder, InTx, Holding, Up
<1> QED BY <1>1, <1>2, <1>3, <1>4, <1>5

(* SelectInactive answers a request that holds nothing.                    *)
LEMMA SelectInactiveFenced ==
    ASSUME Fenced, NEW r \in Requests, SelectInactive(r)
    PROVE  Fenced'
<1> USE DEF Fenced, SelectInactive, dbVars, procVars, reqVars, Goto, Answer, lose, CloseConn
<1>1. TypeOK'
  BY EmptyDatabaseOK, OpTypes DEF TypeOK, RequestInv, RequestFacts, PcStates, ProcStates, Holding, NoTx, Transactions
<1>2. SessionIsLock'
  BY NoProcAssumption DEF TypeOK, SessionIsLock
<1>3. TxInv'
  BY DEF TypeOK, TxInv, TxBelongs, RequestInv, RequestFacts, OneHolder, SessionIsLock, InTx, Holding, NoTx, Uncommitted, Abandoned
<1>4. RequestInv'
  BY NoProcAssumption DEF TypeOK, TxInv, TxBelongs, RequestInv, RequestFacts, OneHolder, InTx, Holding, NoTx, Uncommitted, Abandoned, Up
<1>5. OneHolder'
  BY NoProcAssumption DEF TypeOK, RequestInv, RequestFacts, OneHolder, InTx, Holding, Up
<1> QED BY <1>1, <1>2, <1>3, <1>4, <1>5

(* SelectToken takes the token: nobody else holds it, by OneHolder.        *)
LEMMA SelectTokenFenced ==
    ASSUME Fenced, NEW r \in Requests, SelectToken(r)
    PROVE  Fenced'
<1> USE DEF Fenced, SelectToken, dbVars, procVars, reqVars, Goto, Answer, lose, CloseConn
<1>1. TypeOK'
  BY EmptyDatabaseOK, OpTypes DEF TypeOK, RequestInv, RequestFacts, PcStates, ProcStates, Holding, NoTx, Transactions
<1>2. SessionIsLock'
  BY NoProcAssumption DEF TypeOK, SessionIsLock
<1>3. TxInv'
  BY DEF TypeOK, TxInv, TxBelongs, RequestInv, RequestFacts, OneHolder, SessionIsLock, InTx, Holding, NoTx, Uncommitted, Abandoned
<1>4. RequestInv'
  BY NoProcAssumption DEF TypeOK, TxInv, TxBelongs, RequestInv, RequestFacts, OneHolder, InTx, Holding, NoTx, Uncommitted, Abandoned, Up
<1>5. OneHolder'
  BY NoProcAssumption DEF TypeOK, RequestInv, RequestFacts, OneHolder, InTx, Holding, Up
<1> QED BY <1>1, <1>2, <1>3, <1>4, <1>5

(* Verify moves the holder on: the process is not lost, so no COMMIT that  *)
(* was given up is left on the session, and the token keeps the others off.*)
LEMMA VerifyFenced ==
    ASSUME Fenced, NEW r \in Requests, Verify(r)
    PROVE  Fenced'
<1> USE DEF Fenced, Verify, dbVars, procVars, reqVars, Goto, Answer, lose, CloseConn, ConnUsable, SessionUsable, Owns
<1>1. TypeOK'
  BY EmptyDatabaseOK, OpTypes DEF TypeOK, RequestInv, RequestFacts, PcStates, ProcStates, Holding, NoTx, Transactions
<1>2. SessionIsLock'
  BY NoProcAssumption DEF TypeOK, SessionIsLock
<1>3. TxInv'
  BY DEF TypeOK, TxInv, TxBelongs, RequestInv, RequestFacts, OneHolder, SessionIsLock, InTx, Holding, NoTx, Uncommitted, Abandoned
<1>4. RequestInv'
  <2>1. at[r] \in Procs /\ proc[at[r]] \in Up /\ ~lost[at[r]]
    BY DEF RequestInv, RequestFacts
  <2>2. ASSUME tx[at[r]].status # "none" PROVE FALSE
    <3>1. TxBelongs(at[r])
      BY <2>1, <2>2 DEF TxInv
    <3>2. pc[tx[at[r]].req] # "gone"
      BY <2>1, <3>1 DEF TxBelongs, RequestInv, RequestFacts, Up
    <3>3. pc[tx[at[r]].req] \notin Abandoned \/ tx[at[r]].status = "open"
      BY <2>1, <3>1 DEF TxBelongs
    <3>4. pc[tx[at[r]].req] \in Holding /\ pc[tx[at[r]].req] # "verify"
      BY <3>1, <3>2, <3>3 DEF TxBelongs, Holding
    <3> QED BY <3>1, <3>4 DEF TxBelongs, OneHolder, Holding
  <2> QED BY <2>1, <2>2, NoProcAssumption DEF TypeOK, RequestInv, RequestFacts, InTx, Uncommitted, Up
<1>5. OneHolder'
  BY NoProcAssumption DEF TypeOK, RequestInv, RequestFacts, OneHolder, InTx, Holding, Up
<1> QED BY <1>1, <1>2, <1>3, <1>4, <1>5

(* VerifyFailed answers a request that has no transaction yet.             *)
LEMMA VerifyFailedFenced ==
    ASSUME Fenced, NEW r \in Requests, VerifyFailed(r)
    PROVE  Fenced'
<1> USE DEF Fenced, VerifyFailed, dbVars, procVars, reqVars, Goto, Answer, lose, CloseConn
<1>1. TypeOK'
  BY EmptyDatabaseOK, OpTypes DEF TypeOK, RequestInv, RequestFacts, PcStates, ProcStates, Holding, NoTx, Transactions
<1>2. SessionIsLock'
  BY NoProcAssumption DEF TypeOK, SessionIsLock
<1>3. TxInv'
  BY DEF TypeOK, TxInv, TxBelongs, RequestInv, RequestFacts, OneHolder, SessionIsLock, InTx, Holding, NoTx, Uncommitted, Abandoned
<1>4. RequestInv'
  BY NoProcAssumption DEF TypeOK, TxInv, TxBelongs, RequestInv, RequestFacts, OneHolder, InTx, Holding, NoTx, Uncommitted, Abandoned, Up
<1>5. OneHolder'
  BY NoProcAssumption DEF TypeOK, RequestInv, RequestFacts, OneHolder, InTx, Holding, Up
<1> QED BY <1>1, <1>2, <1>3, <1>4, <1>5

(* BeginTx opens a transaction on a session that has none, by RequestFacts.*)
LEMMA BeginTxFenced ==
    ASSUME Fenced, NEW r \in Requests, BeginTx(r)
    PROVE  Fenced'
<1> USE DEF Fenced, BeginTx, dbVars, procVars, reqVars, Goto, Answer, lose, CloseConn, ConnUsable, SessionUsable
<1>1. TypeOK'
  BY EmptyDatabaseOK, OpTypes DEF TypeOK, RequestInv, RequestFacts, PcStates, ProcStates, Holding, NoTx, Transactions
<1>2. SessionIsLock'
  BY NoProcAssumption DEF TypeOK, SessionIsLock
<1>3. TxInv'
  BY DEF TypeOK, TxInv, TxBelongs, RequestInv, RequestFacts, OneHolder, SessionIsLock, InTx, Holding, NoTx, Uncommitted, Abandoned
<1>4. RequestInv'
  BY NoProcAssumption DEF TypeOK, TxInv, TxBelongs, RequestInv, RequestFacts, OneHolder, InTx, Holding, NoTx, Uncommitted, Abandoned, Up
<1>5. OneHolder'
  BY NoProcAssumption DEF TypeOK, RequestInv, RequestFacts, OneHolder, InTx, Holding, Up
<1> QED BY <1>1, <1>2, <1>3, <1>4, <1>5

(* BeginTxFailed answers a request that has no transaction.                *)
LEMMA BeginTxFailedFenced ==
    ASSUME Fenced, NEW r \in Requests, BeginTxFailed(r)
    PROVE  Fenced'
<1> USE DEF Fenced, BeginTxFailed, dbVars, procVars, reqVars, Goto, Answer, lose, CloseConn
<1>1. TypeOK'
  BY EmptyDatabaseOK, OpTypes DEF TypeOK, RequestInv, RequestFacts, PcStates, ProcStates, Holding, NoTx, Transactions
<1>2. SessionIsLock'
  BY NoProcAssumption DEF TypeOK, SessionIsLock
<1>3. TxInv'
  BY DEF TypeOK, TxInv, TxBelongs, RequestInv, RequestFacts, OneHolder, SessionIsLock, InTx, Holding, NoTx, Uncommitted, Abandoned
<1>4. RequestInv'
  BY NoProcAssumption DEF TypeOK, TxInv, TxBelongs, RequestInv, RequestFacts, OneHolder, InTx, Holding, NoTx, Uncommitted, Abandoned, Up
<1>5. OneHolder'
  BY NoProcAssumption DEF TypeOK, RequestInv, RequestFacts, OneHolder, InTx, Holding, Up
<1> QED BY <1>1, <1>2, <1>3, <1>4, <1>5

(* RunHandler computes the effect on the tables as they are.               *)
LEMMA RunHandlerFenced ==
    ASSUME Fenced, NEW r \in Requests, RunHandler(r)
    PROVE  Fenced'
<1> USE DEF Fenced, RunHandler, dbVars, procVars, reqVars, Goto, Answer, lose, CloseConn, SessionUsable
<1>1. TypeOK'
  <2>1. at[r] \in Procs /\ op[r] \in Ops /\ tx[at[r]] \in Transactions
    BY DEF TypeOK, RequestInv, RequestFacts
  <2>2. Apply(db, op[r]) \in Databases
    BY <2>1, OpTypes DEF TypeOK
  <2>3. [tx[at[r]] EXCEPT !.work = Apply(db, op[r])] \in Transactions
    BY <2>1, <2>2 DEF Transactions
  <2>4. tx' \in [Procs -> Transactions]
    BY <2>3 DEF TypeOK
  <2>5. pc' \in [Requests -> PcStates]
    BY DEF TypeOK, PcStates, Holding
  <2> QED BY <2>4, <2>5 DEF TypeOK
<1>2. SessionIsLock'
  BY NoProcAssumption DEF TypeOK, SessionIsLock
<1>3. TxInv'
  BY DEF TypeOK, TxInv, TxBelongs, RequestInv, RequestFacts, OneHolder, SessionIsLock, InTx, Holding, NoTx, Uncommitted, Abandoned
<1>4. RequestInv'
  BY NoProcAssumption DEF TypeOK, TxInv, TxBelongs, RequestInv, RequestFacts, OneHolder, InTx, Holding, NoTx, Uncommitted, Abandoned, Up
<1>5. OneHolder'
  BY NoProcAssumption DEF TypeOK, RequestInv, RequestFacts, OneHolder, InTx, Holding, Up
<1> QED BY <1>1, <1>2, <1>3, <1>4, <1>5

(* HandlerRejects leaves a partial effect in a transaction that will be    *)
(* rolled back.                                                            *)
LEMMA HandlerRejectsFenced ==
    ASSUME Fenced, NEW r \in Requests, HandlerRejects(r)
    PROVE  Fenced'
<1> USE DEF Fenced, HandlerRejects, dbVars, procVars, reqVars, Goto, Answer, lose, CloseConn, SessionUsable
<1>0. /\ at[r] \in Procs /\ tx[at[r]] \in Transactions
      /\ \E d \in Databases : tx' = tx \/ tx' = [tx EXCEPT ![at[r]] = [@ EXCEPT !.work = d]]
  <2>1. at[r] \in Procs /\ op[r] \in Ops /\ tx[at[r]] \in Transactions
    BY DEF TypeOK, RequestInv, RequestFacts
  <2>2. db \in Databases /\ Prefixes(db, op[r]) \subseteq Databases
    BY <2>1, OpTypes DEF TypeOK
  <2>3. CASE SessionUsable(at[r])
    BY <2>1, <2>2, <2>3
  <2>4. CASE ~SessionUsable(at[r])
    BY <2>1, <2>2, <2>4
  <2> QED BY <2>3, <2>4
<1>a. /\ \A p \in Procs : tx'[p].status = tx[p].status /\ tx'[p].req = tx[p].req
      /\ \A p \in Procs : p # at[r] => tx'[p] = tx[p]
      /\ tx' \in [Procs -> Transactions]
  <2>1. PICK d \in Databases : tx' = tx \/ tx' = [tx EXCEPT ![at[r]] = [@ EXCEPT !.work = d]]
    BY <1>0
  <2>2. [tx[at[r]] EXCEPT !.work = d] \in Transactions
    BY <1>0 DEF Transactions
  <2>3. tx' \in [Procs -> Transactions]
    BY <1>0, <2>1, <2>2 DEF TypeOK
  <2>4. \A p \in Procs : p # at[r] => tx'[p] = tx[p]
    BY <1>0, <2>1 DEF TypeOK
  <2>5. tx'[at[r]].status = tx[at[r]].status /\ tx'[at[r]].req = tx[at[r]].req
    BY <1>0, <2>1 DEF TypeOK, Transactions
  <2> QED BY <2>3, <2>4, <2>5
<1>1. TypeOK'
  <2>1. pc' \in [Requests -> PcStates] /\ resp' \in [Requests -> {"none", "ok", "rejected", "unavailable"}]
    BY DEF TypeOK, PcStates, Holding
  <2> QED BY <1>a, <2>1 DEF TypeOK
<1>2. SessionIsLock'
  BY NoProcAssumption DEF TypeOK, SessionIsLock
<1>3. TxInv'
  <2>1. tx[at[r]].status # "none" => tx[at[r]].req = r
    BY <1>0 DEF RequestInv, RequestFacts, InTx
  <2> SUFFICES ASSUME NEW p \in Procs, tx[p].status # "none" PROVE TxBelongs(p)'
    BY <1>a DEF TxInv
  <2>2. TxBelongs(p)
    BY DEF TxInv
  <2>3. CASE p = at[r]
    <3>1. tx[p].status = "open" /\ tx[p].req = r
      BY <2>1, <2>2, <2>3 DEF TxBelongs, Abandoned
    <3> QED BY <1>a, <2>2, <2>3, <3>1 DEF TxBelongs, TypeOK
  <2>4. CASE p # at[r]
    <3>1. tx[p].req # r
      BY <2>2, <2>4 DEF TxBelongs
    <3> QED BY <1>a, <2>2, <2>4, <3>1 DEF TxBelongs, TypeOK
  <2> QED BY <2>3, <2>4
<1>4. RequestInv'
  <2> SUFFICES ASSUME NEW q \in Requests
               PROVE  RequestFacts(q)'
    BY DEF RequestInv
  <2>1. CASE q = r
    BY <1>0, <1>a, <2>1 DEF TypeOK, RequestInv, RequestFacts, InTx, Uncommitted
  <2>2. CASE q # r
    BY <1>0, <1>a, <2>2, NoProcAssumption DEF TypeOK, RequestInv, RequestFacts, InTx
  <2> QED BY <2>1, <2>2
<1>5. OneHolder'
  BY NoProcAssumption DEF TypeOK, RequestInv, RequestFacts, OneHolder, InTx, Holding, Up
<1> QED BY <1>1, <1>2, <1>3, <1>4, <1>5

(* VerifyTx moves the holder on.                                           *)
LEMMA VerifyTxFenced ==
    ASSUME Fenced, NEW r \in Requests, VerifyTx(r)
    PROVE  Fenced'
<1> USE DEF Fenced, VerifyTx, dbVars, procVars, reqVars, Goto, Answer, lose, CloseConn
<1>1. TypeOK'
  BY EmptyDatabaseOK, OpTypes DEF TypeOK, RequestInv, RequestFacts, PcStates, ProcStates, Holding, NoTx, Transactions
<1>2. SessionIsLock'
  BY NoProcAssumption DEF TypeOK, SessionIsLock
<1>3. TxInv'
  BY DEF TypeOK, TxInv, TxBelongs, RequestInv, RequestFacts, OneHolder, SessionIsLock, InTx, Holding, NoTx, Uncommitted, Abandoned
<1>4. RequestInv'
  BY NoProcAssumption DEF TypeOK, TxInv, TxBelongs, RequestInv, RequestFacts, OneHolder, InTx, Holding, NoTx, Uncommitted, Abandoned, Up
<1>5. OneHolder'
  BY NoProcAssumption DEF TypeOK, RequestInv, RequestFacts, OneHolder, InTx, Holding, Up
<1> QED BY <1>1, <1>2, <1>3, <1>4, <1>5

(* VerifyTxFailed answers a request whose transaction is not committed.    *)
LEMMA VerifyTxFailedFenced ==
    ASSUME Fenced, NEW r \in Requests, VerifyTxFailed(r)
    PROVE  Fenced'
<1> USE DEF Fenced, VerifyTxFailed, dbVars, procVars, reqVars, Goto, Answer, lose, CloseConn
<1>1. TypeOK'
  BY EmptyDatabaseOK, OpTypes DEF TypeOK, RequestInv, RequestFacts, PcStates, ProcStates, Holding, NoTx, Transactions
<1>2. SessionIsLock'
  BY NoProcAssumption DEF TypeOK, SessionIsLock
<1>3. TxInv'
  BY DEF TypeOK, TxInv, TxBelongs, RequestInv, RequestFacts, OneHolder, SessionIsLock, InTx, Holding, NoTx, Uncommitted, Abandoned
<1>4. RequestInv'
  BY NoProcAssumption DEF TypeOK, TxInv, TxBelongs, RequestInv, RequestFacts, OneHolder, InTx, Holding, NoTx, Uncommitted, Abandoned, Up
<1>5. OneHolder'
  BY NoProcAssumption DEF TypeOK, RequestInv, RequestFacts, OneHolder, InTx, Holding, Up
<1> QED BY <1>1, <1>2, <1>3, <1>4, <1>5

(* SendCommit hands a current effect to the server.                        *)
LEMMA SendCommitFenced ==
    ASSUME Fenced, NEW r \in Requests, SendCommit(r)
    PROVE  Fenced'
<1> USE DEF Fenced, SendCommit, dbVars, procVars, reqVars, Goto, Answer, lose, CloseConn, SessionUsable
<1>1. TypeOK'
  <2>1. at[r] \in Procs /\ tx[at[r]] \in Transactions
    BY DEF TypeOK, RequestInv, RequestFacts
  <2>2. [tx[at[r]] EXCEPT !.status = "committing"] \in Transactions
    BY <2>1 DEF Transactions
  <2>3. tx' \in [Procs -> Transactions]
    BY <2>2 DEF TypeOK
  <2>4. pc' \in [Requests -> PcStates]
    BY DEF TypeOK, PcStates, Holding
  <2> QED BY <2>3, <2>4 DEF TypeOK
<1>2. SessionIsLock'
  BY NoProcAssumption DEF TypeOK, SessionIsLock
<1>3. TxInv'
  BY DEF TypeOK, TxInv, TxBelongs, RequestInv, RequestFacts, OneHolder, SessionIsLock, InTx, Holding, NoTx, Uncommitted, Abandoned
<1>4. RequestInv'
  BY NoProcAssumption DEF TypeOK, TxInv, TxBelongs, RequestInv, RequestFacts, OneHolder, InTx, Holding, NoTx, Uncommitted, Abandoned, Up
<1>5. OneHolder'
  BY NoProcAssumption DEF TypeOK, RequestInv, RequestFacts, OneHolder, InTx, Holding, Up
<1> QED BY <1>1, <1>2, <1>3, <1>4, <1>5

(* CommitRefused answers a request whose COMMIT was never sent.            *)
LEMMA CommitRefusedFenced ==
    ASSUME Fenced, NEW r \in Requests, CommitRefused(r)
    PROVE  Fenced'
<1> USE DEF Fenced, CommitRefused, dbVars, procVars, reqVars, Goto, Answer, lose, CloseConn
<1>1. TypeOK'
  BY EmptyDatabaseOK, OpTypes DEF TypeOK, RequestInv, RequestFacts, PcStates, ProcStates, Holding, NoTx, Transactions
<1>2. SessionIsLock'
  BY NoProcAssumption DEF TypeOK, SessionIsLock
<1>3. TxInv'
  BY DEF TypeOK, TxInv, TxBelongs, RequestInv, RequestFacts, OneHolder, SessionIsLock, InTx, Holding, NoTx, Uncommitted, Abandoned
<1>4. RequestInv'
  BY NoProcAssumption DEF TypeOK, TxInv, TxBelongs, RequestInv, RequestFacts, OneHolder, InTx, Holding, NoTx, Uncommitted, Abandoned, Up
<1>5. OneHolder'
  BY NoProcAssumption DEF TypeOK, RequestInv, RequestFacts, OneHolder, InTx, Holding, Up
<1> QED BY <1>1, <1>2, <1>3, <1>4, <1>5

(* CommitAcked answers ok to a request that is in committed, by TxInv.     *)
LEMMA CommitAckedFenced ==
    ASSUME Fenced, NEW r \in Requests, CommitAcked(r)
    PROVE  Fenced'
<1> USE DEF Fenced, CommitAcked, dbVars, procVars, reqVars, Goto, Answer, lose, CloseConn
<1>1. TypeOK'
  BY EmptyDatabaseOK, OpTypes DEF TypeOK, RequestInv, RequestFacts, PcStates, ProcStates, Holding, NoTx, Transactions
<1>2. SessionIsLock'
  BY NoProcAssumption DEF TypeOK, SessionIsLock
<1>3. TxInv'
  BY DEF TypeOK, TxInv, TxBelongs, RequestInv, RequestFacts, OneHolder, SessionIsLock, InTx, Holding, NoTx, Uncommitted, Abandoned
<1>4. RequestInv'
  BY NoProcAssumption DEF TypeOK, TxInv, TxBelongs, RequestInv, RequestFacts, OneHolder, InTx, Holding, NoTx, Uncommitted, Abandoned, Up
<1>5. OneHolder'
  BY NoProcAssumption DEF TypeOK, RequestInv, RequestFacts, OneHolder, InTx, Holding, Up
<1> QED BY <1>1, <1>2, <1>3, <1>4, <1>5

(* CommitUnknown stops waiting and loses the process: a COMMIT it leaves   *)
(* behind is the last one of its session.                                  *)
LEMMA CommitUnknownFenced ==
    ASSUME Fenced, NEW r \in Requests, CommitUnknown(r)
    PROVE  Fenced'
<1> USE DEF Fenced, CommitUnknown, dbVars, procVars, reqVars, Goto, Answer, lose, CloseConn, SessionUsable
<1>1. TypeOK'
  BY EmptyDatabaseOK, OpTypes DEF TypeOK, RequestInv, RequestFacts, PcStates, ProcStates, Holding, NoTx, Transactions
<1>2. SessionIsLock'
  BY NoProcAssumption DEF TypeOK, SessionIsLock
<1>3. TxInv'
  BY DEF TypeOK, TxInv, TxBelongs, RequestInv, RequestFacts, OneHolder, SessionIsLock, InTx, Holding, NoTx, Uncommitted, Abandoned
<1>4. RequestInv'
  BY NoProcAssumption DEF TypeOK, TxInv, TxBelongs, RequestInv, RequestFacts, OneHolder, InTx, Holding, NoTx, Uncommitted, Abandoned, Up
<1>5. OneHolder'
  BY NoProcAssumption DEF TypeOK, RequestInv, RequestFacts, OneHolder, InTx, Holding, Up
<1> QED BY <1>1, <1>2, <1>3, <1>4, <1>5

(* Rollback removes the transaction of the holder.                         *)
LEMMA RollbackFenced ==
    ASSUME Fenced, NEW r \in Requests, Rollback(r)
    PROVE  Fenced'
<1> USE DEF Fenced, Rollback, dbVars, procVars, reqVars, Goto, Answer, lose, CloseConn
<1>1. TypeOK'
  BY EmptyDatabaseOK, OpTypes DEF TypeOK, RequestInv, RequestFacts, PcStates, ProcStates, Holding, NoTx, Transactions
<1>2. SessionIsLock'
  BY NoProcAssumption DEF TypeOK, SessionIsLock
<1>3. TxInv'
  BY DEF TypeOK, TxInv, TxBelongs, RequestInv, RequestFacts, OneHolder, SessionIsLock, InTx, Holding, NoTx, Uncommitted, Abandoned
<1>4. RequestInv'
  BY NoProcAssumption DEF TypeOK, TxInv, TxBelongs, RequestInv, RequestFacts, OneHolder, InTx, Holding, NoTx, Uncommitted, Abandoned, Up
<1>5. OneHolder'
  BY NoProcAssumption DEF TypeOK, RequestInv, RequestFacts, OneHolder, InTx, Holding, Up
<1> QED BY <1>1, <1>2, <1>3, <1>4, <1>5

(* PutSem returns the token of its only holder.                            *)
LEMMA PutSemFenced ==
    ASSUME Fenced, NEW r \in Requests, PutSem(r)
    PROVE  Fenced'
<1> USE DEF Fenced, PutSem, dbVars, procVars, reqVars, Goto, Answer, lose, CloseConn
<1>1. TypeOK'
  BY EmptyDatabaseOK, OpTypes DEF TypeOK, RequestInv, RequestFacts, PcStates, ProcStates, Holding, NoTx, Transactions
<1>2. SessionIsLock'
  BY NoProcAssumption DEF TypeOK, SessionIsLock
<1>3. TxInv'
  BY DEF TypeOK, TxInv, TxBelongs, RequestInv, RequestFacts, OneHolder, SessionIsLock, InTx, Holding, NoTx, Uncommitted, Abandoned
<1>4. RequestInv'
  BY NoProcAssumption DEF TypeOK, TxInv, TxBelongs, RequestInv, RequestFacts, OneHolder, InTx, Holding, NoTx, Uncommitted, Abandoned, Up
<1>5. OneHolder'
  BY NoProcAssumption DEF TypeOK, RequestInv, RequestFacts, OneHolder, InTx, Holding, Up
<1> QED BY <1>1, <1>2, <1>3, <1>4, <1>5

(* CheckLost acts on the client's side only.                               *)
LEMMA CheckLostFenced ==
    ASSUME Fenced, NEW r \in Requests, CheckLost(r)
    PROVE  Fenced'
<1> USE DEF Fenced, CheckLost, dbVars, procVars, reqVars, Goto, Answer, lose, CloseConn
<1>1. TypeOK'
  <2>1. CASE lost[at[r]] /\ conn[at[r]] = "open"
    BY <2>1 DEF TypeOK, PcStates
  <2>2. CASE ~(lost[at[r]] /\ conn[at[r]] = "open")
    BY <2>2 DEF TypeOK, PcStates
  <2> QED BY <2>1, <2>2
<1>2. SessionIsLock'
  BY NoProcAssumption DEF TypeOK, SessionIsLock
<1>3. TxInv'
  BY DEF TypeOK, TxInv, TxBelongs, RequestInv, RequestFacts, OneHolder, SessionIsLock, InTx, Holding, NoTx, Uncommitted, Abandoned
<1>4. RequestInv'
  BY NoProcAssumption DEF TypeOK, TxInv, TxBelongs, RequestInv, RequestFacts, OneHolder, InTx, Holding, NoTx, Uncommitted, Abandoned, Up
<1>5. OneHolder'
  BY NoProcAssumption DEF TypeOK, RequestInv, RequestFacts, OneHolder, InTx, Holding, Up
<1> QED BY <1>1, <1>2, <1>3, <1>4, <1>5

(* Discard acts on the client's side only.                                 *)
LEMMA DiscardFenced ==
    ASSUME Fenced, NEW r \in Requests, Discard(r)
    PROVE  Fenced'
<1> USE DEF Fenced, Discard, dbVars, procVars, reqVars, Goto, Answer, lose, CloseConn
<1>1. TypeOK'
  BY EmptyDatabaseOK, OpTypes DEF TypeOK, RequestInv, RequestFacts, PcStates, ProcStates, Holding, NoTx, Transactions
<1>2. SessionIsLock'
  BY NoProcAssumption DEF TypeOK, SessionIsLock
<1>3. TxInv'
  BY DEF TypeOK, TxInv, TxBelongs, RequestInv, RequestFacts, OneHolder, SessionIsLock, InTx, Holding, NoTx, Uncommitted, Abandoned
<1>4. RequestInv'
  BY NoProcAssumption DEF TypeOK, TxInv, TxBelongs, RequestInv, RequestFacts, OneHolder, InTx, Holding, NoTx, Uncommitted, Abandoned, Up
<1>5. OneHolder'
  BY NoProcAssumption DEF TypeOK, RequestInv, RequestFacts, OneHolder, InTx, Holding, Up
<1> QED BY <1>1, <1>2, <1>3, <1>4, <1>5

(* Enter gives the request its process and its operation.                  *)
LEMMA EnterFenced ==
    ASSUME Fenced, NEW r \in Requests, NEW p \in Procs, NEW o \in Ops, Enter(r, p, o)
    PROVE  Fenced'
<1> USE DEF Fenced, Enter, dbVars, procVars, reqVars, Goto, Answer, lose, CloseConn
<1>1. TypeOK'
  <2>1. at' \in [Requests -> Procs \cup {NoProc}] /\ op' \in [Requests -> Ops \cup {NoOp}]
    BY DEF TypeOK
  <2>2. pc' \in [Requests -> PcStates] /\ resp' \in [Requests -> {"none", "ok", "rejected", "unavailable"}]
    BY DEF TypeOK, PcStates
  <2> QED BY <2>1, <2>2 DEF TypeOK
<1>2. SessionIsLock'
  BY NoProcAssumption DEF TypeOK, SessionIsLock
<1>3. TxInv'
  BY DEF TypeOK, TxInv, TxBelongs, RequestInv, RequestFacts, OneHolder, SessionIsLock, InTx, Holding, NoTx, Uncommitted, Abandoned
<1>4. RequestInv'
  BY NoProcAssumption DEF TypeOK, TxInv, TxBelongs, RequestInv, RequestFacts, OneHolder, InTx, Holding, NoTx, Uncommitted, Abandoned, Up
<1>5. OneHolder'
  BY NoProcAssumption DEF TypeOK, RequestInv, RequestFacts, OneHolder, InTx, Holding, Up
<1> QED BY <1>1, <1>2, <1>3, <1>4, <1>5

(* The initial states satisfy the invariant.                               *)
LEMMA InitFenced == Init => Fenced
<1> SUFFICES ASSUME Init PROVE Fenced
  OBVIOUS
<1>1. TypeOK
  BY EmptyDatabaseOK DEF Init, TypeOK, Transactions, NoTx, PcStates, ProcStates
<1>2. SessionIsLock
  BY NoProcAssumption DEF Init, SessionIsLock
<1>3. TxInv
  BY DEF Init, TxInv, NoTx
<1>4. RequestInv
  BY DEF Init, RequestInv, RequestFacts, InTx
<1>5. OneHolder
  BY DEF Init, OneHolder, Holding, Up
<1> QED BY <1>1, <1>2, <1>3, <1>4, <1>5 DEF Fenced

(* A stuttering step preserves it.                                         *)
LEMMA StutterFenced == Fenced /\ UNCHANGED vars => Fenced'
<1> SUFFICES ASSUME Fenced, UNCHANGED vars PROVE Fenced'
  OBVIOUS
<1> USE DEF vars
<1>1. TypeOK' /\ SessionIsLock'
  BY DEF Fenced, TypeOK, SessionIsLock
<1>2. TxInv'
  BY DEF Fenced, TxInv, TxBelongs
<1>3. RequestInv'
  BY DEF Fenced, RequestInv, RequestFacts
<1>4. OneHolder'
  BY DEF Fenced, OneHolder
<1> QED BY <1>1, <1>2, <1>3, <1>4 DEF Fenced

(* Every step preserves it.                                                *)
LEMMA NextFenced == Fenced /\ [Next]_vars => Fenced'
<1> SUFFICES ASSUME Fenced, [Next]_vars PROVE Fenced'
  OBVIOUS
<1>1. ASSUME NEW p \in Procs, ProcStep(p) PROVE Fenced'
  BY <1>1, AcquireLockFenced, AcquireRefusedFenced, InstallOwnerFenced, InstallRefusedFenced,
     PreloadFenced, PreloadFailedFenced, ReleaseBeginFenced, ReleaseDiscardFenced,
     ReleaseTimeoutFenced, ExitFenced DEF ProcStep
<1>2. ASSUME NEW p \in Procs, DbStep(p) PROVE Fenced'
  BY <1>2, SessionEndFenced, DbCommitFenced DEF DbStep
<1>3. ASSUME NEW r \in Requests, Serve(r) PROVE Fenced'
  BY <1>3, SelectInactiveFenced, SelectTokenFenced, VerifyFenced, VerifyFailedFenced,
     BeginTxFenced, BeginTxFailedFenced, RunHandlerFenced, HandlerRejectsFenced,
     VerifyTxFenced, VerifyTxFailedFenced, SendCommitFenced, CommitRefusedFenced,
     CommitAckedFenced, CommitUnknownFenced, RollbackFenced, PutSemFenced,
     CheckLostFenced, DiscardFenced DEF Serve
<1>4. CASE Next
  BY <1>1, <1>2, <1>3, <1>4, CancelFenced, EnterFenced DEF Next
<1>5. CASE UNCHANGED vars
  BY <1>5, StutterFenced
<1> QED BY <1>4, <1>5

(* The invariant holds in every reachable state, for any number of         *)
(* processes and requests.                                                 *)
THEOREM FencingInvariant == Spec => []Fenced
<1>1. Init => Fenced
  BY InitFenced
<1>2. Fenced /\ [Next]_vars => Fenced'
  BY NextFenced
<1> QED BY <1>1, <1>2, PTL DEF Spec

(* Type correctness of the owner's state: TypeOK is a part of Fenced.      *)
THEOREM TypeCorrect == Spec => []TypeOK
<1>1. Fenced => TypeOK
  BY DEF Fenced
<1> QED BY <1>1, FencingInvariant, PTL

(* Fencing: a transaction exists only on the session that holds the lock.  *)
THEOREM OnlyOwnerWritesAlways == Spec => []OnlyOwnerWrites
<1>1. Fenced => OnlyOwnerWrites
  BY DEF Fenced, SessionIsLock, TxInv, TxBelongs, OnlyOwnerWrites, Owns
<1> QED BY <1>1, FencingInvariant, PTL

(* No lost update and no stale read: what WithConfigTransaction is about   *)
(* to commit, or has left to the server, is still the handler's effect on  *)
(* the committed tables.                                                   *)
THEOREM WorkIsCurrentAlways == Spec => []WorkIsCurrent
<1>1. Fenced => WorkIsCurrent
  <2> SUFFICES ASSUME Fenced PROVE WorkIsCurrent
    OBVIOUS
  <2>1. ASSUME NEW r \in Requests, pc[r] \in {"verifyTx", "commit"}, tx[at[r]].status = "open"
        PROVE  tx[at[r]].work = Apply(db, op[r])
    <3>1. at[r] \in Procs /\ tx[at[r]].req = r
      BY <2>1 DEF Fenced, RequestInv, RequestFacts, InTx
    <3>2. TxBelongs(at[r])
      BY <2>1, <3>1 DEF Fenced, TxInv
    <3> QED BY <2>1, <3>1, <3>2 DEF TxBelongs
  <2>2. ASSUME NEW p \in Procs, tx[p].status = "committing"
        PROVE  tx[p].work = Apply(db, op[tx[p].req])
    <3>1. TxBelongs(p)
      BY <2>2 DEF Fenced, TxInv
    <3> QED BY <2>2, <3>1 DEF TxBelongs
  <2> QED BY <2>1, <2>2 DEF WorkIsCurrent
<1> QED BY <1>1, FencingInvariant, PTL

(* configOwner.sem: the token is neither lost nor doubled, on every path   *)
(* through WithConfigTransaction and ReleaseConfigOwnership.               *)
THEOREM TokenConservedAlways == Spec => []TokenConserved
<1>1. Fenced => TokenConserved
  BY DEF Fenced, OneHolder, TokenConserved
<1> QED BY <1>1, FencingInvariant, PTL

(* The committed tables agree with one another: only complete handlers are *)
(* committed, each on the tables it read.                                  *)
THEOREM TablesAgreeAlways == Spec => []TablesAgree
<1>1. Init => TablesAgree
  BY EmptyDatabaseOK DEF Init, TablesAgree
<1>2. TablesAgree /\ Fenced /\ [Next]_vars => TablesAgree'
  <2> SUFFICES ASSUME TablesAgree, Fenced, [Next]_vars PROVE TablesAgree'
    OBVIOUS
  <2>1. CASE \E p \in Procs : DbCommit(p)
    <3>1. PICK p \in Procs : DbCommit(p)
      BY <2>1
    <3>2. TxBelongs(p) /\ tx[p].status = "committing"
      BY <3>1 DEF DbCommit, Fenced, TxInv
    <3>3. db' = Apply(db, op[tx[p].req]) /\ op[tx[p].req] \in Operations
      BY <3>1, <3>2, OpsAssumption DEF DbCommit, TxBelongs
    <3>4. db \in Databases
      BY DEF Fenced, TypeOK
    <3> QED BY <3>3, <3>4, ApplyKeepsTablesAgreeing DEF TablesAgree
  <2>2. CASE ~\E p \in Procs : DbCommit(p)
    <3>1. db' = db
      BY <2>2 DEF Next, ProcStep, DbStep, Serve, vars, dbVars,
         AcquireLock, AcquireRefused, InstallOwner, InstallRefused, Preload, PreloadFailed,
         ReleaseBegin, ReleaseDiscard, ReleaseTimeout, Exit, SessionEnd, Cancel, Enter,
         SelectInactive, SelectToken, Verify, VerifyFailed, BeginTx, BeginTxFailed, RunHandler,
         HandlerRejects, VerifyTx, VerifyTxFailed, SendCommit, CommitRefused, CommitAcked,
         CommitUnknown, Rollback, PutSem, CheckLost, Discard
    <3> QED BY <3>1 DEF TablesAgree
  <2> QED BY <2>1, <2>2
<1> QED BY <1>1, <1>2, FencingInvariant, PTL DEF Spec

-----------------------------------------------------------------------------
(***************************************************************************)
(* ConfigOwner implements SingleActive: every step of the sessions,        *)
(* transactions, semaphores and processes is a step the clients may see,   *)
(* or one they cannot.  The mapping is the one of ConfigOwner!Abstract:    *)
(* the owner is the holder of the advisory lock, a process is retired once *)
(* its session has ended, a request takes effect when the database server  *)
(* executes its COMMIT, which may be after its 503 but not after another   *)
(* process has taken over.                                                 *)
(***************************************************************************)

(* Initial states map to initial states. *)
LEMMA InitRefines == Init => Abstract!Init
BY DEF Init, Abstract!Init

(* A step that leaves the mapped variables alone is a stutter. *)
LEMMA Stutter ==
    ASSUME UNCHANGED <<db, lock, sess, committed, at, op, resp>>
    PROVE  UNCHANGED Abstract!vars
BY DEF Abstract!vars

(* An answer given to a request that had none. *)
LEMMA AnswerRefines ==
    ASSUME Fenced, NEW r \in Requests, NEW a \in {"ok", "rejected", "unavailable"},
           at[r] \in Procs, resp[r] = "none", Answer(r, a),
           a = "ok" => r \in committed,
           a = "rejected" => r \notin committed,
           UNCHANGED <<db, lock, sess, committed, at, op>>
    PROVE  Abstract!Next
<1>1. Abstract!Respond(r, a)
  BY NoProcAssumption DEF Answer, Abstract!Respond
<1> QED BY <1>1 DEF Abstract!Next

(* The processes: only AcquireLock is visible. *)
LEMMA ProcRefines ==
    ASSUME Fenced, NEW p \in Procs, ProcStep(p)
    PROVE  [Abstract!Next]_Abstract!vars
<1>1. CASE AcquireLock(p)
  <2>1. sess[p] = "none"
    BY <1>1 DEF AcquireLock, Fenced, SessionIsLock
  <2>2. { q \in Procs : sess[q] = "ended" }' = { q \in Procs : sess[q] = "ended" }
    BY <1>1, <2>1 DEF AcquireLock, Fenced, TypeOK
  <2>3. Abstract!Acquire(p)
    BY <1>1, <2>1, <2>2 DEF AcquireLock, Abstract!Acquire, reqVars
  <2> QED BY <2>3 DEF Abstract!Next
<1>2. CASE ~AcquireLock(p)
  <2>1. UNCHANGED <<db, lock, sess, committed, at, op, resp>>
    BY <1>2 DEF ProcStep, dbVars, reqVars, AcquireRefused, InstallOwner, InstallRefused,
       Preload, PreloadFailed, ReleaseBegin, ReleaseDiscard, ReleaseTimeout, Exit
  <2> QED BY <2>1, Stutter
<1> QED BY <1>1, <1>2

(* The database server: the end of the session retires the owner, and a    *)
(* COMMIT is the instant a request takes effect.                           *)
LEMMA DbRefines ==
    ASSUME Fenced, NEW p \in Procs, DbStep(p)
    PROVE  Abstract!Next
<1>1. CASE SessionEnd(p)
  <2>1. lock = p
    BY <1>1 DEF SessionEnd, Fenced, SessionIsLock
  <2>2. { q \in Procs : sess[q] = "ended" }' = { q \in Procs : sess[q] = "ended" } \cup {p}
    BY <1>1 DEF SessionEnd, Fenced, TypeOK
  <2>3. Abstract!Retire(p)
    BY <1>1, <2>1, <2>2 DEF SessionEnd, Abstract!Retire, reqVars
  <2> QED BY <2>3 DEF Abstract!Next
<1>2. CASE DbCommit(p)
  <2> DEFINE r == tx[p].req
  <2>1. tx[p].status = "committing" /\ TxBelongs(p)
    BY <1>2 DEF DbCommit, Fenced, TxInv
  <2>2. /\ r \in Requests /\ at[r] = p /\ r \notin committed
        /\ resp[r] \in {"none", "unavailable"}
    BY <2>1 DEF TxBelongs
  <2>3. db' = Apply(db, op[r])
    BY <1>2, <2>1 DEF DbCommit, TxBelongs
  <2>4. lock # NoProc /\ lock = at[r]
    BY <2>1, <2>2, NoProcAssumption DEF TxBelongs, Fenced, SessionIsLock
  <2>5. Abstract!Commit(r)
    BY <1>2, <2>2, <2>3, <2>4 DEF DbCommit, Abstract!Commit, reqVars
  <2> QED BY <2>2, <2>5 DEF Abstract!Next
<1> QED BY <1>1, <1>2 DEF DbStep

(* The request: only its answer is visible. *)
LEMMA ServeRefines ==
    ASSUME Fenced, NEW r \in Requests, Serve(r)
    PROVE  [Abstract!Next]_Abstract!vars
<1>1. CASE \/ SelectInactive(r) \/ VerifyFailed(r) \/ BeginTxFailed(r)
           \/ VerifyTxFailed(r) \/ CommitRefused(r) \/ CommitUnknown(r)
  <2>1. at[r] \in Procs /\ resp[r] = "none" /\ Answer(r, "unavailable")
    BY <1>1 DEF SelectInactive, VerifyFailed, BeginTxFailed, VerifyTxFailed, CommitRefused,
       CommitUnknown, Fenced, RequestInv, RequestFacts, Uncommitted
  <2>2. UNCHANGED <<db, lock, sess, committed, at, op>>
    BY <1>1 DEF SelectInactive, VerifyFailed, BeginTxFailed, VerifyTxFailed, CommitRefused,
       CommitUnknown, dbVars
  <2> QED BY <2>1, <2>2, AnswerRefines
<1>2. CASE HandlerRejects(r)
  <2>1. at[r] \in Procs /\ resp[r] = "none" /\ r \notin committed /\ Answer(r, "rejected")
    BY <1>2 DEF HandlerRejects, Fenced, RequestInv, RequestFacts, Uncommitted
  <2>2. UNCHANGED <<db, lock, sess, committed, at, op>>
    BY <1>2 DEF HandlerRejects
  <2> QED BY <2>1, <2>2, AnswerRefines
<1>3. CASE CommitAcked(r)
  <2>1. resp[r] = "none" /\ at[r] \in Procs /\ tx[at[r]].req = r /\ Answer(r, "ok")
    BY <1>3 DEF CommitAcked, Fenced, RequestInv, RequestFacts, InTx
  <2>2. r \in committed
    BY <1>3, <2>1 DEF CommitAcked, Fenced, TxInv, TxBelongs
  <2>3. UNCHANGED <<db, lock, sess, committed, at, op>>
    BY <1>3 DEF CommitAcked
  <2> QED BY <2>1, <2>2, <2>3, AnswerRefines
<1>4. CASE \/ SelectToken(r) \/ Verify(r) \/ BeginTx(r) \/ RunHandler(r) \/ VerifyTx(r)
           \/ SendCommit(r) \/ Rollback(r) \/ PutSem(r) \/ CheckLost(r) \/ Discard(r)
  <2>1. UNCHANGED <<db, lock, sess, committed, at, op, resp>>
    BY <1>4 DEF SelectToken, Verify, BeginTx, RunHandler, VerifyTx, SendCommit, Rollback,
       PutSem, CheckLost, Discard, dbVars
  <2> QED BY <2>1, Stutter
<1> QED BY <1>1, <1>2, <1>3, <1>4 DEF Serve

(* The two steps a client takes part in. *)
LEMMA ClientRefines ==
    ASSUME Fenced, NEW r \in Requests,
           Cancel(r) \/ \E p \in Procs, o \in Ops : Enter(r, p, o)
    PROVE  [Abstract!Next]_Abstract!vars
<1>1. CASE Cancel(r)
  <2>1. UNCHANGED <<db, lock, sess, committed, at, op, resp>>
    BY <1>1 DEF Cancel, dbVars
  <2> QED BY <2>1, Stutter
<1>2. ASSUME NEW p \in Procs, NEW o \in Ops, Enter(r, p, o)
      PROVE  Abstract!Next
  <2>1. at[r] = NoProc
    BY <1>2 DEF Enter, Fenced, RequestInv, RequestFacts
  <2>2. resp' \in {resp, [resp EXCEPT ![r] = "unavailable"]}
    BY <1>2 DEF Enter, Answer
  <2>3. UNCHANGED <<db, lock, sess, committed>>
    BY <1>2 DEF Enter, dbVars
  <2>4. Abstract!Receive(r, p, o)
    BY <1>2, <2>1, <2>2, <2>3 DEF Enter, Abstract!Receive
  <2> QED BY <2>4 DEF Abstract!Next
<1> QED BY <1>1, <1>2

(* The processes, however they interleave, crash, lose their sessions and  *)
(* shut down, act as one store with one owner at a time: ActsAsSingleActive*)
(* holds of every behaviour, for any number of processes and requests.     *)
THEOREM Refinement == Spec => ActsAsSingleActive
<1>1. Init => Abstract!Init
  BY InitRefines
<1>2. Fenced /\ [Next]_vars => [Abstract!Next]_Abstract!vars
  <2> SUFFICES ASSUME Fenced, [Next]_vars PROVE [Abstract!Next]_Abstract!vars
    OBVIOUS
  <2>1. CASE Next
    BY <2>1, ProcRefines, DbRefines, ServeRefines, ClientRefines DEF Next
  <2>2. CASE UNCHANGED vars
    BY <2>2, Stutter DEF vars
  <2> QED BY <2>1, <2>2
<1> QED BY <1>1, <1>2, FencingInvariant, PTL DEF Spec, ActsAsSingleActive, Abstract!Spec
=============================================================================
