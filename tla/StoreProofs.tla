---------------------------- MODULE StoreProofs ----------------------------
(* Proofs about modules FileStore and RestApi: records are whole at every  *)
(* moment and what one says of its creation never changes, reading turns   *)
(* is all or nothing, and a walk through a listing misses nothing.         *)
EXTENDS RestApi, FiniteSetTheorems, SequenceTheorems, TLAPS

\* A record that was written whole and carries the version it needs.
WholeRecord ==
  {r \in [file : {"whole"}, status : {"running", "ended"}, created : Nat,
          v2 : BOOLEAN, version : Versions] :
     r.version = IF r.v2 THEN 2 ELSE 0}

\* One that may take another's place: the same but for an end.
Follows(new, old) ==
  /\ new = [old EXCEPT !.status = new.status]
  /\ old.status = "ended" => new.status = "ended"

\* A write in progress: its content is whole, and replaces the record, which
\* nobody else writes while it holds the mutex, by one that follows it.
Writing ==
  /\ op = [do |-> op.do, id |-> op.id, rec |-> op.rec]
  /\ op.id \in Ids
  /\ op.rec \in WholeRecord
  /\ record[op.id] # Absent => Follows(op.rec, record[op.id])
  /\ op.do = "rename" => tmp = op.rec

StoreInv ==
  /\ record \in [Ids -> WholeRecord \cup {Absent}]
  /\ op.do \in {"none", "write", "rename", "append"}
  /\ op.do \in {"write", "rename"} => Writing

LEMMA AbsentIsNotWhole == Absent \notin WholeRecord
  BY DEF Absent, WholeRecord

\* The number of records, and so a creation time, is a natural number.
LEMMA NowIsNat == Now \in Nat
<1> DEFINE there == {id \in Ids : record[id] # Absent}
<1>1. IsFiniteSet(there)
  BY StoreAssumption, FS_Subset
<1>2. Cardinality(there) \in Nat
  BY <1>1, FS_CardinalityType
<1>3. QED
  BY <1>2 DEF Now

LEMMA StoreInit == Init => StoreInv
  BY DEF Init, StoreInv, NoOp

LEMMA StoreStep == StoreInv /\ [Next]_vars => StoreInv'
<1> SUFFICES ASSUME StoreInv, [Next]_vars PROVE StoreInv'
  OBVIOUS
<1> USE AbsentIsNotWhole
<1>1. ASSUME NEW id \in Ids, Create(id) PROVE StoreInv'
  <2> DEFINE fresh == [file |-> "whole", status |-> "running", created |-> Now,
                       v2 |-> kind = "conversation" /\ id \in V2Ids, version |-> 0]
  <2>1. /\ record[id] = Absent /\ UNCHANGED record
        /\ op' = [do |-> "write", id |-> id, rec |-> stampSchemaVersion(fresh)]
    BY <1>1 DEF Create, writeJSONAtomic
  <2>2. stampSchemaVersion(fresh) \in WholeRecord
    BY NowIsNat DEF stampSchemaVersion, WholeRecord, Versions
  <2>3. Writing'
    BY <2>1, <2>2 DEF Writing
  <2>4. QED
    BY <2>1, <2>3 DEF StoreInv
<1>2. ASSUME NEW id \in Ids, Update(id) PROVE StoreInv'
  <2>1. /\ record[id].file = "whole" /\ UNCHANGED record
        /\ op' = [do |-> "write", id |-> id, rec |-> Patched(record[id])]
    BY <1>2 DEF Update, writeJSONAtomic
  <2>2. record[id] \in WholeRecord
    BY <2>1 DEF StoreInv, Absent
  <2>3. Patched(record[id]) \in WholeRecord /\ Follows(Patched(record[id]), record[id])
    BY <2>2 DEF Patched, WholeRecord, Follows
  <2>4. Writing'
    BY <2>1, <2>3 DEF Writing
  <2>5. QED
    BY <2>1, <2>4 DEF StoreInv
<1>3. CASE WriteFileReturns
  <2>1. op.do = "write" /\ Writing
    BY <1>3 DEF WriteFileReturns, StoreInv
  <2>2. op' = [op EXCEPT !.do = "rename"] /\ tmp' = op.rec /\ UNCHANGED record
    BY <1>3 DEF WriteFileReturns
  <2>3. op'.do \in {"none", "write", "rename", "append"}
    BY <2>1, <2>2 DEF Writing
  <2>4. op' = [do |-> "rename", id |-> op.id, rec |-> op.rec]
    BY <2>1, <2>2 DEF Writing
  <2>5. Writing'
    BY <2>1, <2>2, <2>4 DEF Writing
  <2>6. QED
    BY <2>2, <2>3, <2>5 DEF StoreInv
<1>4. CASE Rename
  <2>1. op.do = "rename" /\ Writing /\ op' = NoOp /\ record' = [record EXCEPT ![op.id] = tmp]
    BY <1>4 DEF Rename, StoreInv
  <2>2. tmp \in WholeRecord
    BY <2>1 DEF Writing
  <2>3. QED
    BY <2>1, <2>2 DEF StoreInv, NoOp
<1>5. CASE WriteFileFails \/ RenameFails \/ AppendReturns \/ AppendFails \/ Crash
  <2>1. op' = NoOp /\ UNCHANGED record
    BY <1>5 DEF WriteFileFails, RenameFails, AppendReturns, AppendFails, Crash
  <2>2. QED
    BY <2>1 DEF StoreInv, NoOp
<1>6. ASSUME NEW id \in Talkers, NEW index \in 1 .. MaxTurns, AppendTurn(id, index) PROVE StoreInv'
  BY <1>6 DEF AppendTurn, StoreInv
<1>7. CASE UNCHANGED vars
  BY <1>7 DEF vars, StoreInv, Writing
<1>8. QED
  BY <1>1, <1>2, <1>3, <1>4, <1>5, <1>6, <1>7 DEF Next

\* For every set of records, whatever fails and whenever the writer dies, a
\* reader finds a record absent or whole and with its version
\* (writeJSONAtomic, stampSchemaVersion).
THEOREM StoreRecordIsWhole == Spec => []RecordIsWhole
<1>1. StoreInv => RecordIsWhole
  BY DEF StoreInv, RecordIsWhole, GetRecord, WholeRecord
<1>2. QED
  BY <1>1, StoreInit, StoreStep, PTL DEF Spec

\* No step removes a record, reopens it or changes what its creation stored
\* (UpdateSession, UpdateConversation, writeJSONAtomic).
THEOREM StoreRecordStays == Spec => RecordStays
<1> DEFINE Stays ==
      \A id \in Ids : record[id] # Absent =>
        /\ record'[id] = [record[id] EXCEPT !.status = record'[id].status]
        /\ record[id].status = "ended" => record'[id].status = "ended"
<1>1. ASSUME StoreInv, [Next]_vars PROVE [Stays]_vars
  <2> SUFFICES ASSUME NEW id \in Ids, record[id] # Absent
               PROVE  /\ record'[id] = [record[id] EXCEPT !.status = record'[id].status]
                      /\ record[id].status = "ended" => record'[id].status = "ended"
    OBVIOUS
  <2>1. record[id] \in WholeRecord
    BY <1>1 DEF StoreInv
  <2>2. CASE record'[id] = record[id]
    BY <2>1, <2>2 DEF WholeRecord
  <2>3. CASE Rename
    <3>1. op.do = "rename" /\ Writing /\ record' = [record EXCEPT ![op.id] = tmp]
      BY <1>1, <2>3 DEF Rename, StoreInv
    <3>2. CASE id = op.id
      <4>1. record'[id] = op.rec
        BY <1>1, <3>1, <3>2 DEF StoreInv, Writing
      <4>2. Follows(op.rec, record[id])
        BY <3>1, <3>2 DEF Writing
      <4>3. QED
        BY <4>1, <4>2 DEF Follows
    <3>3. CASE id # op.id
      BY <1>1, <2>2, <3>1, <3>3 DEF StoreInv
    <3>4. QED
      BY <3>2, <3>3
  <2>4. UNCHANGED record \/ Rename
    BY <1>1 DEF Next, vars, Create, Update, writeJSONAtomic, WriteFileReturns, WriteFileFails,
                RenameFails, AppendTurn, AppendReturns, AppendFails, Crash
  <2>5. QED
    BY <2>2, <2>3, <2>4
<1>2. QED
  BY <1>1, StoreInit, StoreStep, PTL DEF Spec, RecordStays

-----------------------------------------------------------------------------
\* Sorting.

\* The members of a finite set whose key is at most that of x: their number is
\* the place of x in the sorted sequence.
UpTo(S, key, x) == {y \in S : key[y] <= key[x]}

LEMMA UpToCounts ==
  ASSUME NEW S, IsFiniteSet(S), NEW key \in [S -> Int], NEW x \in S
  PROVE  /\ IsFiniteSet(UpTo(S, key, x))
         /\ Cardinality(UpTo(S, key, x)) \in 1 .. Cardinality(S)
<1>1. UpTo(S, key, x) \in SUBSET S /\ x \in UpTo(S, key, x)
  BY DEF UpTo
<1>2. /\ IsFiniteSet(UpTo(S, key, x))
      /\ Cardinality(UpTo(S, key, x)) <= Cardinality(S)
  BY <1>1, FS_Subset
<1>3. Cardinality(UpTo(S, key, x)) # 0
  BY <1>1, <1>2, FS_EmptySet
<1>4. Cardinality(UpTo(S, key, x)) \in Nat /\ Cardinality(S) \in Nat
  BY <1>2, FS_CardinalityType
<1>5. QED
  BY <1>2, <1>3, <1>4

\* A smaller key has fewer below it.
LEMMA UpToGrows ==
  ASSUME NEW S, IsFiniteSet(S), NEW key \in [S -> Int], NEW x \in S, NEW y \in S, key[x] < key[y]
  PROVE  Cardinality(UpTo(S, key, x)) < Cardinality(UpTo(S, key, y))
<1> DEFINE a == UpTo(S, key, x)
           b == UpTo(S, key, y)
<1>1. a \in SUBSET b /\ y \in b /\ y \notin a
  BY DEF UpTo
<1>2. IsFiniteSet(a) /\ IsFiniteSet(b) /\ Cardinality(a) \in Int /\ Cardinality(b) \in Int
  BY UpToCounts, FS_CardinalityType
<1> HIDE DEF a, b
<1>3. Cardinality(a) <= Cardinality(b) /\ (Cardinality(b) = Cardinality(a) => b = a)
  BY <1>1, <1>2, FS_Subset
<1>4. Cardinality(a) < Cardinality(b)
  BY <1>1, <1>2, <1>3
<1>5. QED
  BY <1>4 DEF a, b

\* What sort.Slice returns: every member once, in the order of the keys.
LEMMA SortedSorts ==
  ASSUME NEW S, IsFiniteSet(S), NEW key \in [S -> Int],
         \A x, y \in S : key[x] = key[y] => x = y
  PROVE  /\ Cardinality(S) \in Nat
         /\ Sorted(S, key) \in [1 .. Cardinality(S) -> S]
         /\ \A i, j \in 1 .. Cardinality(S) : i < j => key[Sorted(S, key)[i]] < key[Sorted(S, key)[j]]
         /\ \A x \in S : \E i \in 1 .. Cardinality(S) : Sorted(S, key)[i] = x
<1> DEFINE n == Cardinality(S)
           rank == [x \in S |-> Cardinality(UpTo(S, key, x))]
           Ascends(s) == \A i, j \in 1 .. n : i < j => key[s[i]] < key[s[j]]
<1>1. n \in Nat /\ IsFiniteSet(1 .. n) /\ Cardinality(1 .. n) = n
  <2>1. n \in Nat
    BY FS_CardinalityType
  <2>2. QED
    BY <2>1, FS_Interval
<1>2. rank \in [S -> 1 .. n] /\ \A x \in S : rank[x] = Cardinality(UpTo(S, key, x))
  BY UpToCounts
<1>3. \A x, y \in S : key[x] < key[y] => rank[x] < rank[y]
  BY <1>2, UpToGrows
<1> HIDE DEF rank, n
<1>4. \A x, y \in S : rank[x] = rank[y] => x = y
  <2> SUFFICES ASSUME NEW x \in S, NEW y \in S, rank[x] = rank[y] PROVE x = y
    OBVIOUS
  <2>1. key[x] \in Int /\ key[y] \in Int /\ rank[x] \in Int /\ rank[y] \in Int
    BY <1>1, <1>2
  <2>2. ~(key[x] < key[y]) /\ ~(key[y] < key[x])
    BY <1>3, <2>1
  <2>3. QED
    BY <2>1, <2>2
<1>5. rank \in Injection(S, 1 .. n)
  BY <1>2, <1>4 DEF Injection, IsInjective
<1>6. rank \in Surjection(S, 1 .. n)
  BY <1>1, <1>5, FS_Injection DEF n
<1>7. \A i \in 1 .. n : \E x \in S : rank[x] = i
  BY <1>6 DEF Surjection
<1> DEFINE inv == [i \in 1 .. n |-> CHOOSE x \in S : rank[x] = i]
<1>8. inv \in [1 .. n -> S] /\ \A i \in 1 .. n : rank[inv[i]] = i
  BY <1>7
<1> HIDE DEF inv
<1>9. Ascends(inv)
  <2> SUFFICES ASSUME NEW i \in 1 .. n, NEW j \in 1 .. n, i < j PROVE key[inv[i]] < key[inv[j]]
    OBVIOUS
  <2>1. inv[i] \in S /\ inv[j] \in S /\ rank[inv[i]] = i /\ rank[inv[j]] = j
    BY <1>8
  <2>2. key[inv[i]] \in Int /\ key[inv[j]] \in Int /\ i \in Int /\ j \in Int
    BY <1>1, <2>1
  <2>3. key[inv[i]] # key[inv[j]]
    BY <2>1, <2>2
  <2>4. ~(key[inv[j]] < key[inv[i]])
    BY <1>3, <2>1, <2>2
  <2>5. QED
    BY <2>2, <2>3, <2>4
<1> DEFINE s == Sorted(S, key)
<1>10. s = CHOOSE t \in [1 .. n -> S] : Ascends(t)
  BY DEF Sorted, n
<1>11. s \in [1 .. n -> S] /\ Ascends(s)
  BY <1>8, <1>9, <1>10
<1> HIDE DEF s
<1>12. \A i, j \in 1 .. n : s[i] = s[j] => i = j
  <2> SUFFICES ASSUME NEW i \in 1 .. n, NEW j \in 1 .. n, s[i] = s[j] PROVE i = j
    OBVIOUS
  <2>1. key[s[i]] \in Int /\ key[s[j]] = key[s[i]]
    BY <1>11
  <2>2. ~(i < j) /\ ~(j < i)
    BY <1>11, <2>1
  <2>3. QED
    BY <1>1, <2>2
<1>13. s \in Injection(1 .. n, S)
  BY <1>11, <1>12 DEF Injection, IsInjective
<1>14. s \in Surjection(1 .. n, S)
  BY <1>1, <1>13, FS_Injection DEF n
<1>15. \A x \in S : \E i \in 1 .. n : s[i] = x
  BY <1>14 DEF Surjection
<1>16. QED
  BY <1>1, <1>11, <1>15 DEF s, n

-----------------------------------------------------------------------------
\* A walk through a listing.

Present == {id \in Ids : record[id] # Absent}

\* The records were created at different times, all of them past; a record that
\* is being created gets the present one.
BirthInv ==
  /\ \A id \in Present : record[id].created \in 1 .. Now - 1
  /\ \A id, jd \in Present : record[id].created = record[jd].created => id = jd
  /\ op.do \in {"write", "rename"} /\ record[op.id] = Absent => op.rec.created = Now

LEMMA PresentIsFinite == IsFiniteSet(Present) /\ Cardinality(Present) \in Nat
<1>1. IsFiniteSet(Present)
  BY StoreAssumption, FS_Subset DEF Present
<1>2. QED
  BY <1>1, FS_CardinalityType

LEMMA BirthInit == Init => BirthInv
  BY DEF Init, BirthInv, Present, NoOp

\* A step that leaves the records alone, and begins no creation.
LEMMA BirthKept ==
  ASSUME BirthInv, UNCHANGED record,
         op'.do \in {"write", "rename"} =>
            /\ op.do \in {"write", "rename"}
            /\ op'.id = op.id /\ op'.rec = op.rec
  PROVE  BirthInv'
<1>1. Present' = Present /\ Now' = Now
  BY DEF Present, Now
<1>2. QED
  BY <1>1 DEF BirthInv

LEMMA BirthStep == StoreInv /\ BirthInv /\ [Next]_vars => BirthInv'
<1> SUFFICES ASSUME StoreInv, BirthInv, [Next]_vars PROVE BirthInv'
  OBVIOUS
<1>0. ASSUME UNCHANGED record PROVE Present' = Present /\ Now' = Now
  BY <1>0 DEF Present, Now
<1>1. ASSUME NEW id \in Ids, Create(id) PROVE BirthInv'
  <2> DEFINE fresh == [file |-> "whole", status |-> "running", created |-> Now,
                       v2 |-> kind = "conversation" /\ id \in V2Ids, version |-> 0]
  <2>1. UNCHANGED record /\ op' = [do |-> "write", id |-> id, rec |-> stampSchemaVersion(fresh)]
    BY <1>1 DEF Create, writeJSONAtomic
  <2>2. stampSchemaVersion(fresh).created = Now
    BY DEF stampSchemaVersion
  <2> HIDE DEF fresh
  <2>3. op'.rec.created = Now
    BY <2>1, <2>2
  <2>4. QED
    BY <1>0, <2>1, <2>3 DEF BirthInv
<1>2. ASSUME NEW id \in Ids, Update(id) PROVE BirthInv'
  <2>1. /\ record[id].file = "whole" /\ UNCHANGED record
        /\ op' = [do |-> "write", id |-> id, rec |-> Patched(record[id])]
    BY <1>2 DEF Update, writeJSONAtomic
  <2>2. record[id] # Absent
    BY <2>1 DEF Absent
  <2>3. QED
    BY <1>0, <2>1, <2>2 DEF BirthInv
<1>3. CASE WriteFileReturns
  <2>1. /\ op.do = "write" /\ Writing /\ UNCHANGED record
        /\ op' = [op EXCEPT !.do = "rename"]
    BY <1>3 DEF WriteFileReturns, StoreInv
  <2>2. op' = [do |-> "rename", id |-> op.id, rec |-> op.rec]
    BY <2>1 DEF Writing
  <2>3. op'.id = op.id /\ op'.rec = op.rec
    BY <2>2
  <2>4. QED
    BY <2>1, <2>3, BirthKept
<1>4. CASE Rename
  <2>1. /\ op.do = "rename" /\ Writing /\ op' = NoOp
        /\ record' = [record EXCEPT ![op.id] = tmp]
        /\ tmp = op.rec /\ op.id \in Ids /\ op.rec \in WholeRecord
    BY <1>4 DEF Rename, StoreInv, Writing
  <2>2. op'.do = "none"
    BY <2>1 DEF NoOp
  <2>3. \A id \in Ids : record'[id] = IF id = op.id THEN op.rec ELSE record[id]
    BY <2>1 DEF StoreInv
  <2>4. op.rec # Absent
    BY <2>1, AbsentIsNotWhole
  <2>5. Present' = Present \cup {op.id}
    BY <2>1, <2>3, <2>4 DEF Present
  <2>6. CASE record[op.id] = Absent
    <3>1. op.id \notin Present /\ op.rec.created = Now
      BY <2>1, <2>6 DEF BirthInv, Present
    <3>2. Cardinality(Present') = Cardinality(Present) + 1
      BY <2>5, <3>1, PresentIsFinite, FS_AddElement
    <3>3. Now = 1 + Cardinality(Present) /\ Now' = 1 + Cardinality(Present')
      BY DEF Now, Present
    <3>4. Now \in Nat \ {0} /\ Now' = Now + 1
      BY <3>2, <3>3, PresentIsFinite
    <3>5. \A id \in Present' : record'[id].created \in 1 .. Now' - 1
      BY <2>3, <2>5, <3>1, <3>4 DEF BirthInv, Present
    <3>6. \A id, jd \in Present' : record'[id].created = record'[jd].created => id = jd
      BY <2>3, <2>5, <3>1, <3>4 DEF BirthInv, Present
    <3>7. QED
      BY <2>2, <3>5, <3>6 DEF BirthInv
  <2>7. CASE record[op.id] # Absent
    <3>1. Present' = Present /\ op.id \in Present
      BY <2>1, <2>5, <2>7 DEF Present
    <3>2. op.rec.created = record[op.id].created
      <4>1. Follows(op.rec, record[op.id]) /\ record[op.id] \in WholeRecord
        BY <2>1, <2>7 DEF Writing, StoreInv
      <4>2. QED
        BY <2>1, <4>1 DEF Follows, WholeRecord
    <3>3. \A id \in Present' : record'[id].created = record[id].created
      BY <2>3, <3>1, <3>2 DEF Present
    <3>4. Now' = Now
      BY <3>1 DEF Now, Present
    <3>5. QED
      BY <2>2, <3>1, <3>3, <3>4 DEF BirthInv
  <2>8. QED
    BY <2>6, <2>7
<1>5. CASE WriteFileFails \/ RenameFails \/ AppendReturns \/ AppendFails \/ Crash
  <2>1. op' = NoOp /\ UNCHANGED record
    BY <1>5 DEF WriteFileFails, RenameFails, AppendReturns, AppendFails, Crash
  <2>2. QED
    BY <2>1, BirthKept DEF NoOp
<1>6. ASSUME NEW id \in Talkers, NEW index \in 1 .. MaxTurns, AppendTurn(id, index) PROVE BirthInv'
  <2>1. UNCHANGED record /\ op'.do = "append"
    BY <1>6 DEF AppendTurn
  <2>2. QED
    BY <2>1, BirthKept
<1>7. CASE UNCHANGED vars
  BY <1>7, BirthKept DEF vars
<1>8. QED
  BY <1>1, <1>2, <1>3, <1>4, <1>5, <1>6, <1>7 DEF Next

\* The creation times of the records there are, and how many are as new as c:
\* the place of the record that was created at c in a listing.
Times == {record[id].created : id \in Present}
Rank(c) == Cardinality({t \in Times : t >= c})

LEMMA TimesAreFinite == BirthInv => Times \subseteq Nat /\ IsFiniteSet(Times)
<1> SUFFICES ASSUME BirthInv PROVE Times \subseteq Nat /\ IsFiniteSet(Times)
  OBVIOUS
<1>1. Cardinality(Present) \in Nat /\ Now = 1 + Cardinality(Present)
  BY PresentIsFinite DEF Now, Present
<1>2. Times \subseteq 1 .. Cardinality(Present)
  BY <1>1 DEF Times, BirthInv
<1>3. IsFiniteSet(1 .. Cardinality(Present))
  BY <1>1, FS_Interval
<1>4. IsFiniteSet(Times)
  BY <1>2, <1>3, FS_Subset
<1>5. QED
  BY <1>1, <1>2, <1>4

LEMMA TimesStayFinite == (BirthInv => Times \subseteq Nat /\ IsFiniteSet(Times))'
  BY TimesAreFinite, PTL

\* Records do not go, so what they say of their creation does not go either.
LEMMA TimesGrow == StoreInv /\ BirthInv /\ [Next]_vars => Times \subseteq Times'
<1> SUFFICES ASSUME StoreInv, BirthInv, [Next]_vars PROVE Times \subseteq Times'
  OBVIOUS
<1>1. CASE UNCHANGED record
  BY <1>1 DEF Times, Present
<1>2. CASE Rename
  <2>1. /\ op.do = "rename" /\ Writing
        /\ record' = [record EXCEPT ![op.id] = op.rec]
        /\ op.id \in Ids /\ op.rec \in WholeRecord
    BY <1>2 DEF Rename, StoreInv, Writing
  <2>2. \A id \in Ids : record'[id] = IF id = op.id THEN op.rec ELSE record[id]
    BY <2>1 DEF StoreInv
  <2>3. ASSUME NEW id \in Present PROVE record'[id].created = record[id].created /\ id \in Present'
    <3>1. CASE id = op.id
      <4>1. Follows(op.rec, record[id]) /\ record[id] \in WholeRecord
        BY <2>1, <2>3, <3>1 DEF Writing, StoreInv, Present
      <4>2. op.rec.created = record[id].created
        BY <2>1, <4>1 DEF Follows, WholeRecord
      <4>3. QED
        BY <2>1, <2>2, <3>1, <4>2, AbsentIsNotWhole DEF Present
    <3>2. CASE id # op.id
      BY <2>2, <2>3, <3>2 DEF Present
    <3>3. QED
      BY <3>1, <3>2
  <2>4. QED
    BY <2>3 DEF Times
<1>3. UNCHANGED record \/ Rename
  BY DEF Next, vars, Create, Update, writeJSONAtomic, WriteFileReturns, WriteFileFails,
         RenameFails, AppendTurn, AppendReturns, AppendFails, Crash
<1>4. QED
  BY <1>1, <1>2, <1>3

\* A listing of all the records holds each of them once, newest first.
LEMMA ListedNewestFirst ==
  ASSUME StoreInv, BirthInv
  PROVE  /\ Listed("any") \in Seq(WholeRecord)
         /\ \A i, j \in 1 .. Len(Listed("any")) :
               i < j => Listed("any")[j].created < Listed("any")[i].created
         /\ \A i \in 1 .. Len(Listed("any")) : Listed("any")[i].created \in Times
         /\ \A c \in Times : \E i \in 1 .. Len(Listed("any")) : Listed("any")[i].created = c
<1> DEFINE S == Shown("any")
           key == [r \in S |-> 0 - r.created]
           n == Cardinality(S)
           L == Listed("any")
<1>1. S = {record[id] : id \in Present}
  BY DEF Shown, Present, StoreInv, Absent, WholeRecord
<1>2. S \subseteq WholeRecord
  BY <1>1 DEF Present, StoreInv
<1>3. IsFiniteSet(S)
  <2> DEFINE f == [id \in Present |-> record[id]]
  <2>1. f \in Surjection(Present, S)
    BY <1>1 DEF Surjection
  <2>2. QED
    BY <2>1, PresentIsFinite, FS_Surjection
<1>4. \A r \in S : r.created \in Nat
  BY <1>2 DEF WholeRecord
<1> HIDE DEF S
<1>5. key \in [S -> Int] /\ \A r \in S : key[r] = 0 - r.created
  BY <1>4
<1>6. \A x, y \in S : key[x] = key[y] => x = y
  BY <1>1, <1>4, <1>5 DEF BirthInv
<1>7. L = Sorted(S, key)
  BY DEF Listed, S
<1> HIDE DEF key, L
<1>8. /\ n \in Nat
      /\ L \in [1 .. n -> S]
      /\ \A i, j \in 1 .. n : i < j => key[L[i]] < key[L[j]]
      /\ \A x \in S : \E i \in 1 .. n : L[i] = x
  BY <1>3, <1>5, <1>6, <1>7, SortedSorts
<1> HIDE DEF n
<1>9. L \in Seq(WholeRecord) /\ Len(L) = n
  BY <1>2, <1>8
<1>10. \A i, j \in 1 .. n : i < j => L[j].created < L[i].created
  BY <1>4, <1>5, <1>8
<1>11. \A i \in 1 .. n : L[i].created \in Times
  BY <1>1, <1>8 DEF Times
<1>12. \A c \in Times : \E i \in 1 .. n : L[i].created = c
  BY <1>1, <1>8 DEF Times
<1>13. QED
  BY <1>9, <1>10, <1>11, <1>12 DEF L

\* In a descending enumeration of a set, a member's place is the number of
\* members that are not smaller.
LEMMA DescendingPlace ==
  ASSUME NEW n \in Nat, NEW T \in SUBSET Nat, NEW f \in [1 .. n -> T],
         \A i, k \in 1 .. n : i < k => f[k] < f[i],
         \A t \in T : \E i \in 1 .. n : f[i] = t,
         NEW j \in 1 .. n
  PROVE  Cardinality({t \in T : t >= f[j]}) = j
<1> DEFINE newer == {t \in T : t >= f[j]}
           g == [i \in 1 .. j |-> f[i]]
<1>1. 1 .. j \subseteq 1 .. n /\ j \in 1 .. j /\ j \in Nat
  OBVIOUS
<1>2. \A i \in 1 .. n : f[i] \in Nat
  OBVIOUS
<1>3. \A i \in 1 .. j : f[i] \in newer
  BY <1>1, <1>2
<1>4. \A i, k \in 1 .. j : f[i] = f[k] => i = k
  BY <1>1, <1>2
<1>5. \A t \in newer : \E i \in 1 .. j : f[i] = t
  <2> SUFFICES ASSUME NEW t \in newer PROVE \E i \in 1 .. j : f[i] = t
    OBVIOUS
  <2>1. PICK i \in 1 .. n : f[i] = t
    OBVIOUS
  <2>2. ~(j < i)
    BY <1>2, <2>1
  <2>3. QED
    BY <2>1, <2>2
<1> HIDE DEF newer
<1>6. g \in Bijection(1 .. j, newer)
  BY <1>3, <1>4, <1>5 DEF Bijection, Injection, Surjection, IsInjective
<1>7. IsFiniteSet(1 .. j) /\ Cardinality(1 .. j) = j
  BY <1>1, FS_Interval
<1>8. Cardinality(newer) = j
  BY <1>6, <1>7, FS_Bijection DEF ExistsBijection
<1>9. QED
  BY <1>8 DEF newer

\* The place of a record in a listing is the number of records as new as it.
LEMMA PlaceIsRank ==
  ASSUME StoreInv, BirthInv, NEW j \in 1 .. Len(Listed("any"))
  PROVE  Rank(Listed("any")[j].created) = j
<1> DEFINE L == Listed("any")
           f == [i \in 1 .. Len(L) |-> L[i].created]
<1>1. /\ L \in Seq(WholeRecord)
      /\ \A i, k \in 1 .. Len(L) : i < k => L[k].created < L[i].created
      /\ \A i \in 1 .. Len(L) : L[i].created \in Times
      /\ \A t \in Times : \E i \in 1 .. Len(L) : L[i].created = t
  BY ListedNewestFirst
<1>2. Times \in SUBSET Nat
  BY TimesAreFinite
<1>3. j \in 1 .. Len(L)
  OBVIOUS
<1> HIDE DEF L
<1>4. Len(L) \in Nat
  BY <1>1
<1>5. /\ f \in [1 .. Len(L) -> Times]
      /\ \A i, k \in 1 .. Len(L) : i < k => f[k] < f[i]
      /\ \A t \in Times : \E i \in 1 .. Len(L) : f[i] = t
      /\ f[j] = L[j].created
  BY <1>1, <1>3
<1> HIDE DEF f
<1>6. Cardinality({t \in Times : t >= f[j]}) = j
  BY <1>2, <1>3, <1>4, <1>5, DescendingPlace
<1>7. QED
  BY <1>5, <1>6 DEF Rank, L

\* parsePagination gives a limit of at least one, and the offset it was given.
LEMMA PaginationIsPositive ==
  ASSUME NEW limit \in {{}} \cup {{n} : n \in Limits}, NEW offset \in Nat
  PROVE  /\ parsePagination(limit, {offset}).limit \in 1 .. MaxLimit
         /\ parsePagination(limit, {offset}).offset = offset
<1> DEFINE Capped(n) == IF n > MaxLimit THEN MaxLimit ELSE n
<1>1. parsePagination(limit, {offset}).offset = offset
  BY DEF parsePagination
<1>2. CASE limit \ {0} = {}
  BY <1>1, <1>2, ApiAssumption DEF parsePagination
<1>3. CASE limit \ {0} # {}
  <2>1. PICK n \in Limits : limit = {n} /\ n # 0
    BY <1>3
  <2>2. n \in Nat \ {0} /\ MaxLimit \in Nat \ {0}
    BY <2>1, ApiAssumption
  <2>3. Capped(n) \in 1 .. MaxLimit
    BY <2>2
  <2>4. \E m \in 1 .. MaxLimit : \E k \in limit : m = Capped(k)
    BY <2>1, <2>3
  <2>5. parsePagination(limit, {offset}).limit =
           CHOOSE m \in 1 .. MaxLimit : \E k \in limit : m = Capped(k)
    BY <1>3 DEF parsePagination
  <2>6. (CHOOSE m \in 1 .. MaxLimit : \E k \in limit : m = Capped(k)) \in 1 .. MaxLimit
    BY <2>4
  <2>7. QED
    BY <1>1, <2>5, <2>6
<1>4. QED
  BY <1>2, <1>3

\* A page holds the places that follow its offset, as many as its limit.
LEMMA PageHolds ==
  ASSUME NEW S, NEW all \in Seq(S), NEW offset \in Nat, NEW limit \in Nat \ {0},
         NEW j \in 1 .. Len(all), j > offset, j <= offset + limit
  PROVE  all[j] \in Range(Page(all, offset, limit))
<1> DEFINE last == IF limit > 0 /\ Len(all) - offset > limit THEN offset + limit ELSE Len(all)
           page == SubSeq(all, offset + 1, last)
<1>1. Page(all, offset, limit) = page
  BY DEF Page
<1>2. last \in Nat /\ last <= Len(all) /\ j <= last
  OBVIOUS
<1> HIDE DEF last
<1>3. /\ page \in Seq(S) /\ Len(page) = last - offset
      /\ \A i \in 1 .. last - offset : page[i] = all[offset + i]
  BY <1>2
<1>4. j - offset \in 1 .. last - offset /\ offset + (j - offset) = j
  BY <1>2
<1>5. j - offset \in DOMAIN page /\ page[j - offset] = all[j]
  BY <1>2, <1>3, <1>4
<1>6. QED
  BY <1>1, <1>5 DEF Range

\* The client: what there was when it began is still there, and what it has
\* not seen of it stands after its offset.
WalkInv ==
  /\ walk = [at |-> walk.at, limit |-> walk.limit, offset |-> walk.offset,
             base |-> walk.base, seen |-> walk.seen]
  /\ walk.limit \in {{}} \cup {{n} : n \in Limits}
  /\ walk.offset \in Nat
  /\ walk.base \subseteq Times
  /\ walk.at = "next" => \A c \in walk.base \ walk.seen : Rank(c) > walk.offset
  /\ walk.at = "end" => walk.base \subseteq walk.seen

LEMMA ListResponseIs ==
  ASSUME NEW limit, NEW offset
  PROVE  ListResponse("any", limit, offset) =
           [data |-> Page(Listed("any"), parsePagination(limit, offset).offset,
                          parsePagination(limit, offset).limit),
            total |-> Len(Listed("any")),
            limit |-> parsePagination(limit, offset).limit,
            offset |-> parsePagination(limit, offset).offset]
  BY DEF ListResponse

LEMMA WalkInit == ApiInit => WalkInv
  BY DEF ApiInit, WalkInv

LEMMA WalkStoreStep ==
  ASSUME StoreInv, BirthInv, BirthInv', WalkInv, [Next]_vars, UNCHANGED walk
  PROVE  WalkInv'
<1>1. Times \subseteq Times'
  BY TimesGrow
<1>2. Times \subseteq Nat /\ Times' \subseteq Nat /\ IsFiniteSet(Times) /\ IsFiniteSet(Times')
  BY TimesAreFinite, TimesStayFinite
<1>3. ASSUME NEW c \in Times PROVE Rank(c) <= Rank(c)' /\ Rank(c) \in Nat /\ Rank(c)' \in Nat
  <2> DEFINE old == {t \in Times : t >= c}
             new == {t \in Times' : t >= c}
  <2>1. old \in SUBSET new /\ old \in SUBSET Times /\ new \in SUBSET Times'
    BY <1>1
  <2>2. IsFiniteSet(new) /\ IsFiniteSet(old)
    BY <1>2, <2>1, FS_Subset
  <2>3. Cardinality(old) <= Cardinality(new) /\ Cardinality(old) \in Nat /\ Cardinality(new) \in Nat
    BY <2>1, <2>2, FS_Subset, FS_CardinalityType
  <2>4. QED
    BY <2>3 DEF Rank
<1>4. ASSUME walk.at = "next", NEW c \in walk.base \ walk.seen PROVE Rank(c)' > walk.offset
  <2>1. c \in Times /\ Rank(c) > walk.offset /\ walk.offset \in Nat
    BY <1>4 DEF WalkInv
  <2>2. QED
    BY <1>3, <2>1
<1>5. walk.base \subseteq Times'
  BY <1>1 DEF WalkInv
<1>6. QED
  BY <1>4, <1>5 DEF WalkInv

LEMMA WalkFirstPage ==
  ASSUME StoreInv, BirthInv, WalkInv, NEW limit \in {{}} \cup {{n} : n \in Limits}, FirstPage(limit)
  PROVE  WalkInv'
<1> DEFINE readable == {id \in Ids : GetResponse(id) = 200}
           base == Born({record[id] : id \in readable})
<1>1. /\ walk' = [at |-> "next", limit |-> limit, offset |-> 0, base |-> base, seen |-> {}]
      /\ UNCHANGED vars
  BY DEF FirstPage
<1>2. readable \subseteq Present
  BY DEF GetResponse, GetRecord, Present
<1>3. base \subseteq Times
  BY <1>2 DEF Born, Times
<1> HIDE DEF base
<1>4. Times' = Times /\ \A c : Rank(c)' = Rank(c)
  BY <1>1 DEF Times, Present, Rank, vars
<1>5. ASSUME NEW c \in base PROVE Rank(c) > 0
  <2> DEFINE newer == {t \in Times : t >= c}
  <2>1. Times \subseteq Nat /\ IsFiniteSet(Times)
    BY TimesAreFinite
  <2>2. newer \in SUBSET Times /\ c \in newer
    BY <1>3, <1>5, <2>1
  <2>3. IsFiniteSet(newer)
    BY <2>1, <2>2, FS_Subset
  <2>4. Cardinality(newer) \in Nat /\ Cardinality(newer) # 0
    BY <2>2, <2>3, FS_CardinalityType, FS_EmptySet
  <2>5. QED
    BY <2>4 DEF Rank
<1>6. QED
  BY <1>1, <1>3, <1>4, <1>5 DEF WalkInv

LEMMA WalkNextPage ==
  ASSUME StoreInv, BirthInv, WalkInv, NextPage
  PROVE  WalkInv'
<1> DEFINE L == Listed("any")
           p == parsePagination(walk.limit, {walk.offset})
           page == ListResponse("any", walk.limit, {walk.offset})
           data == Page(L, p.offset, p.limit)
           seen == walk.seen \cup Born(Range(data))
<1>1. p.limit \in 1 .. MaxLimit /\ p.offset = walk.offset /\ walk.offset \in Nat
  BY PaginationIsPositive DEF WalkInv
<1>2. p.limit \in Nat \ {0}
  BY <1>1, ApiAssumption
<1> HIDE DEF p
<1>3. page = [data |-> data, total |-> Len(L), limit |-> p.limit, offset |-> p.offset]
  BY ListResponseIs DEF p
<1>4. /\ L \in Seq(WholeRecord)
      /\ \A c \in Times : \E i \in 1 .. Len(L) : L[i].created = c
  BY ListedNewestFirst
<1>5. \A j \in 1 .. Len(L) : Rank(L[j].created) = j
  BY PlaceIsRank
<1> HIDE DEF L
<1>6. /\ walk.at = "next" /\ UNCHANGED vars
      /\ walk' = [walk EXCEPT !.seen = walk.seen \cup Born(Range(page.data)),
                              !.offset = page.offset + page.limit,
                              !.at = IF page.offset + page.limit >= page.total THEN "end" ELSE "next"]
  BY DEF NextPage
<1> HIDE DEF page
<1>7. walk' = [at |-> IF walk.offset + p.limit >= Len(L) THEN "end" ELSE "next",
               limit |-> walk.limit, offset |-> walk.offset + p.limit,
               base |-> walk.base, seen |-> seen]
  <2>1. page.data = data /\ page.total = Len(L) /\ page.limit = p.limit /\ page.offset = walk.offset
    BY <1>1, <1>3
  <2>2. walk' = [walk EXCEPT !.seen = seen, !.offset = walk.offset + p.limit,
                             !.at = IF walk.offset + p.limit >= Len(L) THEN "end" ELSE "next"]
    BY <1>6, <2>1
  <2> HIDE DEF seen
  <2>3. QED
    BY <2>2 DEF WalkInv
<1>8. ASSUME NEW c \in walk.base \ seen
      PROVE  Rank(c) > walk.offset + p.limit /\ Rank(c) \in 1 .. Len(L)
  <2>1. c \in Times /\ Rank(c) > walk.offset
    BY <1>6, <1>8 DEF WalkInv
  <2>2. PICK j \in 1 .. Len(L) : L[j].created = c
    BY <1>4, <2>1
  <2>3. Rank(c) = j /\ j > walk.offset
    BY <1>5, <2>1, <2>2
  <2>4. CASE j <= walk.offset + p.limit
    <3>1. L[j] \in Range(data)
      BY <1>1, <1>2, <1>4, <2>3, <2>4, PageHolds
    <3>2. c \in Born(Range(data))
      BY <2>2, <3>1 DEF Born
    <3>3. QED
      BY <1>8, <3>2
  <2>5. CASE ~(j <= walk.offset + p.limit)
    BY <1>1, <1>2, <2>3, <2>5
  <2>6. QED
    BY <2>4, <2>5
<1> HIDE DEF seen
<1>9. Times' = Times /\ \A c : Rank(c)' = Rank(c)
  BY <1>6 DEF Times, Present, Rank, vars
<1>10. walk'.at = "end" => walk.base \subseteq seen
  <2> SUFFICES ASSUME walk.offset + p.limit >= Len(L), NEW c \in walk.base, c \notin seen PROVE FALSE
    BY <1>7
  <2>1. Len(L) \in Nat
    BY <1>4
  <2>2. QED
    BY <1>1, <1>2, <1>8, <2>1
<1>11. walk.offset + p.limit \in Nat
  BY <1>1, <1>2
<1>12. QED
  BY <1>7, <1>8, <1>9, <1>10, <1>11 DEF WalkInv

ApiInv == StoreInv /\ BirthInv /\ WalkInv

LEMMA ApiStep == ApiInv /\ [ApiNext]_allVars => ApiInv'
<1> SUFFICES ASSUME StoreInv, BirthInv, WalkInv, [ApiNext]_allVars PROVE ApiInv'
  BY DEF ApiInv
<1>1. [Next]_vars
  BY DEF ApiNext, allVars, FirstPage, NextPage
<1>2. StoreInv' /\ BirthInv'
  BY <1>1, StoreStep, BirthStep
<1>3. CASE UNCHANGED walk
  BY <1>1, <1>2, <1>3, WalkStoreStep DEF ApiInv
<1>4. CASE \E limit \in {{}} \cup {{n} : n \in Limits} : FirstPage(limit)
  BY <1>2, <1>4, WalkFirstPage DEF ApiInv
<1>5. CASE NextPage
  BY <1>2, <1>5, WalkNextPage DEF ApiInv
<1>6. UNCHANGED walk \/ (\E limit \in {{}} \cup {{n} : n \in Limits} : FirstPage(limit)) \/ NextPage
  BY DEF ApiNext, allVars
<1>7. QED
  BY <1>2, <1>3, <1>4, <1>5, <1>6 DEF ApiInv

\* For every number of records, every cap on a page and every limit asked for,
\* a client that pages through a listing while records are created and updated
\* meets every record it could have got when it began (ListConversations,
\* ListSessions, parsePagination).
THEOREM ApiWalkMissesNothing == ApiSpec => []WalkMissesNothing
<1>1. ApiInit => ApiInv
  BY StoreInit, BirthInit, WalkInit DEF ApiInit, ApiInv
<1>2. ApiInv => WalkMissesNothing
  BY DEF ApiInv, WalkInv, WalkMissesNothing
<1>3. QED
  BY <1>1, <1>2, ApiStep, PTL DEF ApiSpec

-----------------------------------------------------------------------------
\* Reading turns.

Line == [index : 1 .. MaxTurns, text : {"bad", "whole"}]

\* No two lines of a file have one index, whatever became of their appends; the
\* turns whose append succeeded are among them, and the last line is that of
\* the append that is going on.
Kept(lines, unended, done) ==
  /\ \A i, j \in 1 .. Len(lines) : lines[i].index = lines[j].index => i = j
  /\ \A index \in done : \E i \in 1 .. Len(lines) : lines[i].index = index
  /\ unended => Len(lines) > 0

LogInv ==
  /\ log \in [Ids -> Seq(Line)]
  /\ open \in [Ids -> BOOLEAN]
  /\ acked \in [Ids -> SUBSET (1 .. MaxTurns)]
  /\ op.do \in {"none", "write", "rename", "append"}
  /\ \A id \in Ids : Kept(log[id], open[id], acked[id])
  /\ op.do = "append" =>
        /\ op.id \in Ids
        /\ Len(log[op.id]) > 0
        /\ log[op.id][Len(log[op.id])].index = op.index

\* Lines with the same indices, whatever their text.
SameTurns(old, new) ==
  /\ new \in Seq(Line)
  /\ Len(new) = Len(old)
  /\ \A i \in 1 .. Len(old) : new[i].index = old[i].index

\* What becomes of a line's text leaves the indices alone.
LEMMA Retold ==
  ASSUME NEW old \in Seq(Line), Len(old) > 0, NEW text \in {"bad", "whole"}
  PROVE  SameTurns(old, [old EXCEPT ![Len(old)].text = text])
<1> DEFINE last == [old[Len(old)] EXCEPT !.text = text]
           new == [old EXCEPT ![Len(old)] = last]
<1>1. Len(old) \in 1 .. Len(old)
  OBVIOUS
<1>2. old[Len(old)] \in Line
  BY <1>1
<1>3. last \in Line /\ last.index = old[Len(old)].index
  BY <1>2 DEF Line
<1> HIDE DEF last
<1>4. /\ new \in Seq(Line) /\ Len(new) = Len(old)
      /\ \A j \in 1 .. Len(old) : new[j] = IF j = Len(old) THEN last ELSE old[j]
  BY <1>1, <1>3, ExceptSeq
<1>5. QED
  BY <1>3, <1>4 DEF SameTurns, last

LEMMA LogInit == Init => LogInv
<1> SUFFICES ASSUME Init PROVE LogInv
  OBVIOUS
<1>1. <<>> \in Seq(Line) /\ Len(<<>>) = 0
  BY EmptySeq
<1>2. QED
  BY <1>1 DEF Init, LogInv, Kept, NoOp

\* An operation ends and leaves the lines of its file with the same indices.
LEMMA LogEnds ==
  ASSUME LogInv, op.do = "append", op' = NoOp, open' \in [Ids -> BOOLEAN],
         \A id \in Ids : open'[id] => open[id],
         acked' \in [Ids -> SUBSET (1 .. MaxTurns)],
         \A id \in Ids : acked'[id] \subseteq acked[id] \/ (id = op.id /\ acked'[id] = acked[id] \cup {op.index}),
         \E text \in {"bad", "whole"} : LastTurn(text)
  PROVE  LogInv'
<1>1. PICK text \in {"bad", "whole"} :
        log' = [log EXCEPT ![op.id] = [@ EXCEPT ![Len(log[op.id])].text = text]]
  BY DEF LastTurn
<1>2. /\ op.id \in Ids /\ Len(log[op.id]) > 0 /\ log[op.id] \in Seq(Line)
      /\ log[op.id][Len(log[op.id])].index = op.index
  BY DEF LogInv
<1>3. SameTurns(log[op.id], [log[op.id] EXCEPT ![Len(log[op.id])].text = text])
  BY <1>2, Retold
<1>4. /\ log' \in [Ids -> Seq(Line)]
      /\ \A id \in Ids : SameTurns(log[id], log'[id])
  <2>1. \A id \in Ids : log'[id] = IF id = op.id THEN [log[id] EXCEPT ![Len(log[op.id])].text = text]
                                                ELSE log[id]
    BY <1>1 DEF LogInv
  <2>2. \A id \in Ids : SameTurns(log[id], log'[id])
    <3>1. \A id \in Ids : SameTurns(log[id], log[id])
      BY DEF LogInv, SameTurns
    <3>2. QED
      BY <1>3, <2>1, <3>1
  <2>3. \A id \in Ids : log'[id] \in Seq(Line)
    BY <2>2 DEF SameTurns
  <2>4. log' = [id \in Ids |-> log'[id]]
    BY <1>1 DEF LogInv
  <2>5. QED
    BY <2>2, <2>3, <2>4
<1>5. \A id \in Ids : /\ Len(log[id]) \in Nat /\ Len(log'[id]) = Len(log[id])
                      /\ \A i \in 1 .. Len(log[id]) : log'[id][i].index = log[id][i].index
  BY <1>4 DEF SameTurns, LogInv
<1>6. ASSUME NEW id \in Ids PROVE Kept(log'[id], open'[id], acked'[id])
  <2> DEFINE old == log[id]
             new == log'[id]
  <2>1. /\ Kept(old, open[id], acked[id]) /\ Len(old) \in Nat /\ Len(new) = Len(old)
        /\ \A i \in 1 .. Len(old) : new[i].index = old[i].index
        /\ open'[id] => open[id]
    BY <1>5 DEF LogInv
  <2>2. id = op.id => Len(old) \in 1 .. Len(old) /\ old[Len(old)].index = op.index
    BY <1>2, <2>1
  <2>3. \A index \in acked'[id] : index \in acked[id] \/ (id = op.id /\ index = op.index)
    OBVIOUS
  <2> HIDE DEF old, new
  <2>4. \A index \in acked'[id] : \E i \in 1 .. Len(new) : new[i].index = index
    <3> SUFFICES ASSUME NEW index \in acked'[id] PROVE \E i \in 1 .. Len(old) : new[i].index = index
      BY <2>1
    <3>1. \E i \in 1 .. Len(old) : old[i].index = index
      BY <2>1, <2>2, <2>3 DEF Kept
    <3>2. QED
      BY <2>1, <3>1
  <2>5. \A i, j \in 1 .. Len(new) : new[i].index = new[j].index => i = j
    BY <2>1 DEF Kept
  <2>6. open'[id] => Len(new) > 0
    BY <2>1 DEF Kept
  <2>7. QED
    BY <2>4, <2>5, <2>6 DEF Kept, new
<1>8. op'.do = "none"
  BY DEF NoOp
<1>9. QED
  BY <1>4, <1>6, <1>8 DEF LogInv

LEMMA LogAppend ==
  ASSUME LogInv, NEW id \in Talkers, NEW index \in 1 .. MaxTurns, AppendTurn(id, index)
  PROVE  LogInv'
<1> DEFINE line == [index |-> index, text |-> "bad"]
           before == IF open[id] THEN [log[id] EXCEPT ![Len(log[id])].text = "bad"] ELSE log[id]
           after == Append(before, line)
<1>1. /\ id \in Ids /\ log[id] \in Seq(Line) /\ line \in Line
      /\ open[id] => Len(log[id]) > 0
  BY StoreAssumption DEF LogInv, Kept, Line
<1>2. SameTurns(log[id], before)
  <2>1. CASE open[id]
    BY <1>1, <2>1, Retold
  <2>2. CASE ~open[id]
    BY <1>1, <2>2 DEF SameTurns
  <2>3. QED
    BY <2>1, <2>2
<1>3. /\ index \notin Attempted(id)
      /\ op' = [do |-> "append", id |-> id, index |-> index, glued |-> open[id]]
      /\ log' = [log EXCEPT ![id] = after]
      /\ open' = [open EXCEPT ![id] = TRUE] /\ UNCHANGED acked
  BY DEF AppendTurn
<1> HIDE DEF before
<1>4. before \in Seq(Line) /\ Len(before) = Len(log[id]) /\ Len(log[id]) \in Nat
  BY <1>1, <1>2 DEF SameTurns
<1>5. /\ after \in Seq(Line) /\ Len(after) = Len(log[id]) + 1
      /\ \A i \in 1 .. Len(log[id]) : after[i] = before[i]
      /\ after[Len(log[id]) + 1] = line
  BY <1>1, <1>4, AppendProperties
<1> HIDE DEF after
<1>6. \A i \in 1 .. Len(log[id]) : after[i].index = log[id][i].index
  BY <1>2, <1>5 DEF SameTurns
<1>7. \A i \in 1 .. Len(log[id]) : log[id][i].index # index
  BY <1>1, <1>3 DEF Attempted
<1>8. after[Len(after)].index = index
  BY <1>4, <1>5
<1>9. \A i, j \in 1 .. Len(after) : after[i].index = after[j].index => i = j
  <2> SUFFICES ASSUME NEW i \in 1 .. Len(after), NEW j \in 1 .. Len(after),
                      after[i].index = after[j].index
               PROVE  i = j
    OBVIOUS
  <2>1. \A k \in 1 .. Len(after) : k \in 1 .. Len(log[id]) \/ k = Len(after)
    BY <1>4, <1>5
  <2>2. \A k, l \in 1 .. Len(log[id]) : log[id][k].index = log[id][l].index => k = l
    BY <1>1 DEF LogInv, Kept
  <2>3. QED
    BY <1>6, <1>7, <1>8, <2>1, <2>2
<1>10. /\ log' \in [Ids -> Seq(Line)] /\ open' \in [Ids -> BOOLEAN]
       /\ \A jd \in Ids : log'[jd] = IF jd = id THEN after ELSE log[jd]
       /\ \A jd \in Ids : open'[jd] = IF jd = id THEN TRUE ELSE open[jd]
  BY <1>1, <1>3, <1>5 DEF LogInv
<1>11. \A k \in acked[id] : \E i \in 1 .. Len(after) : after[i].index = k
  <2>1. 1 .. Len(log[id]) \subseteq 1 .. Len(after)
    BY <1>4, <1>5
  <2>2. \A k \in acked[id] : \E i \in 1 .. Len(log[id]) : log[id][i].index = k
    BY <1>1 DEF LogInv, Kept
  <2>3. QED
    BY ONLY <1>6, <2>1, <2>2
<1>12. Len(after) > 0
  BY <1>4, <1>5
<1>13. op'.do = "append" /\ op'.id = id /\ op'.index = index
  BY <1>3
<1>14. Kept(after, TRUE, acked[id])
  BY <1>9, <1>11, <1>12 DEF Kept
<1>15. \A jd \in Ids : Kept(log'[jd], open'[jd], acked'[jd])
  BY <1>3, <1>10, <1>14 DEF LogInv
<1>16. QED
  BY <1>1, <1>3, <1>8, <1>10, <1>12, <1>13, <1>15 DEF LogInv

LEMMA LogStep == LogInv /\ [Next]_vars => LogInv'
<1> SUFFICES ASSUME LogInv, [Next]_vars PROVE LogInv'
  OBVIOUS
<1>1. ASSUME UNCHANGED <<log, open, acked>>, op'.do \in {"none", "write", "rename"} PROVE LogInv'
  <2>1. log' = log /\ open' = open /\ acked' = acked /\ op'.do # "append"
    BY <1>1
  <2>2. op'.do \in {"none", "write", "rename", "append"}
    BY <1>1
  <2>3. QED
    BY <2>1, <2>2 DEF LogInv
<1>2. ASSUME NEW id \in Ids, Create(id) \/ Update(id) PROVE LogInv'
  <2>1. UNCHANGED <<log, open, acked>> /\ op'.do = "write"
    BY <1>2 DEF Create, Update, writeJSONAtomic
  <2>2. QED
    BY <1>1, <2>1
<1>3. CASE WriteFileReturns
  <2>1. UNCHANGED <<log, open, acked>> /\ op' = [op EXCEPT !.do = "rename"] /\ op.do = "write"
    BY <1>3 DEF WriteFileReturns
  <2>2. op'.do \in {"none", "write", "rename"}
    BY <2>1
  <2>3. QED
    BY <1>1, <2>1, <2>2
<1>4. CASE WriteFileFails \/ Rename \/ RenameFails
  <2>1. UNCHANGED <<log, open, acked>> /\ op' = NoOp
    BY <1>4 DEF WriteFileFails, Rename, RenameFails
  <2>2. QED
    BY <1>1, <2>1 DEF NoOp
<1>5. ASSUME NEW id \in Talkers, NEW index \in 1 .. MaxTurns, AppendTurn(id, index) PROVE LogInv'
  BY <1>5, LogAppend
<1>6. CASE AppendReturns
  <2>1. /\ op.do = "append" /\ op' = NoOp /\ LastTurn("whole")
        /\ open' = [open EXCEPT ![op.id] = FALSE]
        /\ acked' = [acked EXCEPT ![op.id] = @ \cup {op.index}]
    BY <1>6 DEF AppendReturns
  <2>2. op.id \in Ids /\ Len(log[op.id]) > 0 /\ log[op.id] \in Seq(Line) /\ log[op.id][Len(log[op.id])].index = op.index
    BY <2>1 DEF LogInv
  <2>3. op.index \in 1 .. MaxTurns
    <3>1. Len(log[op.id]) \in 1 .. Len(log[op.id])
      BY <2>2
    <3>2. log[op.id][Len(log[op.id])] \in Line
      BY <2>2, <3>1, ElementOfSeq
    <3>3. QED
      BY <2>2, <3>2 DEF Line
  <2>4. /\ open' \in [Ids -> BOOLEAN] /\ \A id \in Ids : open'[id] => open[id]
        /\ acked' \in [Ids -> SUBSET (1 .. MaxTurns)]
        /\ \A id \in Ids : acked'[id] \subseteq acked[id] \/ (id = op.id /\ acked'[id] = acked[id] \cup {op.index})
    BY <2>1, <2>2, <2>3 DEF LogInv
  <2>5. \E text \in {"bad", "whole"} : LastTurn(text)
    BY <2>1
  <2>6. QED
    BY <2>1, <2>4, <2>5, LogEnds
<1>7. CASE AppendFails \/ (Crash /\ op.do = "append")
  <2>1. /\ op.do = "append" /\ op' = NoOp /\ UNCHANGED <<open, acked>>
        /\ \E text \in {"bad", "whole"} : LastTurn(text)
    BY <1>7 DEF AppendFails, Crash
  <2>2. QED
    BY <2>1, LogEnds DEF LogInv
<1>8. CASE Crash /\ op.do # "append"
  <2>1. UNCHANGED <<log, open, acked>> /\ op' = NoOp
    BY <1>8 DEF Crash
  <2>2. QED
    BY <1>1, <2>1 DEF NoOp
<1>9. CASE UNCHANGED vars
  BY <1>9 DEF vars, LogInv
<1>10. QED
  BY <1>2, <1>3, <1>4, <1>5, <1>6, <1>7, <1>8, <1>9 DEF Next

\* The turns that are read are those of the file, in the order of their indices.
LEMMA ByIndexSorts ==
  ASSUME NEW turns \in Seq(Line),
         \A i, j \in 1 .. Len(turns) : turns[i].index = turns[j].index => i = j
  PROVE  /\ ByIndex(turns) \in Seq(Line) /\ Len(ByIndex(turns)) = Len(turns)
         /\ \A i, j \in 1 .. Len(turns) : i < j => ByIndex(turns)[i].index < ByIndex(turns)[j].index
         /\ \A i \in 1 .. Len(turns) : \E j \in 1 .. Len(turns) : ByIndex(turns)[j] = turns[i]
<1> DEFINE n == Len(turns)
           key == [i \in 1 .. n |-> turns[i].index]
           places == Sorted(1 .. n, key)
<1>1. n \in Nat /\ DOMAIN turns = 1 .. n /\ \A i \in 1 .. n : turns[i] \in Line
  BY LenProperties
<1> HIDE DEF n
<1>2. IsFiniteSet(1 .. n) /\ Cardinality(1 .. n) = n
  BY <1>1, FS_Interval
<1>3. key \in [1 .. n -> Int] /\ \A i \in 1 .. n : key[i] = turns[i].index
  BY <1>1 DEF Line
<1>4. \A i, j \in 1 .. n : key[i] = key[j] => i = j
  BY <1>3 DEF n
<1> HIDE DEF key
<1>5. /\ Sorted(1 .. n, key) \in [1 .. Cardinality(1 .. n) -> 1 .. n]
      /\ \A i, j \in 1 .. Cardinality(1 .. n) : i < j => key[Sorted(1 .. n, key)[i]] < key[Sorted(1 .. n, key)[j]]
      /\ \A x \in 1 .. n : \E i \in 1 .. Cardinality(1 .. n) : Sorted(1 .. n, key)[i] = x
  BY <1>2, <1>3, <1>4, SortedSorts, Zenon
<1>6. /\ places \in [1 .. n -> 1 .. n]
      /\ \A i, j \in 1 .. n : i < j => key[places[i]] < key[places[j]]
      /\ \A x \in 1 .. n : \E i \in 1 .. n : places[i] = x
  BY <1>2, <1>5
<1>7. ByIndex(turns) = [i \in 1 .. n |-> turns[places[i]]]
  BY <1>1 DEF ByIndex, key
<1> HIDE DEF places
<1>8. ByIndex(turns) \in Seq(Line) /\ Len(ByIndex(turns)) = n
  BY <1>1, <1>6, <1>7
<1>9. \A i \in 1 .. n : ByIndex(turns)[i] = turns[places[i]]
  BY <1>7
<1>10. \A i, j \in 1 .. n : i < j => ByIndex(turns)[i].index < ByIndex(turns)[j].index
  <2> SUFFICES ASSUME NEW i \in 1 .. n, NEW j \in 1 .. n, i < j
               PROVE  ByIndex(turns)[i].index < ByIndex(turns)[j].index
    OBVIOUS
  <2>1. places[i] \in 1 .. n /\ places[j] \in 1 .. n /\ key[places[i]] < key[places[j]]
    BY <1>6
  <2>2. key[places[i]] = ByIndex(turns)[i].index /\ key[places[j]] = ByIndex(turns)[j].index
    BY ONLY <1>3, <1>9, <2>1, i \in 1 .. n, j \in 1 .. n
  <2>3. QED
    BY <2>1, <2>2
<1>11. \A i \in 1 .. n : \E j \in 1 .. n : ByIndex(turns)[j] = turns[i]
  BY ONLY <1>6, <1>9
<1>12. QED
  BY <1>8, <1>10, <1>11 DEF n

\* The last n members of a sequence are a suffix of it.
LEMMA LastNIsSuffix ==
  ASSUME NEW all \in Seq(Line), NEW n \in Nat \ {0}
  PROVE  /\ IsSuffix(LastN(all, n), all)
         /\ Len(LastN(all, n)) = IF Len(all) < n THEN Len(all) ELSE n
<1> DEFINE from == Len(all) - n + 1
           end == SubSeq(all, from, Len(all))
<1>1. CASE Len(all) > n
  <2>1. LastN(all, n) = end
    BY <1>1 DEF LastN
  <2>2. /\ end \in Seq(Line) /\ Len(end) = n
        /\ \A i \in 1 .. n : end[i] = all[Len(all) - n + i]
    BY <1>1
  <2> HIDE DEF end
  <2> DEFINE a == Reverse(end)
             b == Reverse(all)
  <2>3. /\ a \in Seq(Line) /\ Len(a) = n
        /\ \A i \in 1 .. n : a[i] = end[n - i + 1]
    BY <2>2 DEF Reverse
  <2>4. /\ b \in Seq(Line) /\ Len(b) = Len(all)
        /\ \A i \in 1 .. Len(all) : b[i] = all[Len(all) - i + 1]
    BY DEF Reverse
  <2>5. \A i \in 1 .. n : a[i] = b[i]
    <3> SUFFICES ASSUME NEW i \in 1 .. n PROVE a[i] = b[i]
      OBVIOUS
    <3>1. /\ n - i + 1 \in 1 .. n /\ i \in 1 .. Len(all)
          /\ Len(all) - n + (n - i + 1) = Len(all) - i + 1
      BY <1>1
    <3>2. QED
      BY <2>2, <2>3, <2>4, <3>1
  <2> HIDE DEF a, b
  <2>6. /\ SubSeq(a, 1, n) \in Seq(Line) /\ Len(SubSeq(a, 1, n)) = n
        /\ \A i \in 1 .. n : SubSeq(a, 1, n)[i] = a[i]
    BY <2>3
  <2>7. /\ SubSeq(b, 1, n) \in Seq(Line) /\ Len(SubSeq(b, 1, n)) = n
        /\ \A i \in 1 .. n : SubSeq(b, 1, n)[i] = b[i]
    BY <1>1, <2>4
  <2>8. SubSeq(a, 1, n) = SubSeq(b, 1, n)
    BY <2>5, <2>6, <2>7, SeqEqual
  <2>9. IsPrefix(a, b)
    BY <1>1, <2>3, <2>4, <2>8 DEF IsPrefix
  <2>10. QED
    BY <1>1, <2>1, <2>2, <2>9 DEF IsSuffix, a, b
<1>2. CASE ~(Len(all) > n)
  <2>1. LastN(all, n) = all
    BY <1>2 DEF LastN
  <2>2. Reverse(all) \in Seq(Line)
    BY DEF Reverse
  <2>3. IsSuffix(all, all)
    BY <2>2 DEF IsSuffix, IsPrefix
  <2>4. QED
    BY <1>2, <2>1, <2>3
<1>3. QED
  BY <1>1, <1>2

\* For every number of records and turns, in every moment of an append and
\* after every failure and crash, a reader gets an error or all the turns whose
\* append succeeded, in the order of their indices, and with a count the last
\* ones of the same turns (PeekTurns, appendJSONL, handleListTurns).
THEOREM ApiPeekIsAllOrNothing == ApiSpec => []PeekIsAllOrNothing
<1>1. LogInv => PeekIsAllOrNothing
  <2> SUFFICES ASSUME LogInv, NEW id \in Ids, TurnsResponse(id).code = 200
               PROVE  LET all == TurnsResponse(id).data IN
                      /\ acked[id] \subseteq {all[i].index : i \in DOMAIN all}
                      /\ \A i \in 1 .. Len(all) - 1 : all[i].index < all[i + 1].index
                      /\ \A n \in 1 .. MaxTurns :
                            /\ IsSuffix(PeekTurns(id, n).turns, all)
                            /\ Len(PeekTurns(id, n).turns) = IF Len(all) < n THEN Len(all) ELSE n
    BY DEF PeekIsAllOrNothing
  <2> DEFINE all == ByIndex(log[id])
             bad == \E i \in DOMAIN log[id] : log[id][i].text = "bad" \/ TooLong(log[id][i])
  <2>1. \A n : PeekTurns(id, n) = IF bad THEN Error ELSE Turns(LastN(all, n))
    BY DEF PeekTurns
  <2>2. ~bad
    BY <2>1 DEF TurnsResponse, Error
  <2> HIDE DEF bad
  <2>3. \A n : PeekTurns(id, n).turns = LastN(all, n)
    BY <2>1, <2>2 DEF Turns
  <2>4. LastN(all, 0) = all
    BY DEF LastN
  <2>5. TurnsResponse(id).data = all
    BY <2>3, <2>4 DEF TurnsResponse
  <2>6. /\ log[id] \in Seq(Line)
        /\ \A i, j \in 1 .. Len(log[id]) : log[id][i].index = log[id][j].index => i = j
        /\ \A index \in acked[id] : \E i \in 1 .. Len(log[id]) : log[id][i].index = index
    BY DEF LogInv, Kept
  <2>7. /\ all \in Seq(Line) /\ Len(all) = Len(log[id])
        /\ \A i, j \in 1 .. Len(log[id]) : i < j => all[i].index < all[j].index
        /\ \A i \in 1 .. Len(log[id]) : \E j \in 1 .. Len(log[id]) : all[j] = log[id][i]
    BY ONLY <2>6, ByIndexSorts, Zenon
  <2> HIDE DEF all
  <2>8. acked[id] \subseteq {all[i].index : i \in DOMAIN all}
    <3>1. DOMAIN all = 1 .. Len(log[id])
      BY <2>7
    <3>2. ASSUME NEW index \in acked[id] PROVE \E i \in DOMAIN all : all[i].index = index
      <4>1. PICK i \in 1 .. Len(log[id]) : log[id][i].index = index
        BY <2>6, <3>2
      <4>2. PICK j \in 1 .. Len(log[id]) : all[j] = log[id][i]
        BY <2>7
      <4>3. QED
        BY <3>1, <4>1, <4>2
    <3>3. QED
      BY <3>2
  <2>9. \A i \in 1 .. Len(all) - 1 : all[i].index < all[i + 1].index
    <3>1. \A i \in 1 .. Len(all) - 1 : i \in 1 .. Len(log[id]) /\ i + 1 \in 1 .. Len(log[id]) /\ i < i + 1
      BY <2>7
    <3>2. QED
      BY ONLY <2>7, <3>1
  <2>10. \A n \in 1 .. MaxTurns :
            /\ IsSuffix(PeekTurns(id, n).turns, all)
            /\ Len(PeekTurns(id, n).turns) = IF Len(all) < n THEN Len(all) ELSE n
    <3>1. MaxTurns \in Nat
      BY StoreAssumption
    <3>2. \A n \in 1 .. MaxTurns : n \in Nat \ {0}
      BY <3>1
    <3>3. QED
      BY <2>3, <2>7, <3>2, LastNIsSuffix
  <2>11. QED
    BY <2>5, <2>8, <2>9, <2>10
<1>2. [ApiNext]_allVars => [Next]_vars
  BY DEF ApiNext, allVars, FirstPage, NextPage
<1>3. QED
  BY <1>1, <1>2, LogInit, LogStep, PTL DEF ApiSpec, ApiInit
=============================================================================
