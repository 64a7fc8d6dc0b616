-------------------------- MODULE MigrationsProofs --------------------------
(* Theorems about Migrations: type correctness, and what the processes that   *)
(* race to migrate one database leave behind.                                 *)
EXTENDS Migrations, TLAPS

\* What the scripts are, version by version.
LEMMA StatementsOf ==
  /\ Statements[1] = <<CreateIf("collection_runs"), CreateIf("idx_runs_started"), CreateIf("pools")>>
  /\ Statements[2] = <<CreateIf("pool_states")>>
  /\ Statements[3] = <<CreateIf("liquidity_events")>>
  /\ Statements[4] = <<CreateIf("provider_health")>>
  /\ Statements[5] = <<Create("collection_runs_new"), [op |-> "copy"], [op |-> "drop"],
                       [op |-> "rename"], CreateIf("idx_runs_started")>>
  /\ Statements[6] = <<AddColumn("pool_states.provenance_json")>>
  /\ Statements[7] = <<AddColumn("pools.fee_tier_raw")>>
BY DEF Statements

LEMMA VersionCases == \A v \in Versions : v = 1 \/ v = 2 \/ v = 3 \/ v = 4 \/ v = 5 \/ v = 6 \/ v = 7
BY DEF Versions

\* The tables, indexes and columns that stay, and a statement that makes one.
Kept == {"collection_runs", "idx_runs_started", "pools", "pool_states", "liquidity_events",
             "provider_health", "pool_states.provenance_json", "pools.fee_tier_raw"}

Addition == [op : {"create_if", "add_column"}, object : Kept]

LEMMA Additions ==
  ASSUME NEW o \in Kept
  PROVE  CreateIf(o) \in Addition /\ AddColumn(o) \in Addition
BY DEF CreateIf, AddColumn, Addition

\* Every script but the fifth makes what its version leaves behind, one by one,
\* and records the version.
IsPlain(v) ==
  /\ Len(Script(v)) \in 2..4
  /\ Script(v)[Len(Script(v))] = [op |-> "record", version |-> v]
  /\ \A i \in 1..Len(Script(v)) - 1 : Script(v)[i] \in Addition
  /\ Objects(v) = {Script(v)[i].object : i \in 1..Len(Script(v)) - 1}

LEMMA SingleScript ==
  ASSUME NEW v \in {2, 3, 4, 6, 7}, NEW s \in Addition, Statements[v] = <<s>>
  PROVE  IsPlain(v)
<1> DEFINE r == [op |-> "record", version |-> v]
<1>1. Script(v) = Append(<<s>>, r)
  BY DEF Script
<1> HIDE DEF r
<1>2. Len(Script(v)) = 2 /\ Script(v)[1] = s /\ Script(v)[2] = r
  BY <1>1
<1>3. Objects(v) = {Statements[v][i].object : i \in 1..1}
  BY DEF Objects
<1>4. Objects(v) = {Script(v)[i].object : i \in 1..1}
  BY <1>2, <1>3
<1> QED BY <1>2, <1>4 DEF IsPlain, r

LEMMA TripleScript ==
  ASSUME NEW s \in Addition, NEW t \in Addition, NEW u \in Addition, Statements[1] = <<s, t, u>>
  PROVE  IsPlain(1)
<1> DEFINE r == [op |-> "record", version |-> 1]
<1>1. Script(1) = Append(<<s, t, u>>, r)
  BY DEF Script
<1> HIDE DEF r
<1>2. Len(Script(1)) = 4 /\ Script(1)[1] = s /\ Script(1)[2] = t /\ Script(1)[3] = u /\ Script(1)[4] = r
  BY <1>1
<1>3. Objects(1) = {Statements[1][i].object : i \in 1..3}
  BY DEF Objects
<1>4. \A i \in 1..3 : Script(1)[i] = Statements[1][i] /\ Script(1)[i] \in Addition
  BY <1>2
<1>5. Objects(1) = {Script(1)[i].object : i \in 1..3}
  BY <1>3, <1>4
<1>6. Len(Script(1)) - 1 = 3
  BY <1>2
<1>7. Script(1)[Len(Script(1))] = r /\ Len(Script(1)) \in 2..4
  BY <1>2
<1>8. /\ \A i \in 1..Len(Script(1)) - 1 : Script(1)[i] \in Addition
      /\ Objects(1) = {Script(1)[i].object : i \in 1..Len(Script(1)) - 1}
  BY <1>4, <1>5, <1>6
<1> QED BY <1>7, <1>8 DEF IsPlain, r

LEMMA PlainScript ==
  ASSUME NEW v \in Versions \ {5}
  PROVE  IsPlain(v)
<1>1. IsPlain(1)
  <2>1. CreateIf("collection_runs") \in Addition
    BY Additions DEF Kept
  <2>2. CreateIf("idx_runs_started") \in Addition
    BY Additions DEF Kept
  <2>3. CreateIf("pools") \in Addition
    BY Additions DEF Kept
  <2> QED BY <2>1, <2>2, <2>3, StatementsOf, TripleScript
<1>2. IsPlain(2)
  <2>1. CreateIf("pool_states") \in Addition
    BY Additions DEF Kept
  <2> QED BY <2>1, StatementsOf, SingleScript
<1>3. IsPlain(3)
  <2>1. CreateIf("liquidity_events") \in Addition
    BY Additions DEF Kept
  <2> QED BY <2>1, StatementsOf, SingleScript
<1>4. IsPlain(4)
  <2>1. CreateIf("provider_health") \in Addition
    BY Additions DEF Kept
  <2> QED BY <2>1, StatementsOf, SingleScript
<1>6. IsPlain(6)
  <2>1. AddColumn("pool_states.provenance_json") \in Addition
    BY Additions DEF Kept
  <2> QED BY <2>1, StatementsOf, SingleScript
<1>7. IsPlain(7)
  <2>1. AddColumn("pools.fee_tier_raw") \in Addition
    BY Additions DEF Kept
  <2> QED BY <2>1, StatementsOf, SingleScript
<1> QED BY <1>1, <1>2, <1>3, <1>4, <1>6, <1>7, VersionCases

LEMMA RebuildScript ==
  /\ Len(Statements[5]) = 5
  /\ Len(Script(5)) = 6
  /\ Script(5)[1] = Create("collection_runs_new")
  /\ Script(5)[2] = [op |-> "copy"]
  /\ Script(5)[3] = [op |-> "drop"]
  /\ Script(5)[4] = [op |-> "rename"]
  /\ Script(5)[5] = CreateIf("idx_runs_started")
  /\ Script(5)[6] = [op |-> "record", version |-> 5]
BY StatementsOf DEF Script

LEMMA Least ==
  ASSUME NEW S \in SUBSET Versions, S # {}
  PROVE  \E v \in S : \A w \in S : v <= w
<1>1. \A w \in S : w \in Nat /\ 1 <= w /\ w <= 7
  BY DEF Versions
<1> QED BY <1>1, VersionCases

LEMMA LeastUnseen ==
  ASSUME NEW S \in SUBSET Versions, S # Versions,
         NEW n, n = CHOOSE v \in Versions \ S : \A w \in Versions \ S : v <= w
  PROVE  n \in Versions \ S /\ \A w \in Versions : w < n => w \in S
<1>1. \E v \in Versions \ S : \A w \in Versions \ S : v <= w
  BY Least
<1>2. n \in Versions \ S /\ \A w \in Versions \ S : n <= w
  BY <1>1
<1> QED BY <1>2 DEF Versions

-----------------------------------------------------------------------------
\* What a script has done before its transaction opens, and inside of it.
Built(p) ==
  LET v == NextVersion(p) IN
  v # 5 => \A i \in 1..Len(Script(v)) - 1 : i < at[p] => Script(v)[i].object \in db.objects

Outside(p) == at[p] <= Len(Script(NextVersion(p))) /\ (NextVersion(p) = 5 => at[p] <= 2)

Recorded(p) ==
  /\ at[p] = Len(Script(NextVersion(p))) + 1
  /\ work[p].versions = db.versions \cup {NextVersion(p)}
  /\ db.objects \ {"collection_runs_new"} \subseteq work[p].objects
  /\ Objects(NextVersion(p)) \subseteq work[p].objects
  /\ db.rows \subseteq work[p].rows

Rebuilding(p) ==
  /\ NextVersion(p) = 5 /\ at[p] \in 3..6
  /\ work[p].versions = db.versions
  /\ db.objects \ (Objects(5) \cup {"collection_runs_new"}) \subseteq work[p].objects
  /\ at[p] >= 5 => "collection_runs" \in work[p].objects
  /\ at[p] >= 6 => "idx_runs_started" \in work[p].objects
  /\ db.rows \subseteq IF at[p] >= 5 THEN work[p].rows ELSE work[p].copied

InScript(p) ==
  /\ Built(p)
  /\ IF work[p] = NoTx THEN Outside(p) ELSE Rebuilding(p) \/ Recorded(p)

\* What holds of one process, and of all of them.
Sound(p) ==
  /\ seen[p] \subseteq db.versions
  /\ pc[p] = "ready" => seen[p] = Versions
  /\ ~fk[p] \/ work[p] # NoTx => Applying(p)
  /\ Applying(p) => InScript(p)

Alone == \A p, q \in Process : work[p] # NoTx /\ work[q] # NoTx => p = q

\* The types of all but the index, whose range follows from Sound.
Types ==
  /\ db \in Database
  /\ work \in [Process -> Database \cup {NoTx}]
  /\ pc \in [Process -> {"closed", "applying", "ready", "failed"}]
  /\ seen \in [Process -> SUBSET Versions]
  /\ at \in [Process -> 1..7]
  /\ fk \in [Process -> BOOLEAN]
  /\ opens \in [Process -> 0..MaxOpens]

Inv ==
  /\ Types
  /\ SchemaFollowsVersions
  /\ Alone
  /\ \A p \in Process : Sound(p)

-----------------------------------------------------------------------------
\* The facts of the script that a process is in.
LEMMA ScriptLength ==
  ASSUME NEW v \in Versions
  PROVE  Len(Script(v)) \in 2..6
<1>1. CASE v = 5
  BY <1>1, RebuildScript
<1>2. CASE v # 5
  <2>1. Len(Script(v)) \in 2..4
    BY <1>2, PlainScript DEF IsPlain
  <2> QED BY <2>1
<1> QED BY <1>1, <1>2

LEMMA NextStep ==
  ASSUME Types, NEW p \in Process, Applying(p)
  PROVE  /\ NextVersion(p) \in Versions \ seen[p]
         /\ \A w \in Versions : w < NextVersion(p) => w \in seen[p]
         /\ Len(Script(NextVersion(p))) \in 2..6
         /\ at[p] \in 1..7
<1>1. seen[p] \in SUBSET Versions /\ seen[p] # Versions /\ at[p] \in 1..7
  BY DEF Types, Applying
<1>2. /\ NextVersion(p) \in Versions \ seen[p]
      /\ \A w \in Versions : w < NextVersion(p) => w \in seen[p]
  BY <1>1, LeastUnseen DEF NextVersion
<1>3. Len(Script(NextVersion(p))) \in 2..6
  BY <1>2, ScriptLength
<1> QED BY <1>1, <1>2, <1>3

LEMMA SameVersion ==
  ASSUME NEW p \in Process, seen'[p] = seen[p]
  PROVE  NextVersion(p)' = NextVersion(p)
BY DEF NextVersion

\* A process at the first statement of a script has done nothing of it.
LEMMA FirstStep ==
  ASSUME Types', NEW p \in Process, Applying(p)', at'[p] = 1, work'[p] = NoTx
  PROVE  InScript(p)'
<1>1. NextVersion(p)' \in Versions /\ Len(Script(NextVersion(p)')) \in 2..6
  <2>1. seen'[p] \in SUBSET Versions /\ seen'[p] # Versions
    BY DEF Types, Applying
  <2>2. NextVersion(p)' \in Versions
    BY <2>1, LeastUnseen DEF NextVersion
  <2> QED BY <2>2, ScriptLength
<1>2. Built(p)'
  BY <1>1 DEF Built
<1>3. \A n \in 2..6 : at'[p] <= n
  OBVIOUS
<1>4. at'[p] <= 2
  BY <1>3
<1>5. at'[p] <= Len(Script(NextVersion(p)'))
  BY <1>1, <1>3
<1>6. Outside(p)'
  BY <1>4, <1>5 DEF Outside
<1> QED BY <1>2, <1>6 DEF InScript

\* A process that does not move keeps what holds of it, as long as what is
\* committed grows or, while it holds the lock, does not change.
LEMMA Unmoved ==
  ASSUME Types, NEW p \in Process, Sound(p),
         pc'[p] = pc[p], seen'[p] = seen[p], at'[p] = at[p], work'[p] = work[p], fk'[p] = fk[p],
         \/ db' = db
         \/ /\ work[p] = NoTx
            /\ db.versions \subseteq db'.versions
            /\ db.objects \ {"collection_runs_new"} \subseteq db'.objects
  PROVE  Sound(p)'
<1>1. NextVersion(p)' = NextVersion(p)
  BY SameVersion
<1>2. Applying(p)' <=> Applying(p)
  BY DEF Applying
<1>3. seen[p]' \subseteq db'.versions /\ (pc[p]' = "ready" => seen[p]' = Versions)
      /\ (~fk[p]' \/ work[p]' # NoTx => Applying(p)')
  BY <1>2 DEF Sound
<1>4. ASSUME Applying(p)
      PROVE  InScript(p)'
  <2>1. InScript(p)
    BY <1>4 DEF Sound
  <2>2. NextVersion(p) \in Versions
    BY <1>4, NextStep
  <2>3. \A i \in 1..Len(Script(NextVersion(p))) - 1 :
          NextVersion(p) # 5 => Script(NextVersion(p))[i].object # "collection_runs_new"
    BY <2>2, PlainScript DEF IsPlain, Addition, Kept
  <2>4. Built(p)'
    BY <1>1, <2>1, <2>3 DEF InScript, Built
  <2>5. CASE work[p] = NoTx
    BY <2>1, <2>4, <2>5, <1>1 DEF InScript, Outside
  <2>6. CASE work[p] # NoTx
    BY <2>1, <2>4, <2>6, <1>1 DEF InScript, Rebuilding, Recorded
  <2> QED BY <2>5, <2>6
<1> QED BY <1>2, <1>3, <1>4 DEF Sound

-----------------------------------------------------------------------------
\* The actions, one by one.
LEMMA FailSafe ==
  ASSUME Inv, NEW p \in Process, Fail(p), UNCHANGED <<db, opens>>
  PROVE  Inv'
<1>1. Types'
  BY DEF Inv, Types, Fail
<1>2. SchemaFollowsVersions' /\ Alone'
  BY DEF Inv, Types, Fail, SchemaFollowsVersions, Alone
<1>3. Sound(p)'
  BY DEF Inv, Types, Fail, Sound, Applying
<1>4. ASSUME NEW q \in Process, q # p
      PROVE  Sound(q)'
  <2>1. pc'[q] = pc[q] /\ seen'[q] = seen[q] /\ at'[q] = at[q] /\ work'[q] = work[q] /\ fk'[q] = fk[q]
    BY <1>4 DEF Inv, Types, Fail
  <2> QED BY <2>1, Unmoved DEF Inv
<1> QED BY <1>1, <1>2, <1>3, <1>4 DEF Inv

LEMMA CrashSafe ==
  ASSUME Inv, NEW p \in Process, Crash(p)
  PROVE  Inv'
<1>1. Types'
  BY DEF Inv, Types, Crash
<1>2. SchemaFollowsVersions' /\ Alone'
  BY DEF Inv, Types, Crash, SchemaFollowsVersions, Alone
<1>3. Sound(p)'
  BY DEF Inv, Types, Crash, Sound, Applying
<1>4. ASSUME NEW q \in Process, q # p
      PROVE  Sound(q)'
  <2>1. pc'[q] = pc[q] /\ seen'[q] = seen[q] /\ at'[q] = at[q] /\ work'[q] = work[q] /\ fk'[q] = fk[q]
    BY <1>4 DEF Inv, Types, Crash
  <2> QED BY <2>1, Unmoved DEF Inv, Crash
<1> QED BY <1>1, <1>2, <1>3, <1>4 DEF Inv

LEMMA ReadySafe ==
  ASSUME Inv, NEW p \in Process, Ready(p)
  PROVE  Inv'
<1>1. Types'
  BY DEF Inv, Types, Ready
<1>2. SchemaFollowsVersions' /\ Alone'
  BY DEF Inv, Ready, SchemaFollowsVersions, Alone
<1>3. Sound(p)'
  BY DEF Inv, Types, Ready, Sound, Applying
<1>4. ASSUME NEW q \in Process, q # p
      PROVE  Sound(q)'
  <2>1. pc'[q] = pc[q] /\ seen'[q] = seen[q] /\ at'[q] = at[q] /\ work'[q] = work[q] /\ fk'[q] = fk[q]
    BY <1>4 DEF Inv, Types, Ready
  <2> QED BY <2>1, Unmoved DEF Inv, Ready
<1> QED BY <1>1, <1>2, <1>3, <1>4 DEF Inv

LEMMA OpenSafe ==
  ASSUME Inv, NEW p \in Process, Open(p)
  PROVE  Inv'
<1>1. Types'
  BY MigrationsAssumption DEF Inv, Types, Open, Database
<1>2. SchemaFollowsVersions' /\ Alone'
  BY DEF Inv, Open, SchemaFollowsVersions, Alone
<1>3. Sound(p)'
  <2>1. work[p] = NoTx
    BY DEF Inv, Open, Sound, Applying
  <2>2. pc'[p] = "applying" /\ seen'[p] = db.versions /\ at'[p] = 1 /\ work'[p] = NoTx /\ fk'[p] = TRUE /\ db' = db
    BY <2>1 DEF Inv, Types, Open
  <2>3. ASSUME Applying(p)'
        PROVE  InScript(p)'
    BY <1>1, <2>2, <2>3, FirstStep
  <2> QED BY <2>2, <2>3 DEF Sound, Applying
<1>4. ASSUME NEW q \in Process, q # p
      PROVE  Sound(q)'
  <2>1. pc'[q] = pc[q] /\ seen'[q] = seen[q] /\ at'[q] = at[q] /\ work'[q] = work[q] /\ fk'[q] = fk[q]
    BY <1>4 DEF Inv, Types, Open
  <2> QED BY <2>1, Unmoved DEF Inv, Open
<1> QED BY <1>1, <1>2, <1>3, <1>4 DEF Inv

\* What each kind of statement does.
LEMMA EffectCopy == \A s, d : s.op = "copy" => Effect(s, d) = [d EXCEPT !.copied = @ \cup d.rows]
BY DEF Effect

LEMMA EffectDrop == \A s, d : s.op = "drop" => Effect(s, d) = [d EXCEPT !.objects = @ \ Objects(5), !.rows = {}]
BY DEF Effect

LEMMA EffectRename ==
  \A s, d : s.op = "rename" =>
    Effect(s, d) = [d EXCEPT !.objects = (@ \ {"collection_runs_new"}) \cup {"collection_runs"},
                             !.rows = d.copied, !.copied = {}]
BY DEF Effect

LEMMA EffectRecord ==
  \A s, d : s.op = "record" => Effect(s, d) = [d EXCEPT !.versions = @ \cup {s.version}]
BY DEF Effect

LEMMA EffectAdd ==
  \A s, d : s.op = "create_if" \/ s.op = "create" \/ s.op = "add_column" =>
    Effect(s, d) = [d EXCEPT !.objects = @ \cup {s.object}]
BY DEF Effect

\* The objects there can be.
AllObjects == AllLeft \cup {"collection_runs_new"}

LEMMA ObjectsAre == "collection_runs_new" \in AllObjects /\ \A v \in Versions : Objects(v) \subseteq AllObjects
<1>1. \A v \in Versions : Objects(v) \subseteq AllLeft
  BY DEF AllLeft
<1> QED BY <1>1 DEF AllObjects

LEMMA DatabaseIs ==
  Database = [objects : SUBSET AllObjects, rows : SUBSET Row, kids : SUBSET Row,
              copied : SUBSET Row, versions : SUBSET Versions]
BY DEF Database, AllObjects

LEMMA RebuildLeaves == Objects(5) = {"collection_runs", "idx_runs_started"}
BY DEF Objects

\* A statement that commits by itself is one that creates or adds.
LEMMA CommitsAlone ==
  ASSUME Inv, NEW p \in Process, Applying(p), at[p] <= Len(Script(NextVersion(p))),
         work[p] = NoTx, NEW s, s = Script(NextVersion(p))[at[p]], ~OpensTransaction(s)
  PROVE  /\ NextVersion(p) # 5 => s \in Addition /\ at[p] < Len(Script(NextVersion(p)))
                                 /\ s.object \in Objects(NextVersion(p))
         /\ NextVersion(p) = 5 => s = Create("collection_runs_new") /\ at[p] = 1
<1>1. NextVersion(p) \in Versions /\ at[p] \in 1..7
  BY NextStep DEF Inv
<1>2. CASE NextVersion(p) # 5
  <2>1. IsPlain(NextVersion(p))
    BY <1>1, <1>2, PlainScript
  <2>2. at[p] # Len(Script(NextVersion(p)))
    BY <2>1 DEF IsPlain, OpensTransaction
  <2>3. at[p] \in 1..Len(Script(NextVersion(p))) - 1
    BY <1>1, <2>1, <2>2 DEF IsPlain
  <2> QED BY <1>1, <1>2, <2>1, <2>3 DEF IsPlain
<1>3. CASE NextVersion(p) = 5
  <2>1. at[p] <= 2
    BY <1>3 DEF Inv, Sound, InScript, Outside
  <2>2. at[p] # 2
    BY <1>3, RebuildScript DEF OpensTransaction
  <2>3. at[p] = 1
    BY <1>1, <2>1, <2>2
  <2> QED BY <1>3, <2>3, RebuildScript
<1> QED BY <1>2, <1>3

LEMMA AloneSafe ==
  ASSUME Inv, NEW p \in Process, Applying(p), at[p] <= Len(Script(NextVersion(p))),
         work[p] = NoTx, NEW s, s = Script(NextVersion(p))[at[p]], ~OpensTransaction(s),
         ~Blocked(p, s), db' = Effect(s, db), at' = [at EXCEPT ![p] = @ + 1],
         fk' = [fk EXCEPT ![p] = Enforced(p)], UNCHANGED <<work, pc, seen, opens>>
  PROVE  Inv'
<1> DEFINE v == NextVersion(p)
<1>1. v \in Versions /\ at[p] \in 1..7 /\ Len(Script(v)) \in 2..6 /\ at[p] <= Len(Script(v))
  BY NextStep DEF Inv
<1>2. /\ v # 5 => s \in Addition /\ at[p] < Len(Script(v)) /\ s.object \in Objects(v)
      /\ v = 5 => s = Create("collection_runs_new") /\ at[p] = 1
  BY CommitsAlone
<1> HIDE DEF v
<1>3. s.op = "create_if" \/ s.op = "create" \/ s.op = "add_column"
  BY <1>2 DEF Addition, Create
<1>4. s.object \in AllObjects
  <2>1. CASE v = 5
    <3>1. s = [op |-> "create", object |-> "collection_runs_new"]
      BY <2>1, <1>2 DEF Create
    <3>2. s.object = "collection_runs_new"
      BY <3>1
    <3> QED BY <3>2, ObjectsAre
  <2>2. CASE v # 5
    BY <2>2, <1>1, <1>2, ObjectsAre
  <2> QED BY <2>1, <2>2
<1>5. db \in Database
  BY DEF Inv, Types
<1>6. db' = [db EXCEPT !.objects = @ \cup {s.object}]
  BY <1>3, EffectAdd
<1>7. db' \in Database
  BY <1>4, <1>5, <1>6, DatabaseIs
<1>8. /\ db'.objects = db.objects \cup {s.object}
      /\ db'.versions = db.versions /\ db'.rows = db.rows
  BY <1>5, <1>6 DEF Database
<1>9. Types'
  <2>1. at' \in [Process -> 1..7]
    <3>1. \A n \in 2..6 : at[p] <= n => at[p] + 1 \in 1..7
      BY <1>1
    <3>2. at[p] + 1 \in 1..7
      BY <1>1, <3>1
    <3> QED BY <3>2 DEF Inv, Types
  <2>2. fk' \in [Process -> BOOLEAN]
    BY DEF Inv, Types, Enforced
  <2> QED BY <1>7, <2>1, <2>2 DEF Inv, Types
<1>10. SchemaFollowsVersions' /\ Alone'
  BY <1>8 DEF Inv, SchemaFollowsVersions, Alone
<1>11. Sound(p)'
  <2>1. NextVersion(p)' = v
    BY SameVersion DEF v
  <2>2. at'[p] = at[p] + 1
    BY <1>1 DEF Inv, Types
  <2>3. Built(p)'
    <3>1. ASSUME v # 5, NEW i \in 1..Len(Script(v)) - 1, i < at[p] + 1
          PROVE  Script(v)[i].object \in db'.objects
      <4>1. CASE i = at[p]
        BY <4>1, <1>8 DEF v
      <4>2. CASE i < at[p]
        BY <4>2, <3>1, <1>8 DEF Inv, Sound, InScript, Built, v
      <4> QED BY <3>1, <4>1, <4>2, <1>1
    <3> QED BY <2>1, <2>2, <3>1 DEF Built
  <2>4. Outside(p)'
    <3>1. at[p] + 1 <= Len(Script(v)) /\ (v = 5 => at[p] + 1 <= 2)
      BY <1>1, <1>2, RebuildScript
    <3> QED BY <2>1, <2>2, <3>1 DEF Outside
  <2> QED BY <1>8, <2>3, <2>4 DEF Inv, Types, Sound, Applying, InScript
<1>12. ASSUME NEW q \in Process, q # p
       PROVE  Sound(q)'
  <2>1. pc'[q] = pc[q] /\ seen'[q] = seen[q] /\ at'[q] = at[q] /\ work'[q] = work[q] /\ fk'[q] = fk[q]
    BY <1>12 DEF Inv, Types
  <2>2. CASE work[q] # NoTx
    <3>1. ~NeedsLock(s, db)
      BY <1>12, <2>2 DEF Blocked
    <3>2. s.object \in db.objects
      BY <3>1 DEF NeedsLock
    <3>3. db' = db
      BY <3>2, <1>5, <1>6 DEF Database
    <3> QED BY <2>1, <3>3, Unmoved DEF Inv
  <2>3. CASE work[q] = NoTx
    BY <2>1, <2>3, <1>8, Unmoved DEF Inv
  <2> QED BY <2>2, <2>3
<1> QED BY <1>9, <1>10, <1>11, <1>12 DEF Inv

\* A statement inside the transaction of p, which may be the first one of it.
LEMMA InsideSafe ==
  ASSUME Inv, NEW p \in Process, Applying(p), at[p] <= Len(Script(NextVersion(p))),
         NEW s, s = Script(NextVersion(p))[at[p]],
         NEW view, view = IF work[p] = NoTx THEN db ELSE work[p],
         work[p] # NoTx \/ OpensTransaction(s),
         ~Blocked(p, s), ~Fails(s, view, Enforced(p)),
         work' = [work EXCEPT ![p] = Effect(s, view)], at' = [at EXCEPT ![p] = @ + 1],
         fk' = [fk EXCEPT ![p] = Enforced(p)], UNCHANGED <<db, pc, seen, opens>>
  PROVE  Inv'
<1> DEFINE v == NextVersion(p)
           w == Effect(s, view)
<1>1. v \in Versions /\ at[p] \in 1..7 /\ Len(Script(v)) \in 2..6 /\ at[p] <= Len(Script(v))
  BY NextStep DEF Inv
<1>2. InScript(p) /\ v \notin seen[p]
  BY NextStep DEF Inv, Sound
<1>3. db \in Database /\ view \in Database
  BY DEF Inv, Types
<1>4. at'[p] = at[p] + 1 /\ work'[p] = w /\ NextVersion(p)' = v /\ (Applying(p)' <=> Applying(p))
  BY SameVersion, <1>1 DEF Inv, Types, Applying
<1> DEFINE Good ==
      /\ w \in Database
      /\ \/ /\ v = 5 /\ at[p] + 1 \in 3..6
            /\ w.versions = db.versions
            /\ db.objects \ (Objects(5) \cup {"collection_runs_new"}) \subseteq w.objects
            /\ at[p] + 1 >= 5 => "collection_runs" \in w.objects
            /\ at[p] + 1 >= 6 => "idx_runs_started" \in w.objects
            /\ db.rows \subseteq IF at[p] + 1 >= 5 THEN w.rows ELSE w.copied
         \/ /\ at[p] = Len(Script(v))
            /\ w.versions = db.versions \cup {v}
            /\ db.objects \ {"collection_runs_new"} \subseteq w.objects
            /\ Objects(v) \subseteq w.objects
            /\ db.rows \subseteq w.rows
<1> HIDE DEF v, w
<1>8. {"collection_runs", "idx_runs_started"} \subseteq AllObjects
  <2>1. 5 \in Versions
    BY DEF Versions
  <2> QED BY <2>1, RebuildLeaves, ObjectsAre
<1>5. ASSUME v # 5
      PROVE  Good
  <2>1. IsPlain(v)
    BY <1>1, <1>5, PlainScript
  <2>2. work[p] = NoTx
    BY <1>1, <1>2, <1>5 DEF InScript, Rebuilding, Recorded, v
  <2>3. at[p] = Len(Script(v)) /\ s = [op |-> "record", version |-> v]
    <3>1. ~(at[p] \in 1..Len(Script(v)) - 1)
      BY <2>1, <2>2 DEF IsPlain, Addition, OpensTransaction, v
    <3>2. at[p] = Len(Script(v))
      BY <1>1, <3>1
    <3> QED BY <2>1, <3>2 DEF IsPlain, v
  <2>4. w = [db EXCEPT !.versions = @ \cup {v}]
    <3>1. s.op = "record" /\ s.version = v /\ view = db
      BY <2>2, <2>3
    <3> QED BY <3>1, EffectRecord DEF w
  <2>5. Objects(v) \subseteq db.objects
    <3>1. \A i \in 1..Len(Script(v)) - 1 : Script(v)[i].object \in db.objects
      BY <1>1, <1>2, <1>5, <2>3 DEF InScript, Built, v
    <3> QED BY <2>1, <3>1 DEF IsPlain
  <2> QED BY <1>1, <1>3, <2>3, <2>4, <2>5 DEF Database
<1>6. ASSUME v = 5
      PROVE  Good
  <2>1. CASE work[p] = NoTx
    <3>1. at[p] = 2
      <4>1. at[p] <= 2
        BY <1>2, <1>6, <2>1 DEF InScript, Outside, v
      <4>2. at[p] # 1
        BY <1>6, <2>1, RebuildScript DEF OpensTransaction, Create, v
      <4> QED BY <1>1, <4>1, <4>2
    <3>2. w = [db EXCEPT !.copied = @ \cup db.rows]
      <4>1. s.op = "copy" /\ view = db
        BY <1>6, <2>1, <3>1, RebuildScript DEF v
      <4> QED BY <4>1, EffectCopy DEF w
    <3>3. /\ w \in Database
          /\ w.versions = db.versions /\ w.objects = db.objects /\ db.rows \subseteq w.copied
      BY <1>3, <3>2 DEF Database
    <3> QED BY <1>6, <3>1, <3>3
  <2>2. CASE work[p] # NoTx
    <3>1. Rebuilding(p) /\ view = work[p]
      BY <1>1, <1>2, <2>2 DEF InScript, Recorded, v
    <3>2. at[p] \in 3..6
      BY <3>1 DEF Rebuilding
    <3>3. CASE at[p] = 3
      <4>1. w = [view EXCEPT !.objects = @ \ Objects(5), !.rows = {}]
        <5>1. s.op = "drop"
          BY <1>6, <3>3, RebuildScript DEF v
        <5> QED BY <5>1, EffectDrop DEF w
      <4>2. /\ w \in Database
            /\ w.versions = view.versions /\ w.objects = view.objects \ Objects(5) /\ w.copied = view.copied
        BY <1>3, <4>1 DEF Database
      <4> QED BY <1>6, <3>1, <3>3, <4>2 DEF Rebuilding
    <3>4. CASE at[p] = 4
      <4>1. w = [view EXCEPT !.objects = (@ \ {"collection_runs_new"}) \cup {"collection_runs"},
                             !.rows = view.copied, !.copied = {}]
        <5>1. s.op = "rename"
          BY <1>6, <3>4, RebuildScript DEF v
        <5> QED BY <5>1, EffectRename DEF w
      <4>2. /\ w \in Database
            /\ w.versions = view.versions /\ w.rows = view.copied
            /\ w.objects = (view.objects \ {"collection_runs_new"}) \cup {"collection_runs"}
        <5>1. "collection_runs" \in AllObjects
          BY <1>8
        <5>2. (view.objects \ {"collection_runs_new"}) \cup {"collection_runs"} \in SUBSET AllObjects
          BY <1>3, <5>1, DatabaseIs
        <5> QED BY <1>3, <5>2, <4>1, DatabaseIs
      <4> QED BY <1>6, <3>1, <3>4, <4>2 DEF Rebuilding
    <3>5. CASE at[p] = 5
      <4>1. w = [view EXCEPT !.objects = @ \cup {"idx_runs_started"}]
        <5>1. s = [op |-> "create_if", object |-> "idx_runs_started"]
          BY <1>6, <3>5, RebuildScript DEF v, CreateIf
        <5>2. s.op = "create_if" /\ s.object = "idx_runs_started"
          BY <5>1
        <5>3. s.op = "create_if"
          BY <5>1
        <5>4. Effect(s, view) = [view EXCEPT !.objects = @ \cup {s.object}]
          BY <5>3, EffectAdd
        <5> QED BY <5>2, <5>4 DEF w
      <4>2. /\ w \in Database
            /\ w.versions = view.versions /\ w.rows = view.rows
            /\ w.objects = view.objects \cup {"idx_runs_started"}
        BY <1>3, <1>8, <4>1, DatabaseIs
      <4> QED BY <1>6, <3>1, <3>5, <4>2 DEF Rebuilding
    <3>6. CASE at[p] = 6
      <4>1. w = [view EXCEPT !.versions = @ \cup {5}]
        <5>1. s.op = "record" /\ s.version = 5
          BY <1>6, <3>6, RebuildScript DEF v
        <5>2. Effect(s, view) = [view EXCEPT !.versions = @ \cup {s.version}]
          BY <5>1, EffectRecord
        <5> QED BY <5>1, <5>2 DEF w
      <4>2. /\ w \in Database
            /\ w.versions = view.versions \cup {5} /\ w.rows = view.rows /\ w.objects = view.objects
        BY <1>1, <1>3, <1>6, <4>1 DEF Database
      <4> QED BY <1>6, <3>1, <3>6, <4>2, RebuildLeaves, RebuildScript DEF Rebuilding
    <3> QED BY <3>2, <3>3, <3>4, <3>5, <3>6
  <2> QED BY <2>1, <2>2
<1>7. Good
  BY <1>5, <1>6
<1>9. w # NoTx /\ Sound(p)'
  <2>1. w # NoTx
    BY <1>7, NoTxAssumption
  <2>2. Built(p)'
    <3>1. ASSUME v # 5, NEW i \in 1..Len(Script(v)) - 1, i < at[p] + 1
          PROVE  Script(v)[i].object \in db.objects
      <4>1. i < at[p]
        <5>1. at[p] = Len(Script(v))
          BY <1>7, <3>1
        <5> QED BY <5>1, <3>1, <1>1
      <4> QED BY <4>1, <3>1, <1>2 DEF InScript, Built, v
    <3> QED BY <1>4, <3>1 DEF Built
  <2>3. Rebuilding(p)' \/ Recorded(p)'
    <3> USE DEF Rebuilding, Recorded
    <3> QED BY <1>4, <1>7
  <2>4. InScript(p)'
    BY <1>4, <2>1, <2>2, <2>3 DEF InScript
  <2>5. seen'[p] \subseteq db'.versions /\ pc'[p] # "ready"
    BY DEF Inv, Sound, Applying
  <2>6. Applying(p)'
    BY <1>4
  <2> QED BY <2>1, <2>4, <2>5, <2>6 DEF Sound
<1>10. Types'
  <2>1. at' \in [Process -> 1..7]
    <3>1. \A n \in 2..6 : at[p] <= n => at[p] + 1 \in 1..7
      BY <1>1
    <3>2. at[p] + 1 \in 1..7
      BY <1>1, <3>1
    <3> QED BY <3>2 DEF Inv, Types
  <2>2. fk' \in [Process -> BOOLEAN]
    BY DEF Inv, Types, Enforced
  <2>3. work' \in [Process -> Database \cup {NoTx}]
    BY <1>7 DEF Inv, Types, w
  <2> QED BY <2>1, <2>2, <2>3 DEF Inv, Types
<1>11. Alone'
  <2>1. \A q \in Process \ {p} : work[q] = NoTx
    <3>1. CASE work[p] # NoTx
      BY <3>1 DEF Inv, Alone
    <3>2. CASE work[p] = NoTx
      BY <3>2 DEF OpensTransaction, Blocked, NeedsLock
    <3> QED BY <3>1, <3>2
  <2> QED BY <2>1 DEF Inv, Types, Alone
<1>12. ASSUME NEW q \in Process, q # p
       PROVE  Sound(q)'
  <2>1. pc'[q] = pc[q] /\ seen'[q] = seen[q] /\ at'[q] = at[q] /\ work'[q] = work[q] /\ fk'[q] = fk[q]
    BY <1>12 DEF Inv, Types
  <2> QED BY <2>1, Unmoved DEF Inv
<1>13. SchemaFollowsVersions'
  BY DEF Inv, SchemaFollowsVersions
<1> QED BY <1>9, <1>10, <1>11, <1>12, <1>13 DEF Inv

LEMMA ExecuteSafe ==
  ASSUME Inv, NEW p \in Process, Execute(p)
  PROVE  Inv'
<1> DEFINE s == Script(NextVersion(p))[at[p]]
           view == IF work[p] = NoTx THEN db ELSE work[p]
<1>1. CASE Fail(p) /\ UNCHANGED db
  BY <1>1, FailSafe DEF Execute
<1>2. CASE /\ ~Blocked(p, s) /\ ~Fails(s, view, Enforced(p))
           /\ IF work[p] # NoTx \/ OpensTransaction(s)
              THEN work' = [work EXCEPT ![p] = Effect(s, view)] /\ UNCHANGED db
              ELSE db' = Effect(s, db) /\ UNCHANGED work
           /\ at' = [at EXCEPT ![p] = @ + 1]
           /\ fk' = [fk EXCEPT ![p] = Enforced(p)]
           /\ UNCHANGED <<pc, seen>>
  <2>1. Applying(p) /\ at[p] <= Len(Script(NextVersion(p))) /\ opens' = opens
    BY DEF Execute
  <2>2. CASE work[p] # NoTx \/ OpensTransaction(s)
    BY <1>2, <2>1, <2>2, InsideSafe
  <2>3. CASE ~(work[p] # NoTx \/ OpensTransaction(s))
    BY <1>2, <2>1, <2>3, AloneSafe
  <2> QED BY <2>2, <2>3
<1> QED BY <1>1, <1>2 DEF Execute

\* The commit at the end of a script.
LEMMA Commits ==
  ASSUME Inv, NEW p \in Process, Applying(p), at[p] > Len(Script(NextVersion(p)))
  PROVE  work[p] # NoTx /\ Recorded(p)
<1>1. at[p] \in 1..7 /\ Len(Script(NextVersion(p))) \in 2..6
  BY NextStep DEF Inv
<1>2. InScript(p)
  BY DEF Inv, Sound
<1>3. work[p] # NoTx
  BY <1>1, <1>2 DEF InScript, Outside
<1>4. ~Rebuilding(p)
  BY <1>1, RebuildScript DEF Rebuilding
<1> QED BY <1>2, <1>3, <1>4 DEF InScript

LEMMA AppliedSafe ==
  ASSUME Inv, NEW p \in Process, Applied(p)
  PROVE  Inv'
<1> DEFINE v == NextVersion(p)
<1>1. /\ Applying(p) /\ db' = work[p] /\ UNCHANGED <<pc, opens>>
      /\ work' = [work EXCEPT ![p] = NoTx]
      /\ seen' = [seen EXCEPT ![p] = @ \cup {v}]
      /\ at' = [at EXCEPT ![p] = 1]
      /\ fk' = [fk EXCEPT ![p] = TRUE]
  BY DEF Applied, Commit
<1>2. work[p] # NoTx /\ Recorded(p)
  BY Commits DEF Applied
<1>3. v \in Versions \ seen[p] /\ \A u \in Versions : u < v => u \in seen[p]
  BY <1>1, NextStep DEF Inv
<1>4. /\ db'.versions = db.versions \cup {v}
      /\ db.objects \ {"collection_runs_new"} \subseteq db'.objects
      /\ Objects(v) \subseteq db'.objects
  BY <1>1, <1>2 DEF Recorded
<1> HIDE DEF v
<1>5. Types'
  BY <1>1, <1>2, <1>3 DEF Inv, Types
<1>6. SchemaFollowsVersions'
  <2>1. \A u \in Versions : "collection_runs_new" \notin Objects(u)
    <3>1. ASSUME NEW u \in Versions, u # 5
          PROVE  "collection_runs_new" \notin Objects(u)
      <4>1. IsPlain(u)
        BY <3>1, PlainScript
      <4>2. \A i \in 1..Len(Script(u)) - 1 : Script(u)[i].object # "collection_runs_new"
        BY <4>1 DEF IsPlain, Addition, Kept
      <4>3. Objects(u) = {Script(u)[i].object : i \in 1..Len(Script(u)) - 1}
        BY <4>1 DEF IsPlain
      <4> QED BY <4>2, <4>3
    <3>2. "collection_runs_new" \notin Objects(5)
      BY RebuildLeaves
    <3> QED BY <3>1, <3>2
  <2>2. ASSUME NEW u \in db.versions
        PROVE  1..u \subseteq db'.versions /\ Objects(u) \subseteq db'.objects
    <3>1. u \in Versions
      BY DEF Inv, Types, Database
    <3> QED BY <1>4, <2>1, <3>1 DEF Inv, SchemaFollowsVersions
  <2>3. 1..v \subseteq db'.versions
    <3>1. ASSUME NEW i \in 1..v, i # v
          PROVE  i \in db.versions
      BY <1>3, <3>1 DEF Versions, Inv, Sound
    <3> QED BY <1>4, <3>1
  <2> QED BY <1>4, <2>2, <2>3 DEF SchemaFollowsVersions
<1>7. Alone'
  BY <1>1 DEF Inv, Types, Alone
<1>8. Sound(p)'
  <2>1. /\ pc'[p] = "applying" /\ seen'[p] = seen[p] \cup {v} /\ at'[p] = 1
        /\ work'[p] = NoTx /\ fk'[p] = TRUE
    BY <1>1 DEF Inv, Types, Applying
  <2>2. seen'[p] \subseteq db'.versions
    BY <1>4, <2>1 DEF Inv, Sound
  <2>3. ASSUME Applying(p)'
        PROVE  InScript(p)'
    BY <1>5, <2>1, <2>3, FirstStep
  <2> QED BY <2>1, <2>2, <2>3 DEF Sound, Applying
<1>9. ASSUME NEW q \in Process, q # p
      PROVE  Sound(q)'
  <2>1. pc'[q] = pc[q] /\ seen'[q] = seen[q] /\ at'[q] = at[q] /\ work'[q] = work[q] /\ fk'[q] = fk[q]
    BY <1>1, <1>9 DEF Inv, Types
  <2>2. work[q] = NoTx
    BY <1>2, <1>9 DEF Inv, Alone
  <2> QED BY <1>4, <2>1, <2>2, Unmoved DEF Inv
<1> QED BY <1>5, <1>6, <1>7, <1>8, <1>9 DEF Inv

LEMMA CollectSafe ==
  ASSUME Inv, NEW r \in Row, Collect(r) \/ Refer(r)
  PROVE  Inv'
<1>1. /\ UNCHANGED <<work, pc, seen, at, fk, opens>>
      /\ \A p \in Process : work[p] = NoTx
  BY DEF Collect, Refer
<1>2. db' \in Database /\ db'.objects = db.objects /\ db'.versions = db.versions
  BY DEF Inv, Types, Database, Collect, Refer
<1>3. Types' /\ SchemaFollowsVersions' /\ Alone'
  BY <1>1, <1>2 DEF Inv, Types, SchemaFollowsVersions, Alone
<1>4. ASSUME NEW q \in Process
      PROVE  Sound(q)'
  BY <1>1, <1>2, Unmoved DEF Inv
<1> QED BY <1>3, <1>4 DEF Inv

-----------------------------------------------------------------------------
LEMMA InitSafe == Init => Inv
<1> SUFFICES ASSUME Init
             PROVE  Inv
  OBVIOUS
<1>1. PICK k \in 0..7, rows \in SUBSET Row, kids \in SUBSET Row :
        db = [objects |-> UNION {Objects(v) : v \in 1..k}, rows |-> rows,
              kids |-> kids, copied |-> {}, versions |-> 1..k]
  BY DEF Init
<1>2. 1..k \subseteq Versions
  BY DEF Versions
<1>3. db \in Database
  BY <1>1, <1>2 DEF Database, AllLeft
<1>4. Types
  BY <1>3, MigrationsAssumption DEF Init, Types
<1>5. SchemaFollowsVersions
  <2>1. db.versions = 1..k /\ \A v \in 1..k : Objects(v) \subseteq db.objects
    BY <1>1
  <2> QED BY <2>1 DEF SchemaFollowsVersions
<1>6. Alone /\ \A p \in Process : Sound(p)
  BY DEF Init, Alone, Sound, Applying
<1> QED BY <1>4, <1>5, <1>6 DEF Inv

LEMMA StepSafe == Inv /\ [Next]_vars => Inv'
<1> SUFFICES ASSUME Inv, [Next]_vars
             PROVE  Inv'
  OBVIOUS
<1>1. ASSUME NEW p \in Process, Open(p)
      PROVE  Inv'
  BY <1>1, OpenSafe
<1>2. ASSUME NEW p \in Process, Execute(p)
      PROVE  Inv'
  BY <1>2, ExecuteSafe
<1>3. ASSUME NEW p \in Process, Applied(p)
      PROVE  Inv'
  BY <1>3, AppliedSafe
<1>4. ASSUME NEW p \in Process, Ready(p)
      PROVE  Inv'
  BY <1>4, ReadySafe
<1>5. ASSUME NEW p \in Process, Crash(p)
      PROVE  Inv'
  BY <1>5, CrashSafe
<1>6. ASSUME NEW r \in Row, Collect(r) \/ Refer(r)
      PROVE  Inv'
  BY <1>6, CollectSafe
<1>7. CASE UNCHANGED vars
  <2>1. UNCHANGED <<db, work, pc, seen, at, fk, opens>>
    BY <1>7 DEF vars
  <2>2. Types' /\ SchemaFollowsVersions' /\ Alone'
    BY <2>1 DEF Inv, Types, SchemaFollowsVersions, Alone
  <2>3. \A q \in Process : Sound(q)'
    BY <2>1, Unmoved DEF Inv
  <2> QED BY <2>2, <2>3 DEF Inv
<1> QED BY <1>1, <1>2, <1>3, <1>4, <1>5, <1>6, <1>7 DEF Next, Migrate

LEMMA Invariance == Spec => []Inv
BY InitSafe, StepSafe, PTL DEF Spec

-----------------------------------------------------------------------------
LEMMA InvTypes == Inv => TypeOK
<1> SUFFICES ASSUME Inv
             PROVE  TypeOK
  OBVIOUS
<1>1. ASSUME NEW p \in Process
      PROVE  at[p] \in 1..(1 + IF Applying(p) THEN Len(Script(NextVersion(p))) ELSE 6)
  <2>1. at[p] \in 1..7
    BY DEF Inv, Types
  <2>2. CASE Applying(p)
    <3>1. Len(Script(NextVersion(p))) \in 2..6
      BY <2>2, NextStep DEF Inv
    <3>2. InScript(p)
      BY <2>2 DEF Inv, Sound
    <3>3. \A n \in 2..6 : n = Len(Script(NextVersion(p))) => at[p] \in 1..1 + n
      BY <2>1, <3>2, RebuildScript DEF InScript, Outside, Rebuilding, Recorded
    <3> QED BY <2>2, <3>1, <3>3
  <2>3. CASE ~Applying(p)
    BY <2>1, <2>3
  <2> QED BY <2>2, <2>3
<1> QED BY <1>1 DEF Inv, Types, TypeOK

\* Every variable keeps its type, for any number of processes and runs: the
\* index never leaves the script at work (migrate's loops).
THEOREM TypeCorrect == Spec => []TypeOK
BY Invariance, InvTypes, PTL

\* The recorded versions are an initial segment of the scripts and what they
\* create is committed, whatever processes race, fail or die (migrate).
THEOREM SchemaTruth == Spec => []SchemaFollowsVersions
<1>1. Inv => SchemaFollowsVersions
  BY DEF Inv
<1> QED BY <1>1, Invariance, PTL

\* connect() hands out only connections that enforce foreign keys, to a
\* database at the last version.
THEOREM ReadyIsCurrent == Spec => []ReadyMeansCurrent
<1>1. Inv => ReadyMeansCurrent
  BY DEF Inv, Types, Database, Sound, Applying, ReadyMeansCurrent
<1> QED BY <1>1, Invariance, PTL

\* No step of migrate loses a row of collection_runs: its rebuild hands on all
\* that was committed before the copy took the write lock, and whatever fails in
\* it is rolled back.
THEOREM NoRunLost == Spec => RunsSurvive
<1>1. Inv /\ [Next]_vars => [db.rows \subseteq db'.rows]_vars
  <2> SUFFICES ASSUME Inv, Next
               PROVE  db.rows \subseteq db'.rows
    BY DEF vars
  <2>1. ASSUME NEW p \in Process, Applied(p)
        PROVE  db.rows \subseteq db'.rows
    <3>1. Recorded(p) /\ db' = work[p]
      BY <2>1, Commits DEF Applied, Commit
    <3> QED BY <3>1 DEF Recorded
  <2>2. ASSUME NEW p \in Process, Execute(p)
        PROVE  db.rows \subseteq db'.rows
    <3>1. CASE UNCHANGED db
      BY <3>1
    <3>2. CASE ~UNCHANGED db
      <4> DEFINE s == Script(NextVersion(p))[at[p]]
      <4>1. /\ Applying(p) /\ at[p] <= Len(Script(NextVersion(p)))
            /\ work[p] = NoTx /\ ~OpensTransaction(s) /\ db' = Effect(s, db)
        BY <2>2, <3>2 DEF Execute
      <4>2. \/ NextVersion(p) # 5 /\ s \in Addition
            \/ s = Create("collection_runs_new")
        BY <4>1, CommitsAlone
      <4>3. s.op = "create_if" \/ s.op = "create" \/ s.op = "add_column"
        BY <4>2 DEF Addition, Create
      <4>4. db' = [db EXCEPT !.objects = @ \cup {s.object}]
        BY <4>1, <4>3, EffectAdd
      <4> QED BY <4>4 DEF Inv, Types, Database
    <3> QED BY <3>1, <3>2
  <2>3. ASSUME NEW r \in Row, Collect(r) \/ Refer(r)
        PROVE  db.rows \subseteq db'.rows
    BY <2>3 DEF Inv, Types, Database, Collect, Refer
  <2>4. ASSUME NEW p \in Process, Open(p) \/ Ready(p) \/ Crash(p)
        PROVE  db.rows \subseteq db'.rows
    BY <2>4 DEF Open, Ready, Crash
  <2> QED BY <2>1, <2>2, <2>3, <2>4 DEF Next, Migrate
<1> QED BY <1>1, Invariance, PTL DEF Spec, RunsSurvive

\* A version once recorded stays recorded, and an object once committed stays
\* committed, the working table of the rebuild apart: no interleaving of
\* processes, statements that commit alone and rollbacks takes the schema back.
SchemaOnlyGrows ==
  [][/\ db.versions \subseteq db'.versions
     /\ db.objects \ {"collection_runs_new"} \subseteq db'.objects]_vars

\* migrate only ever adds to the schema that other processes rely on.
THEOREM SchemaGrows == Spec => SchemaOnlyGrows
<1> DEFINE Grown == /\ db.versions \subseteq db'.versions
                    /\ db.objects \ {"collection_runs_new"} \subseteq db'.objects
<1>1. Inv /\ [Next]_vars => [Grown]_vars
  <2> SUFFICES ASSUME Inv, Next
               PROVE  Grown
    BY DEF vars
  <2>1. ASSUME NEW p \in Process, Applied(p)
        PROVE  Grown
    <3>1. Recorded(p) /\ db' = work[p]
      BY <2>1, Commits DEF Applied, Commit
    <3> QED BY <3>1 DEF Recorded
  <2>2. ASSUME NEW p \in Process, Execute(p), ~UNCHANGED db
        PROVE  Grown
    <3> DEFINE s == Script(NextVersion(p))[at[p]]
    <3>1. /\ Applying(p) /\ at[p] <= Len(Script(NextVersion(p)))
          /\ work[p] = NoTx /\ ~OpensTransaction(s) /\ db' = Effect(s, db)
      BY <2>2 DEF Execute
    <3>2. \/ NextVersion(p) # 5 /\ s \in Addition
          \/ s = Create("collection_runs_new")
      BY <3>1, CommitsAlone
    <3>3. s.op = "create_if" \/ s.op = "create" \/ s.op = "add_column"
      BY <3>2 DEF Addition, Create
    <3>4. db' = [db EXCEPT !.objects = @ \cup {s.object}]
      BY <3>1, <3>3, EffectAdd
    <3> QED BY <3>4 DEF Inv, Types, Database
  <2>3. ASSUME NEW r \in Row, Collect(r) \/ Refer(r)
        PROVE  Grown
    BY <2>3 DEF Inv, Types, Database, Collect, Refer
  <2>4. ASSUME NEW p \in Process, Open(p) \/ Ready(p) \/ Crash(p)
        PROVE  Grown
    BY <2>4 DEF Open, Ready, Crash
  <2> QED BY <2>1, <2>2, <2>3, <2>4 DEF Next, Migrate
<1> QED BY <1>1, Invariance, PTL DEF Spec, SchemaOnlyGrows

-----------------------------------------------------------------------------
\* The three statements that are refused when they are repeated, each the first
\* of its script: what they make.
Once(v) == CASE v = 5 -> "collection_runs_new"
             [] v = 6 -> "pool_states.provenance_json"
             [] v = 7 -> "pools.fee_tier_raw"

LEMMA OnceAre ==
  /\ Once(5) = "collection_runs_new"
  /\ Once(6) = "pool_states.provenance_json"
  /\ Once(7) = "pools.fee_tier_raw"
BY DEF Once

LEMMA OnceDiffer == \A v, w \in 5..7 : Once(v) = Once(w) => v = w
<1>1. \A v \in 5..7 : v = 5 \/ v = 6 \/ v = 7
  OBVIOUS
<1> QED BY <1>1, OnceAre

\* A statement that makes something either does so if it is not there, or is
\* the first of script 5, 6 or 7.
Makes(s, v, i) ==
  /\ s.op \in {"create_if", "create", "add_column"}
  /\ s.op = "create_if" => \A w \in 5..7 : s.object # Once(w)
  /\ s.op # "create_if" => v \in 5..7 /\ i = 1 /\ s.object = Once(v)

LEMMA MakesIf ==
  ASSUME NEW o \in Kept \ {"pool_states.provenance_json", "pools.fee_tier_raw"}, NEW v, NEW i
  PROVE  Makes(CreateIf(o), v, i)
<1>1. CreateIf(o).op = "create_if" /\ CreateIf(o).object = o
  BY DEF CreateIf
<1>2. \A w \in 5..7 : w = 5 \/ w = 6 \/ w = 7
  OBVIOUS
<1>3. \A w \in 5..7 : o # Once(w)
  BY <1>2, OnceAre DEF Kept
<1> QED BY <1>1, <1>3 DEF Makes

LEMMA MakesOnce ==
  ASSUME NEW v \in 6..7
  PROVE  Makes(AddColumn(Once(v)), v, 1)
<1>1. AddColumn(Once(v)).op = "add_column" /\ AddColumn(Once(v)).object = Once(v)
  BY DEF AddColumn
<1> QED BY <1>1 DEF Makes

LEMMA ShortScript ==
  ASSUME NEW v, NEW s, Statements[v] = <<s>>
  PROVE  Len(Script(v)) = 2 /\ Script(v)[1] = s
<1> DEFINE r == [op |-> "record", version |-> v]
<1>1. Script(v) = Append(<<s>>, r)
  BY DEF Script
<1> HIDE DEF r
<1> QED BY <1>1

LEMMA FirstScript ==
  /\ Len(Script(1)) = 4
  /\ Script(1)[1] = CreateIf("collection_runs")
  /\ Script(1)[2] = CreateIf("idx_runs_started")
  /\ Script(1)[3] = CreateIf("pools")
BY StatementsOf DEF Script

\* What each statement of a script is, its index and version given.
LEMMA StatementIs ==
  ASSUME NEW v \in Versions, NEW i \in 1..Len(Script(v))
  PROVE  \/ Makes(Script(v)[i], v, i)
         \/ i = Len(Script(v)) /\ Script(v)[i] = [op |-> "record", version |-> v]
         \/ v = 5 /\ i = 2 /\ Script(v)[i] = [op |-> "copy"]
         \/ v = 5 /\ i = 3 /\ Script(v)[i] = [op |-> "drop"]
         \/ v = 5 /\ i = 4 /\ Script(v)[i] = [op |-> "rename"]
<1>1. CASE v = 1
  <2>1. i \in 1..4
    BY <1>1, FirstScript
  <2>2. i = 1 \/ i = 2 \/ i = 3 \/ i = 4
    BY <2>1
  <2>3. Makes(CreateIf("collection_runs"), v, i) /\ Makes(CreateIf("idx_runs_started"), v, i)
        /\ Makes(CreateIf("pools"), v, i)
    BY MakesIf DEF Kept
  <2>4. Script(1)[4] = [op |-> "record", version |-> 1]
    BY StatementsOf DEF Script
  <2> QED BY <1>1, <2>2, <2>3, <2>4, FirstScript
<1>2. CASE v = 5
  <2>1. i = 1 \/ i = 2 \/ i = 3 \/ i = 4 \/ i = 5 \/ i = 6
    <3>1. i \in 1..6
      BY <1>2, RebuildScript
    <3> QED BY <3>1
  <2>2. Makes(Create("collection_runs_new"), 5, 1)
    <3>1. Create("collection_runs_new").op = "create" /\ Create("collection_runs_new").object = Once(5)
      BY OnceAre DEF Create
    <3> QED BY <3>1 DEF Makes
  <2>3. Makes(CreateIf("idx_runs_started"), v, i)
    BY MakesIf DEF Kept
  <2> QED BY <1>2, <2>1, <2>2, <2>3, RebuildScript
<1>3. CASE v \in {2, 3, 4, 6, 7}
  <2>1. \E s : Statements[v] = <<s>> /\ Makes(s, v, 1)
    <3>1. Makes(CreateIf("pool_states"), v, 1) /\ Makes(CreateIf("liquidity_events"), v, 1)
          /\ Makes(CreateIf("provider_health"), v, 1)
      BY MakesIf DEF Kept
    <3>2. v \in 6..7 => Makes(AddColumn(Once(v)), v, 1)
      BY MakesOnce
    <3> QED BY <1>3, <3>1, <3>2, StatementsOf, OnceAre
  <2>2. PICK s : Statements[v] = <<s>> /\ Makes(s, v, 1)
    BY <2>1
  <2>3. Len(Script(v)) = 2 /\ Script(v)[1] = s
    BY <2>2, ShortScript
  <2>4. i = 1 \/ i = 2
    BY <2>3
  <2>5. IsPlain(v)
    BY <1>3, PlainScript
  <2> QED BY <2>2, <2>3, <2>4, <2>5 DEF IsPlain
<1> QED BY <1>1, <1>2, <1>3, VersionCases

LEMMA StatementKind ==
  ASSUME NEW v \in Versions, NEW i \in 1..Len(Script(v)), NEW s, s = Script(v)[i]
  PROVE  \/ Makes(s, v, i)
         \/ i = Len(Script(v)) /\ s.op = "record" /\ s.version = v
         \/ v = 5 /\ i = 2 /\ s.op = "copy"
         \/ v = 5 /\ i = 3 /\ s.op = "drop"
         \/ v = 5 /\ i = 4 /\ s.op = "rename"
<1>1. \A u : [op |-> "record", version |-> u].op = "record" /\ [op |-> "record", version |-> u].version = u
  OBVIOUS
<1>2. [op |-> "copy"].op = "copy" /\ [op |-> "drop"].op = "drop" /\ [op |-> "rename"].op = "rename"
  OBVIOUS
<1>3. \/ Makes(s, v, i)
      \/ i = Len(Script(v)) /\ s = [op |-> "record", version |-> v]
      \/ v = 5 /\ i = 2 /\ s = [op |-> "copy"]
      \/ v = 5 /\ i = 3 /\ s = [op |-> "drop"]
      \/ v = 5 /\ i = 4 /\ s = [op |-> "rename"]
  BY StatementIs
<1>4. CASE s = [op |-> "record", version |-> v]
  BY <1>4, <1>1, <1>3
<1>5. CASE s # [op |-> "record", version |-> v]
  BY <1>5, <1>2, <1>3
<1> QED BY <1>4, <1>5

\* What a version leaves behind has of these three its own only.
LEMMA OnceLeft ==
  ASSUME NEW v \in Versions, NEW w \in 5..7
  PROVE  /\ Once(w) \in Objects(v) => v = w /\ w # 5
         /\ w # 5 => Once(w) \in Objects(w)
<1>0. w = 5 \/ w = 6 \/ w = 7
  OBVIOUS
<1>1. Once(w) \in Objects(v) => v = w /\ w # 5
  <2>1. CASE v = 5
    BY <2>1, <1>0, RebuildLeaves, OnceAre
  <2>2. CASE v # 5
    <3>1. IsPlain(v)
      BY <2>2, PlainScript
    <3>2. ASSUME NEW i \in 1..Len(Script(v)) - 1, Script(v)[i].object = Once(w)
          PROVE  v = w
      <4>1. i \in 1..Len(Script(v)) /\ i # Len(Script(v))
        BY <3>1 DEF IsPlain
      <4>2. Makes(Script(v)[i], v, i)
        BY <4>1, <2>2, StatementIs
      <4> QED BY <3>2, <4>2, OnceDiffer DEF Makes
    <3> QED BY <2>2, <3>1, <3>2 DEF IsPlain
  <2> QED BY <2>1, <2>2
<1>2. w # 5 => Once(w) \in Objects(w)
  <2>1. Objects(6) = {Statements[6][i].object : i \in 1..1} /\ Objects(7) = {Statements[7][i].object : i \in 1..1}
    BY StatementsOf DEF Objects
  <2>2. Statements[6][1].object = Once(6) /\ Statements[7][1].object = Once(7)
    BY StatementsOf, OnceAre DEF AddColumn
  <2> QED BY <1>0, <2>1, <2>2
<1> QED BY <1>1, <1>2

-----------------------------------------------------------------------------
\* What the failures in migrate depend on, beyond Inv: the copy is empty until
\* a process fills it under the lock, what only one script makes is not there
\* before the scripts below it are recorded, and a process inside a script has
\* suspended foreign keys.
InTurn == \A v \in 5..7 : Once(v) \in db.objects => 1..v - 1 \subseteq db.versions

Copying(p) == NextVersion(p) = 5 /\ at[p] \in 3..4

Tidy(p) ==
  /\ pc[p] = "applying" /\ at[p] # 1 => ~fk[p]
  /\ pc[p] # "closed" => opens[p] > 0
  /\ work[p] # NoTx => /\ work[p].objects \subseteq db.objects \cup Objects(5)
                       /\ ~Copying(p) => work[p].copied = {}

TidyInv == db.copied = {} /\ InTurn /\ \A p \in Process : Tidy(p)

\* The next statement of a process: it is refused, commits alone, or takes
\* effect in the transaction.
Statement(p) == Script(NextVersion(p))[at[p]]

View(p) == IF work[p] = NoTx THEN db ELSE work[p]

Moves(p) ==
  /\ at' = [at EXCEPT ![p] = @ + 1]
  /\ fk' = [fk EXCEPT ![p] = Enforced(p)]
  /\ UNCHANGED <<pc, seen>>

LEMMA ThreeWays ==
  ASSUME Inv, NEW p \in Process, Execute(p)
  PROVE  /\ Applying(p) /\ at[p] \in 1..Len(Script(NextVersion(p))) /\ NextVersion(p) \in Versions
         /\ UNCHANGED <<opens, calm>>
         /\ \/ /\ (~calm \/ Fails(Statement(p), View(p), Enforced(p)))
               /\ Fail(p) /\ UNCHANGED db
            \/ /\ ~Fails(Statement(p), View(p), Enforced(p))
               /\ work[p] = NoTx /\ ~OpensTransaction(Statement(p))
               /\ db' = Effect(Statement(p), db) /\ UNCHANGED work /\ Moves(p)
            \/ /\ work[p] # NoTx \/ OpensTransaction(Statement(p))
               /\ work' = [work EXCEPT ![p] = Effect(Statement(p), View(p))] /\ UNCHANGED db /\ Moves(p)
<1>1. Applying(p) /\ at[p] <= Len(Script(NextVersion(p)))
  BY DEF Execute
<1>2. NextVersion(p) \in Versions /\ Len(Script(NextVersion(p))) \in 2..6 /\ at[p] \in 1..7
  BY <1>1, NextStep DEF Inv
<1>3. at[p] \in 1..Len(Script(NextVersion(p)))
  BY <1>1, <1>2
<1> QED BY <1>1, <1>2, <1>3 DEF Execute, Statement, View, Moves

\* A statement that commits alone makes its object and nothing else.
LEMMA AloneMakes ==
  ASSUME Inv, NEW p \in Process, Applying(p), at[p] \in 1..Len(Script(NextVersion(p))),
         work[p] = NoTx, ~OpensTransaction(Statement(p)), db' = Effect(Statement(p), db)
  PROVE  /\ Makes(Statement(p), NextVersion(p), at[p])
         /\ db' = [db EXCEPT !.objects = @ \cup {Statement(p).object}]
         /\ db'.objects = db.objects \cup {Statement(p).object}
         /\ db'.versions = db.versions /\ db'.copied = db.copied
<1>1. NextVersion(p) \in Versions
  BY NextStep DEF Inv
<1>2. InScript(p)
  BY DEF Inv, Sound
<1>3. NextVersion(p) = 5 => at[p] <= 2
  BY <1>2 DEF InScript, Outside
<1>4. Makes(Statement(p), NextVersion(p), at[p])
  <2> DEFINE s == Statement(p)
  <2>1. s = Script(NextVersion(p))[at[p]] /\ s.op # "copy" /\ s.op # "record"
    BY DEF Statement, OpensTransaction
  <2>2. \/ Makes(s, NextVersion(p), at[p])
        \/ s.op = "record"
        \/ NextVersion(p) = 5 /\ at[p] \in 2..4 /\ (at[p] = 2 => s.op = "copy")
    BY <1>1, <2>1, StatementKind
  <2> QED BY <1>3, <2>1, <2>2
<1>5. db' = [db EXCEPT !.objects = @ \cup {Statement(p).object}]
  BY <1>4, EffectAdd DEF Makes
<1> QED BY <1>4, <1>5 DEF Inv, Types, Database

\* One that is part of a transaction: what the transaction is afterwards.
LEMMA InsideMakes ==
  ASSUME Inv, TidyInv, NEW p \in Process, Applying(p), at[p] \in 1..Len(Script(NextVersion(p))),
         work[p] # NoTx \/ OpensTransaction(Statement(p)),
         NEW w, w = Effect(Statement(p), View(p))
  PROVE  /\ w.objects \subseteq db.objects \cup Objects(5)
         /\ ~(NextVersion(p) = 5 /\ at[p] + 1 \in 3..4) => w.copied = {}
<1> DEFINE v == NextVersion(p)
<1>1. v \in Versions /\ InScript(p) /\ at[p] \in 1..7
  BY NextStep DEF Inv, Sound
<1>2. View(p) \in Database /\ db \in Database
  BY DEF Inv, Types, View
<1>3. View(p).objects \subseteq db.objects \cup Objects(5)
  BY DEF TidyInv, Tidy, View
<1>4. ~Copying(p) => View(p).copied = {}
  BY DEF TidyInv, Tidy, View
<1> HIDE DEF v
<1>5. CASE v = 5 /\ at[p] = 2
  <2>1. w = [View(p) EXCEPT !.copied = @ \cup View(p).rows]
    <3>1. Statement(p) = [op |-> "copy"]
      BY <1>5, RebuildScript DEF Statement, v
    <3>2. Statement(p).op = "copy"
      BY <3>1
    <3> QED BY <3>2, EffectCopy
  <2> QED BY <1>2, <1>3, <1>5, <2>1 DEF Database, v
<1>6. CASE v = 5 /\ at[p] = 3
  <2>1. w = [View(p) EXCEPT !.objects = @ \ Objects(5), !.rows = {}]
    <3>1. Statement(p) = [op |-> "drop"]
      BY <1>6, RebuildScript DEF Statement, v
    <3>2. Statement(p).op = "drop"
      BY <3>1
    <3>3. \A s, d : s = Statement(p) /\ d = View(p) => Effect(s, d) = w
      OBVIOUS
    <3> QED BY <3>2, <3>3, EffectDrop, Zenon
  <2> QED BY <1>2, <1>3, <1>6, <2>1 DEF Database, v
<1>7. CASE v = 5 /\ at[p] = 4
  <2>1. w = [View(p) EXCEPT !.objects = (@ \ {"collection_runs_new"}) \cup {"collection_runs"},
                            !.rows = View(p).copied, !.copied = {}]
    <3>1. Statement(p) = [op |-> "rename"]
      BY <1>7, RebuildScript DEF Statement, v
    <3>2. Statement(p).op = "rename"
      BY <3>1
    <3>3. \A s, d : s = Statement(p) /\ d = View(p) => Effect(s, d) = w
      OBVIOUS
    <3> QED BY <3>2, <3>3, EffectRename, Zenon
  <2>2. w.copied = {} /\ w.objects = (View(p).objects \ {"collection_runs_new"}) \cup {"collection_runs"}
    BY <1>2, <2>1 DEF Database
  <2> QED BY <1>3, <2>2, RebuildLeaves
<1>8. CASE v = 5 /\ at[p] = 5
  <2>1. Statement(p).op = "create_if" /\ Statement(p).object = "idx_runs_started"
    BY <1>8, RebuildScript DEF Statement, CreateIf, v
  <2>2. w = [View(p) EXCEPT !.objects = @ \cup {Statement(p).object}]
    BY <2>1, EffectAdd
  <2>3. w.copied = View(p).copied /\ w.objects = View(p).objects \cup {"idx_runs_started"}
    BY <1>2, <2>1, <2>2 DEF Database
  <2>4. ~Copying(p)
    BY <1>8 DEF Copying
  <2> QED BY <1>3, <1>4, <2>3, <2>4, RebuildLeaves
<1>9. CASE at[p] = Len(Script(v))
  <2>1. Statement(p).op = "record"
    <3>1. v # 5 => IsPlain(v)
      BY <1>1, PlainScript
    <3> QED BY <1>9, <3>1, RebuildScript DEF Statement, IsPlain, v
  <2>2. w = [View(p) EXCEPT !.versions = @ \cup {Statement(p).version}]
    BY <2>1, EffectRecord
  <2>3. w.copied = View(p).copied /\ w.objects = View(p).objects
    BY <1>2, <2>2 DEF Database
  <2>4. ~Copying(p)
    <3>1. v = 5 => at[p] = 6
      BY <1>9, RebuildScript
    <3> QED BY <3>1 DEF Copying, v
  <2> QED BY <1>3, <1>4, <2>3, <2>4
<1>10. at[p] = Len(Script(v)) \/ (v = 5 /\ at[p] \in 2..5)
  <2>1. CASE v = 5
    <3>1. at[p] # 1
      BY <1>1, <2>1, RebuildScript DEF InScript, Rebuilding, Recorded, OpensTransaction, Statement, Create, v
    <3>2. at[p] \in 1..6
      BY <2>1, RebuildScript DEF v
    <3>3. Len(Script(v)) = 6
      BY <2>1, RebuildScript
    <3>4. at[p] = 6 \/ at[p] \in 2..5
      BY <3>1, <3>2
    <3> QED BY <2>1, <3>3, <3>4
  <2>2. CASE v # 5
    <3>1. Len(Script(v)) \in 2..6
      BY <1>1, ScriptLength
    <3>2. work[p] = NoTx
      BY <1>1, <2>2, <3>1 DEF InScript, Rebuilding, Recorded, v
    <3>3. OpensTransaction(Statement(p))
      BY <3>2
    <3>4. at[p] \in 1..Len(Script(v)) /\ Statement(p) = Script(v)[at[p]]
      BY DEF Statement, v
    <3>5. ~Makes(Statement(p), v, at[p])
      BY <3>3 DEF Makes, OpensTransaction
    <3> QED BY <1>1, <2>2, <3>4, <3>5, StatementKind
  <2> QED BY <2>1, <2>2
<1> QED BY <1>5, <1>6, <1>7, <1>8, <1>9, <1>10

LEMMA TidyInit == Init => TidyInv
<1> SUFFICES ASSUME Init
             PROVE  TidyInv
  OBVIOUS
<1>1. PICK k \in 0..7, rows \in SUBSET Row, kids \in SUBSET Row :
        db = [objects |-> UNION {Objects(v) : v \in 1..k}, rows |-> rows,
              kids |-> kids, copied |-> {}, versions |-> 1..k]
  BY DEF Init
<1>2. db.copied = {} /\ db.versions = 1..k /\ db.objects = UNION {Objects(v) : v \in 1..k}
  BY <1>1
<1>3. InTurn
  <2>1. ASSUME NEW w \in 5..7, Once(w) \in db.objects
        PROVE  1..w - 1 \subseteq db.versions
    <3>1. PICK v \in 1..k : Once(w) \in Objects(v)
      BY <1>2, <2>1
    <3>2. v \in Versions
      BY DEF Versions
    <3>3. w \in 1..k
      BY <3>1, <3>2, OnceLeft
    <3> QED BY <1>2, <3>3
  <2> QED BY <2>1 DEF InTurn
<1> QED BY <1>2, <1>3 DEF Init, TidyInv, Tidy

\* A process that does not move stays tidy when others only add to the schema.
LEMMA TidyUnmoved ==
  ASSUME NEW p \in Process, Tidy(p), UNCHANGED <<pc[p], seen[p], at[p], work[p], fk[p]>>,
         opens'[p] = opens[p], work[p] = NoTx \/ db.objects \subseteq db'.objects
  PROVE  Tidy(p)'
<1>1. NextVersion(p)' = NextVersion(p)
  BY SameVersion
<1>2. Copying(p)' <=> Copying(p)
  BY <1>1 DEF Copying
<1> QED BY <1>2 DEF Tidy

LEMMA TidyExecute ==
  ASSUME Inv, TidyInv, NEW p \in Process, Execute(p)
  PROVE  TidyInv'
<1> DEFINE v == NextVersion(p)
<1>1. Applying(p) /\ at[p] \in 1..Len(Script(v)) /\ v \in Versions /\ opens' = opens
  BY ThreeWays
<1>2. pc[p] = "applying" /\ Tidy(p)
  BY <1>1 DEF Applying, TidyInv
<1>3. CASE Fail(p) /\ UNCHANGED db
  <2>1. Tidy(p)'
    BY <1>1, <1>2, <1>3 DEF Fail, Inv, Types, Tidy
  <2>2. ASSUME NEW q \in Process, q # p
        PROVE  Tidy(q)'
    BY <1>1, <1>3, <2>2, TidyUnmoved DEF Fail, Inv, Types, TidyInv
  <2> QED BY <1>3, <2>1, <2>2 DEF TidyInv, InTurn
<1>4. ASSUME Moves(p)
      PROVE  ~fk'[p] /\ at'[p] = at[p] + 1
  BY <1>2, <1>4 DEF Moves, Inv, Types, Tidy, Enforced
<1>5. CASE /\ work[p] = NoTx /\ ~OpensTransaction(Statement(p))
           /\ db' = Effect(Statement(p), db) /\ UNCHANGED work /\ Moves(p)
  <2>1. /\ Makes(Statement(p), v, at[p])
        /\ db'.objects = db.objects \cup {Statement(p).object}
        /\ db'.versions = db.versions /\ db'.copied = db.copied
    BY <1>1, <1>5, AloneMakes
  <2>2. InTurn'
    <3>1. ASSUME NEW w \in 5..7, Once(w) \in db'.objects, Once(w) \notin db.objects
          PROVE  1..w - 1 \subseteq db.versions
      <4>1. w = v
        BY <2>1, <3>1, OnceDiffer DEF Makes
      <4>2. \A u \in Versions : u < v => u \in db.versions
        BY <1>1, NextStep DEF Inv, Sound
      <4> QED BY <4>1, <4>2 DEF Versions
    <3> QED BY <2>1, <3>1 DEF TidyInv, InTurn
  <2>3. Tidy(p)'
    BY <1>1, <1>2, <1>4, <1>5 DEF Moves, Tidy
  <2>4. ASSUME NEW q \in Process, q # p
        PROVE  Tidy(q)'
    BY <1>1, <1>5, <2>1, <2>4, TidyUnmoved DEF Moves, Inv, Types, TidyInv
  <2> QED BY <2>1, <2>2, <2>3, <2>4 DEF TidyInv
<1>6. CASE /\ work[p] # NoTx \/ OpensTransaction(Statement(p))
           /\ work' = [work EXCEPT ![p] = Effect(Statement(p), View(p))] /\ UNCHANGED db /\ Moves(p)
  <2>1. work'[p] = Effect(Statement(p), View(p))
    BY <1>6 DEF Inv, Types
  <2>2. /\ work'[p].objects \subseteq db.objects \cup Objects(5)
        /\ ~(v = 5 /\ at[p] + 1 \in 3..4) => work'[p].copied = {}
    BY <1>1, <1>6, <2>1, InsideMakes
  <2>3. NextVersion(p)' = v
    BY <1>6, SameVersion DEF Moves
  <2>4. Tidy(p)'
    <3>1. pc'[p] = pc[p] /\ opens'[p] = opens[p] /\ db'.objects = db.objects
      BY <1>1, <1>6 DEF Moves
    <3>2. Copying(p)' <=> v = 5 /\ at[p] + 1 \in 3..4
      BY <1>4, <1>6, <2>3 DEF Copying
    <3> QED BY <1>2, <1>4, <1>6, <2>2, <3>1, <3>2 DEF Tidy
  <2>5. ASSUME NEW q \in Process, q # p
        PROVE  Tidy(q)'
    BY <1>1, <1>6, <2>5, TidyUnmoved DEF Moves, Inv, Types, TidyInv
  <2> QED BY <1>6, <2>4, <2>5 DEF TidyInv, InTurn
<1> QED BY <1>3, <1>5, <1>6, ThreeWays

LEMMA TidyApplied ==
  ASSUME Inv, TidyInv, NEW p \in Process, Applied(p)
  PROVE  TidyInv'
<1> DEFINE v == NextVersion(p)
<1>1. /\ Applying(p) /\ db' = work[p] /\ UNCHANGED <<pc, opens>>
      /\ work' = [work EXCEPT ![p] = NoTx]
      /\ seen' = [seen EXCEPT ![p] = @ \cup {v}]
      /\ at' = [at EXCEPT ![p] = 1]
      /\ fk' = [fk EXCEPT ![p] = TRUE]
  BY DEF Applied, Commit
<1>2. work[p] # NoTx /\ Recorded(p) /\ Tidy(p)
  BY Commits DEF Applied, TidyInv
<1>3. db'.objects \subseteq db.objects \cup Objects(5) /\ db.versions \subseteq db'.versions
  BY <1>1, <1>2 DEF Tidy, Recorded
<1>4. db'.copied = {}
  <2>1. ~Copying(p)
    BY <1>2, RebuildScript DEF Recorded, Copying
  <2> QED BY <1>1, <1>2, <2>1 DEF Tidy
<1>5. InTurn'
  <2>1. \A w \in 5..7 : Once(w) \notin Objects(5)
    <3>1. 5 \in Versions
      BY DEF Versions
    <3> QED BY <3>1, OnceLeft
  <2>2. ASSUME NEW w \in 5..7, Once(w) \in db'.objects
        PROVE  1..w - 1 \subseteq db'.versions
    <3>1. Once(w) \in db.objects
      BY <1>3, <2>1, <2>2
    <3> QED BY <1>3, <3>1 DEF TidyInv, InTurn
  <2> QED BY <2>2 DEF InTurn
<1>6. Tidy(p)'
  BY <1>1, <1>2 DEF Inv, Types, Tidy
<1>7. ASSUME NEW q \in Process, q # p
      PROVE  Tidy(q)'
  <2>1. work[q] = NoTx
    BY <1>2, <1>7 DEF Inv, Alone
  <2>2. UNCHANGED <<pc[q], seen[q], at[q], work[q], fk[q]>> /\ opens'[q] = opens[q]
    BY <1>1, <1>7 DEF Inv, Types
  <2> QED BY <2>1, <2>2, TidyUnmoved DEF TidyInv
<1> QED BY <1>4, <1>5, <1>6, <1>7 DEF TidyInv

LEMMA TidyOthers ==
  ASSUME Inv, TidyInv, NEW p \in Process, Open(p) \/ Ready(p) \/ Crash(p)
  PROVE  TidyInv'
<1>1. db' = db
  BY DEF Open, Ready, Crash
<1>2. Tidy(p)'
  <2>1. CASE Open(p)
    <3>1. pc'[p] = "applying" /\ at'[p] = 1 /\ opens'[p] = opens[p] + 1 /\ opens[p] \in Nat
      BY <2>1, MigrationsAssumption DEF Open, Inv, Types
    <3>2. work'[p] = NoTx
      BY <2>1 DEF Open, Inv, Sound, Applying
    <3> QED BY <3>1, <3>2 DEF Tidy
  <2>2. CASE Ready(p)
    <3>1. work[p] = NoTx /\ opens[p] > 0
      BY <2>2 DEF Ready, Inv, Sound, Applying, TidyInv, Tidy
    <3>2. pc'[p] = "ready" /\ work'[p] = NoTx /\ opens'[p] = opens[p]
      BY <2>2, <3>1 DEF Ready, Inv, Types
    <3> QED BY <3>1, <3>2 DEF Tidy
  <2>3. CASE Crash(p)
    BY <2>3 DEF Crash, Inv, Types, Tidy
  <2> QED BY <2>1, <2>2, <2>3
<1>3. ASSUME NEW q \in Process, q # p
      PROVE  Tidy(q)'
  <2>1. UNCHANGED <<pc[q], seen[q], at[q], work[q], fk[q]>> /\ opens'[q] = opens[q]
    BY <1>3 DEF Inv, Types, Open, Ready, Crash
  <2> QED BY <1>1, <2>1, TidyUnmoved DEF TidyInv
<1> QED BY <1>1, <1>2, <1>3 DEF TidyInv, InTurn

LEMMA TidyStep == Inv /\ TidyInv /\ [Next]_vars => TidyInv'
<1> SUFFICES ASSUME Inv, TidyInv, [Next]_vars
             PROVE  TidyInv'
  OBVIOUS
<1>1. ASSUME NEW p \in Process, Open(p) \/ Ready(p) \/ Crash(p)
      PROVE  TidyInv'
  BY <1>1, TidyOthers
<1>2. ASSUME NEW p \in Process, Execute(p)
      PROVE  TidyInv'
  BY <1>2, TidyExecute
<1>3. ASSUME NEW p \in Process, Applied(p)
      PROVE  TidyInv'
  BY <1>3, TidyApplied
<1>4. ASSUME NEW r \in Row, Collect(r) \/ Refer(r)
      PROVE  TidyInv'
  <2>1. UNCHANGED <<work, pc, seen, at, fk, opens>>
    BY <1>4 DEF Collect, Refer
  <2>2. db'.objects = db.objects /\ db'.versions = db.versions /\ db'.copied = db.copied
    BY <1>4 DEF Collect, Refer, Inv, Types, Database
  <2>3. \A q \in Process : Tidy(q)'
    BY <2>1, <2>2, TidyUnmoved DEF TidyInv
  <2> QED BY <2>2, <2>3 DEF TidyInv, InTurn
<1>5. CASE UNCHANGED vars
  <2>1. UNCHANGED <<db, work, pc, seen, at, fk, opens>>
    BY <1>5 DEF vars
  <2>2. \A q \in Process : Tidy(q)'
    BY <2>1, TidyUnmoved DEF TidyInv
  <2> QED BY <2>1, <2>2 DEF TidyInv, InTurn
<1> QED BY <1>1, <1>2, <1>3, <1>4, <1>5 DEF Next, Migrate

\* The invariant behind all that migrate may fail on.
THEOREM TidyInvariance == Spec => []TidyInv
BY Invariance, TidyInit, TidyStep, PTL DEF Spec

-----------------------------------------------------------------------------
\* A process that nothing can refuse: it takes for applied what is recorded,
\* and what only its script makes is either not there or its own work.
Front(p) ==
  /\ pc[p] \in {"applying", "ready"} /\ seen[p] = db.versions
  /\ Applying(p) /\ NextVersion(p) >= 5 => (Once(NextVersion(p)) \in db.objects => at[p] > 1)

\* Nobody has opened the database yet, and the process that left it died
\* nowhere inside a script.
Untouched ==
  /\ \A p \in Process : pc[p] = "closed"
  /\ \A v \in (5..7) \ db.versions : Once(v) \notin db.objects

FrontInv == calm => Untouched \/ \E p \in Process : Front(p)

LEMMA FrontInit == Init => FrontInv
<1> SUFFICES ASSUME Init
             PROVE  Untouched
  BY DEF FrontInv
<1>1. PICK k \in 0..7, rows \in SUBSET Row, kids \in SUBSET Row :
        db = [objects |-> UNION {Objects(v) : v \in 1..k}, rows |-> rows,
              kids |-> kids, copied |-> {}, versions |-> 1..k]
  BY DEF Init
<1>2. db.versions = 1..k /\ db.objects = UNION {Objects(v) : v \in 1..k}
  BY <1>1
<1>3. ASSUME NEW w \in (5..7) \ db.versions, Once(w) \in db.objects
      PROVE  FALSE
  <2>1. PICK v \in 1..k : Once(w) \in Objects(v)
    BY <1>2, <1>3
  <2>2. v \in Versions
    BY DEF Versions
  <2> QED BY <1>2, <1>3, <2>1, <2>2, OnceLeft
<1> QED BY <1>3 DEF Init, Untouched

\* Front keeps being so while others add nothing of what its script makes.
LEMMA FrontUnmoved ==
  ASSUME NEW q \in Process, Front(q), UNCHANGED <<pc[q], seen[q], at[q]>>,
         db'.versions = db.versions,
         Applying(q) /\ NextVersion(q) >= 5 =>
           (Once(NextVersion(q)) \in db'.objects => Once(NextVersion(q)) \in db.objects)
  PROVE  Front(q)'
<1>1. NextVersion(q)' = NextVersion(q) /\ (Applying(q)' <=> Applying(q))
  BY SameVersion DEF Applying
<1> QED BY <1>1 DEF Front

\* A script is unrecorded if what is recorded beyond the versions seen lies
\* above it: then the process has seen all that is recorded.
LEMMA SeesAll ==
  ASSUME Inv, NEW p \in Process, Applying(p), NextVersion(p) \notin db.versions
  PROVE  seen[p] = db.versions
<1>1. NextVersion(p) \in Versions /\ \A w \in Versions : w < NextVersion(p) => w \in seen[p]
  BY NextStep DEF Inv
<1>2. ASSUME NEW w \in db.versions, w \notin seen[p]
      PROVE  FALSE
  <2>1. w \in Versions /\ 1..w \subseteq db.versions
    BY DEF Inv, Types, Database, SchemaFollowsVersions
  <2>2. ~(w < NextVersion(p))
    BY <1>1, <1>2, <2>1
  <2>3. NextVersion(p) \in 1..w
    BY <1>1, <2>1, <2>2 DEF Versions
  <2> QED BY <2>1, <2>3
<1> QED BY <1>2 DEF Inv, Sound

\* Nothing refuses a statement of a process in front.
LEMMA FrontSucceeds ==
  ASSUME Inv, TidyInv, NEW p \in Process, Front(p), Applying(p),
         at[p] \in 1..Len(Script(NextVersion(p)))
  PROVE  ~Fails(Statement(p), View(p), Enforced(p))
<1> DEFINE v == NextVersion(p)
           s == Statement(p)
<1>1. v \in Versions \ seen[p] /\ InScript(p) /\ Len(Script(v)) \in 2..6
  BY NextStep DEF Inv, Sound
<1>2. s = Script(v)[at[p]]
  BY DEF Statement
<1>3. v \notin db.versions
  BY <1>1 DEF Front
<1> HIDE DEF v, s
<1>4. CASE Makes(s, v, at[p])
  <2>1. CASE s.op = "create_if"
    BY <2>1 DEF Fails, s
  <2>2. CASE s.op # "create_if"
    <3>1. v \in 5..7 /\ at[p] = 1 /\ s.object = Once(v)
      BY <1>4, <2>2 DEF Makes
    <3>2. Once(v) \notin db.objects
      BY <3>1 DEF Front, v
    <3>3. View(p) = db
      BY <1>1, <3>1 DEF InScript, Rebuilding, Recorded, View, v
    <3> QED BY <1>4, <3>1, <3>2, <3>3 DEF Makes, Fails, s
  <2> QED BY <2>1, <2>2
<1>5. CASE at[p] = Len(Script(v)) /\ s.op = "record" /\ s.version = v
  <2>1. View(p).versions = db.versions
    BY <1>1, <1>5 DEF InScript, Rebuilding, Recorded, View, v
  <2> QED BY <1>3, <1>5, <2>1 DEF Fails, s
<1>6. CASE v = 5 /\ at[p] = 2 /\ s.op = "copy"
  <2>1. View(p).copied = {}
    <3>1. ~Copying(p)
      BY <1>6 DEF Copying
    <3> QED BY <3>1 DEF TidyInv, Tidy, View
  <2> QED BY <1>6, <2>1 DEF Fails, s
<1>7. CASE v = 5 /\ at[p] = 3 /\ s.op = "drop"
  <2>1. ~Enforced(p)
    BY <1>7 DEF Enforced, TidyInv, Tidy, Applying
  <2> QED BY <1>7, <2>1 DEF Fails, s
<1>8. CASE v = 5 /\ at[p] = 4 /\ s.op = "rename"
  BY <1>8 DEF Fails, s
<1>9. v \in Versions /\ at[p] \in 1..Len(Script(v))
  BY <1>1 DEF v
<1> QED BY <1>2, <1>4, <1>5, <1>6, <1>7, <1>8, <1>9, StatementKind

LEMMA FrontExecute ==
  ASSUME Inv, TidyInv, calm, NEW q \in Process, Front(q), NEW p \in Process, Execute(p)
  PROVE  \E z \in Process : Front(z)'
<1> DEFINE v == NextVersion(p)
<1>1. Applying(p) /\ at[p] \in 1..Len(Script(v)) /\ v \in Versions
  BY ThreeWays
<1>2. CASE Fail(p) /\ UNCHANGED db /\ Fails(Statement(p), View(p), Enforced(p))
  <2>1. q # p
    BY <1>1, <1>2, FrontSucceeds
  <2>2. UNCHANGED <<pc[q], seen[q], at[q]>>
    BY <1>2, <2>1 DEF Fail, Inv, Types
  <2> QED BY <1>2, <2>2, FrontUnmoved
<1>3. ASSUME Moves(p), db'.versions = db.versions,
             NEW z \in Process, Front(z),
             Applying(z) /\ NextVersion(z) >= 5 =>
               (Once(NextVersion(z)) \in db'.objects => Once(NextVersion(z)) \in db.objects)
      PROVE  Front(z)'
  <2>1. CASE z # p
    <3>1. UNCHANGED <<pc[z], seen[z], at[z]>>
      BY <1>3, <2>1 DEF Moves, Inv, Types
    <3> QED BY <1>3, <3>1, FrontUnmoved
  <2>2. CASE z = p
    <3>1. at'[p] = at[p] + 1 /\ at[p] \in 1..7 /\ pc'[p] = pc[p] /\ seen'[p] = seen[p]
      BY <1>3 DEF Moves, Inv, Types
    <3>2. at'[p] > 1
      BY <3>1
    <3> QED BY <1>3, <2>2, <3>1, <3>2 DEF Front
  <2> QED BY <2>1, <2>2
<1>4. CASE /\ ~Fails(Statement(p), View(p), Enforced(p))
           /\ work[p] = NoTx /\ ~OpensTransaction(Statement(p))
           /\ db' = Effect(Statement(p), db) /\ UNCHANGED work /\ Moves(p)
  <2>1. /\ Makes(Statement(p), v, at[p])
        /\ db'.objects = db.objects \cup {Statement(p).object}
        /\ db'.versions = db.versions
    BY <1>1, <1>4, AloneMakes
  <2>2. CASE Statement(p).op = "create_if"
    <3>1. Applying(q) /\ NextVersion(q) >= 5 =>
            (Once(NextVersion(q)) \in db'.objects => Once(NextVersion(q)) \in db.objects)
      <4>1. Applying(q) /\ NextVersion(q) >= 5 => NextVersion(q) \in 5..7
        BY NextStep DEF Inv, Versions
      <4> QED BY <2>1, <2>2, <4>1 DEF Makes
    <3> QED BY <1>3, <1>4, <2>1, <3>1
  <2>3. CASE Statement(p).op # "create_if" /\ v \notin db.versions
    <3>1. seen[p] = db.versions
      BY <1>1, <2>3, SeesAll
    <3>2. at'[p] = at[p] + 1 /\ at[p] \in 1..7 /\ pc'[p] = pc[p] /\ seen'[p] = seen[p]
      BY <1>4 DEF Moves, Inv, Types
    <3>3. at'[p] > 1 /\ pc'[p] = "applying"
      BY <1>1, <3>2 DEF Applying
    <3>4. Front(p)'
      BY <2>1, <3>1, <3>2, <3>3 DEF Front
    <3> QED BY <3>4
  <2>4. CASE Statement(p).op # "create_if" /\ v \in db.versions
    <3>1. Applying(q) /\ NextVersion(q) >= 5 =>
            (Once(NextVersion(q)) \in db'.objects => Once(NextVersion(q)) \in db.objects)
      <4>1. ASSUME Applying(q), NextVersion(q) >= 5
            PROVE  NextVersion(q) \in 5..7 /\ NextVersion(q) # v
        BY <2>4, <4>1, NextStep DEF Inv, Front, Versions
      <4>2. v \in 5..7 /\ Statement(p).object = Once(v)
        BY <2>1, <2>4 DEF Makes
      <4> QED BY <2>1, <4>1, <4>2, OnceDiffer
    <3> QED BY <1>3, <1>4, <2>1, <3>1
  <2> QED BY <2>2, <2>3, <2>4
<1>5. CASE UNCHANGED db /\ Moves(p)
  BY <1>3, <1>5
<1> QED BY <1>2, <1>4, <1>5, ThreeWays

LEMMA FrontApplied ==
  ASSUME Inv, TidyInv, NEW q \in Process, Front(q), NEW p \in Process, Applied(p)
  PROVE  \E z \in Process : Front(z)'
<1> DEFINE v == NextVersion(p)
<1>1. /\ Applying(p) /\ db' = work[p] /\ UNCHANGED <<pc, opens>>
      /\ seen' = [seen EXCEPT ![p] = @ \cup {v}]
      /\ at' = [at EXCEPT ![p] = 1]
  BY DEF Applied, Commit
<1>2. Recorded(p) /\ Tidy(p) /\ work[p] # NoTx
  BY Commits DEF Applied, TidyInv
<1>3. v \in Versions \ seen[p] /\ \A u \in Versions : u < v => u \in seen[p]
  BY <1>1, NextStep DEF Inv
<1>4. db'.versions = db.versions \cup {v} /\ db'.objects \subseteq db.objects \cup Objects(5)
  BY <1>1, <1>2 DEF Recorded, Tidy
<1>5. \A w \in 5..7 : Once(w) \in db'.objects => Once(w) \in db.objects
  <2>1. 5 \in Versions
    BY DEF Versions
  <2> QED BY <1>4, <2>1, OnceLeft
<1> HIDE DEF v
<1>6. CASE v \in db.versions
  <2>1. q # p
    BY <1>3, <1>6 DEF Front
  <2>2. UNCHANGED <<pc[q], seen[q], at[q]>>
    BY <1>1, <2>1 DEF Inv, Types
  <2>3. Applying(q) => NextVersion(q) \in Versions
    BY NextStep DEF Inv
  <2>4. Applying(q) /\ NextVersion(q) >= 5 =>
          (Once(NextVersion(q)) \in db'.objects => Once(NextVersion(q)) \in db.objects)
    BY <1>5, <2>3 DEF Versions
  <2>5. db'.versions = db.versions
    BY <1>4, <1>6
  <2> QED BY <2>2, <2>4, <2>5, FrontUnmoved
<1>7. CASE v \notin db.versions
  <2>1. seen[p] = db.versions
    BY <1>1, <1>7, SeesAll DEF v
  <2>2. seen'[p] = db'.versions /\ pc'[p] = "applying"
    BY <1>1, <1>4, <2>1 DEF Inv, Types, Applying
  <2>3. ASSUME Applying(p)', NextVersion(p)' >= 5, Once(NextVersion(p)') \in db'.objects
        PROVE  FALSE
    <3> DEFINE n == NextVersion(p)'
    <3>1. n \in Versions \ seen'[p]
      <4>1. Inv'
        BY AppliedSafe
      <4>2. seen'[p] \in SUBSET Versions /\ seen'[p] # Versions
        BY <2>3, <4>1 DEF Inv, Types, Applying
      <4> QED BY <4>2, LeastUnseen DEF NextVersion
    <3> HIDE DEF n
    <3>2. n \in 5..7
      BY <2>3, <3>1 DEF Versions, n
    <3>3. 1..n - 1 \subseteq db.versions
      BY <1>5, <2>3, <3>2 DEF TidyInv, InTurn, n
    <3>4. v < n
      <4>1. n \notin seen[p] /\ n # v
        BY <1>1, <3>1 DEF Inv, Types
      <4> QED BY <1>3, <3>1, <4>1 DEF Versions
    <3>5. v \in 1..n - 1
      BY <1>3, <3>2, <3>4 DEF Versions
    <3> QED BY <1>7, <3>3, <3>5
  <2>4. Front(p)'
    BY <2>2, <2>3 DEF Front
  <2> QED BY <2>4
<1> QED BY <1>6, <1>7

LEMMA FrontOpen ==
  ASSUME Inv, FrontInv, calm, NEW p \in Process, Open(p)
  PROVE  \E z \in Process : Front(z)'
<1>1. /\ pc[p] \in {"closed", "failed"} /\ UNCHANGED db
      /\ pc' = [pc EXCEPT ![p] = "applying"]
      /\ seen' = [seen EXCEPT ![p] = db.versions]
      /\ at' = [at EXCEPT ![p] = 1]
  BY DEF Open
<1>2. ASSUME NEW q \in Process, Front(q)
      PROVE  Front(q)'
  <2>1. q # p
    BY <1>1, <1>2 DEF Front
  <2>2. UNCHANGED <<pc[q], seen[q], at[q]>>
    BY <1>1, <2>1 DEF Inv, Types
  <2> QED BY <1>1, <1>2, <2>2, FrontUnmoved
<1>3. ASSUME Untouched
      PROVE  Front(p)'
  <2>1. pc'[p] = "applying" /\ seen'[p] = db'.versions
    BY <1>1 DEF Inv, Types
  <2>2. ASSUME Applying(p)', NextVersion(p)' >= 5
        PROVE  Once(NextVersion(p)') \notin db'.objects
    <3> DEFINE n == NextVersion(p)'
    <3>1. n \in Versions \ seen'[p]
      <4>1. seen'[p] \in SUBSET Versions /\ seen'[p] # Versions
        BY <1>1, <2>1, <2>2 DEF Inv, Types, Database, Applying
      <4> QED BY <4>1, LeastUnseen DEF NextVersion
    <3> HIDE DEF n
    <3>2. n \in (5..7) \ db.versions
      BY <1>1, <2>1, <2>2, <3>1 DEF Versions, n
    <3> QED BY <1>1, <1>3, <3>2 DEF Untouched, n
  <2> QED BY <2>1, <2>2 DEF Front
<1> QED BY <1>2, <1>3 DEF FrontInv

LEMMA FrontStep == Inv /\ TidyInv /\ FrontInv /\ [Next]_vars => FrontInv'
<1> SUFFICES ASSUME Inv, TidyInv, FrontInv, [Next]_vars, calm'
             PROVE  Untouched' \/ \E z \in Process : Front(z)'
  BY DEF FrontInv
<1>1. calm
  BY DEF Next, vars, Open, Migrate, Execute, Applied, Ready, Crash, Collect, Refer
<1>2. ASSUME NEW p \in Process, Open(p)
      PROVE  \E z \in Process : Front(z)'
  BY <1>1, <1>2, FrontOpen
<1>3. ASSUME NEW p \in Process, pc[p] = "applying"
      PROVE  \E z \in Process : Front(z)
  BY <1>1, <1>3 DEF FrontInv, Untouched
<1>4. ASSUME NEW p \in Process, Execute(p)
      PROVE  \E z \in Process : Front(z)'
  BY <1>1, <1>3, <1>4, FrontExecute DEF Execute, Applying
<1>5. ASSUME NEW p \in Process, Applied(p)
      PROVE  \E z \in Process : Front(z)'
  BY <1>3, <1>5, FrontApplied DEF Applied, Applying
<1>6. ASSUME NEW p \in Process, Ready(p)
      PROVE  \E z \in Process : Front(z)'
  <2>1. PICK z \in Process : Front(z)
    BY <1>3, <1>6 DEF Ready
  <2>2. CASE z # p
    <3>1. UNCHANGED <<pc[z], seen[z], at[z]>> /\ UNCHANGED db
      BY <1>6, <2>2 DEF Ready, Inv, Types
    <3>2. Front(z)'
      BY <2>1, <3>1, FrontUnmoved
    <3> QED BY <3>2
  <2>3. CASE z = p
    <3>1. pc'[p] = "ready" /\ seen' = seen /\ db' = db
      BY <1>6 DEF Ready, Inv, Types
    <3>2. Front(p)'
      BY <2>1, <2>3, <3>1 DEF Front, Applying
    <3> QED BY <3>2
  <2> QED BY <2>2, <2>3
<1>7. ASSUME NEW p \in Process, Crash(p)
      PROVE  FALSE
  BY <1>1, <1>7 DEF Crash
<1>8. CASE UNCHANGED vars \/ \E r \in Row : Collect(r) \/ Refer(r)
  <2>1. UNCHANGED <<pc, seen, at>> /\ db'.objects = db.objects /\ db'.versions = db.versions
    BY <1>8 DEF vars, Collect, Refer, Inv, Types, Database
  <2>2. Untouched => Untouched'
    BY <2>1 DEF Untouched
  <2>3. ASSUME NEW z \in Process, Front(z)
        PROVE  Front(z)'
    BY <2>1, <2>3, FrontUnmoved
  <2> QED BY <1>1, <2>2, <2>3 DEF FrontInv
<1> QED BY <1>2, <1>4, <1>5, <1>6, <1>7, <1>8 DEF Next, Migrate

\* While nobody dies or waits for the lock in vain, there is a process that
\* nothing can refuse, from the first open on.
THEOREM FrontInvariance == Spec => []FrontInv
BY Invariance, TidyInvariance, FrontInit, FrontStep, PTL DEF Spec

\* Processes that open a database together fail each other, but never all of
\* them: where one has failed, another is ready or still at work (the part of
\* SomeProcessGetsReady that is not about time).
NotAllFail ==
  calm /\ (\E p \in Process : pc[p] = "failed") => \E q \in Process : pc[q] \in {"applying", "ready"}

\* No race of migrations ends with every process at a MigrationError, unless
\* one died or gave up on the lock.
THEOREM SomeProcessGoesOn == Spec => []NotAllFail
<1>1. FrontInv => NotAllFail
  BY DEF FrontInv, Untouched, Front, NotAllFail
<1> QED BY <1>1, FrontInvariance, PTL

\* The promise that a process alone with the database can migrate it, which
\* crashes break, holds while none dies: a process fails only after another
\* has opened the database.
THEOREM LoneProcessIfCalm == Spec => [](calm => LoneProcessSucceeds)
<1>1. TidyInv /\ FrontInv => (calm => LoneProcessSucceeds)
  <2> SUFFICES ASSUME TidyInv, FrontInv, calm, NEW p \in Process, pc[p] = "failed"
               PROVE  \E q \in Process \ {p} : opens[q] > 0
    BY DEF LoneProcessSucceeds
  <2>1. PICK q \in Process : Front(q)
    BY DEF FrontInv, Untouched
  <2>2. q # p /\ pc[q] # "closed"
    BY <2>1 DEF Front
  <2> QED BY <2>2 DEF TidyInv, Tidy
<1> QED BY <1>1, TidyInvariance, FrontInvariance, PTL
=============================================================================
