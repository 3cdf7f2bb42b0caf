------------------------- MODULE MasterRecordsProofs -------------------------
(***************************************************************************)
(* Proofs about MasterRecords for every set of rows and codes, every        *)
(* finite number of requests and every size of the pool.  The inductive     *)
(* invariant adds what locks and look-ups have established: which open      *)
(* transactions keep out of each other's way, and what a look-up that other *)
(* requests have overtaken still says about the rows.                       *)
(***************************************************************************)
EXTENDS MasterRecords, FiniteSetTheorems, TLAPS

-----------------------------------------------------------------------------
(* The inductive invariant.                                                *)

Asks == [at : {"idle", "look", "write", "user", "revoke", "audit", "commit"},
         kind : Kinds, id : Ids \cup {None}, code : Codes \cup {None}, active : BOOLEAN,
         new : BOOLEAN, password : BOOLEAN, looked : Nat]
AuditRows == [kind : Kinds, id : Ids, code : Codes]

Types ==
  /\ rows \in [Kinds -> [Ids -> Rows \cup {None}]]
  /\ users \in [Ids -> Users \cup {None}]
  /\ audits \subseteq AuditRows
  /\ req \in [Requests -> Asks]
  /\ clock \in Nat /\ begun \in 0..MaxRequests

(* A request under way names its row and code, and no time still to come;   *)
(* only a dealer has a user, sessions and a commit.                         *)
Sound(q) ==
  q.at # "idle" =>
    /\ q.id \in Ids /\ q.code \in Codes
    /\ q.at \in {"user", "revoke", "commit"} => q.kind = "dealer"
    /\ q.looked <= clock

(* Those that may still write their row. *)
Unwritten(q) == q.at # "idle" /\ ~(q.kind = "sku" /\ q.at = "audit")
Pending == {r \in Requests : Unwritten(req[r])}

(* No request writes its row twice. *)
WritesBounded == clock + Cardinality(Pending) <= begun

PoolOK == Cardinality(Connected) <= PoolSize

(* Locks keep open transactions apart, in row and in code. *)
Apart(r, o) == req[r].id # req[o].id /\ req[r].code # req[o].code
Exclusive == \A r, o \in DealerWriters : r # o => Apart(r, o)

(* No transaction commits before its audit row is there. *)
AuditedFirst ==
  \A r \in Requests :
    req[r].at = "commit" => AuditRow(req[r].kind, req[r].id, req[r].code) \in audits

(* No code that an open transaction has written is in another row. *)
CodesFree == \A r \in DealerWriters : ~Taken(r)

(* Histories are of the past. *)
Past == \A kind \in Kinds, i \in Ids : rows[kind][i] # None => rows[kind][i].at <= clock

(* What a look-up has found: if row i had the code q asks for, so had q's   *)
(* own row, and has it still unless it was renamed since.                   *)
FoundIn(q, i) ==
  /\ i # q.id /\ rows[q.kind][i] # None
  /\ SameIgnoringCase(rows[q.kind][i].code, q.code)
  /\ rows[q.kind][i].at <= q.looked
HadIt(q) ==
  /\ rows[q.kind][q.id] # None
  /\ \/ SameIgnoringCase(rows[q.kind][q.id].code, q.code)
     \/ q.looked < rows[q.kind][q.id].at
LookedUp(q) == q.at \notin {"idle", "look"}
LookUpHolds == \A r \in Requests : LookedUp(req[r]) => \A i \in Ids : FoundIn(req[r], i) => HadIt(req[r])

IInv ==
  /\ Types /\ (\A r \in Requests : Sound(req[r])) /\ WritesBounded /\ PoolOK /\ Exclusive
  /\ UserMirrorsDealer /\ AuditedFirst /\ DealersAreAudited
  /\ CodesFree /\ Past /\ LookUpHolds /\ ClashesOverlapped

-----------------------------------------------------------------------------
(* Counting.                                                               *)

LEMMA Fewer ==
  ASSUME NEW S, IsFiniteSet(S), NEW U \in SUBSET S
  PROVE  Cardinality(S) \in Nat /\ Cardinality(U) \in Nat /\ Cardinality(U) <= Cardinality(S)
BY FS_CardinalityType, FS_Subset

LEMMA OneFewer ==
  ASSUME NEW S, IsFiniteSet(S), NEW x \in S, NEW U \in SUBSET (S \ {x})
  PROVE  Cardinality(S) \in Nat /\ Cardinality(U) \in Nat /\ Cardinality(U) + 1 <= Cardinality(S)
<1>1. /\ IsFiniteSet(S \ {x}) /\ Cardinality(S \ {x}) = Cardinality(S) - 1
      /\ Cardinality(S) \in Nat /\ Cardinality(S \ {x}) \in Nat
  BY FS_RemoveElement, FS_CardinalityType
<1>2. Cardinality(U) \in Nat /\ Cardinality(U) <= Cardinality(S \ {x})
  BY <1>1, FS_Subset, FS_CardinalityType
<1> QED
  BY <1>1, <1>2

LEMMA OneMore ==
  ASSUME NEW S, IsFiniteSet(S), NEW x, NEW U \in SUBSET (S \cup {x})
  PROVE  Cardinality(S) \in Nat /\ Cardinality(U) \in Nat /\ Cardinality(U) <= Cardinality(S) + 1
<1>1. /\ IsFiniteSet(S \cup {x}) /\ Cardinality(S \cup {x}) <= Cardinality(S) + 1
      /\ Cardinality(S) \in Nat
  BY FS_AddElement, FS_CardinalityType
<1>2. Cardinality(U) \in Nat /\ Cardinality(U) <= Cardinality(S \cup {x})
  BY <1>1, FS_Subset, FS_CardinalityType
<1> QED
  BY <1>1, <1>2, FS_CardinalityType

-----------------------------------------------------------------------------
(* What each step does, in terms of the request q that r becomes.          *)

Becomes(r, q) == q \in Asks /\ req' = [req EXCEPT ![r] = q]

(* q is p, somewhere else. *)
Same(q, p) ==
  /\ q.kind = p.kind /\ q.id = p.id /\ q.code = p.code /\ q.active = p.active
  /\ q.new = p.new /\ q.password = p.password

LEMMA IdleIs == Idle \in Asks /\ Idle.at = "idle"
BY DEF Idle, Asks, Kinds

LEMMA EndsIs ==
  ASSUME NEW r \in Requests, Ends(r)
  PROVE  Becomes(r, Idle)
BY IdleIs DEF Ends, Becomes

LEMMA GotoIs ==
  ASSUME NEW r \in Requests, Types, Goto(r, "user") \/ Goto(r, "revoke") \/ Goto(r, "audit") \/ Goto(r, "commit")
  PROVE  \E q : Becomes(r, q) /\ Same(q, req[r]) /\ q.looked = req[r].looked /\ Goto(r, q.at)
              /\ q.at \in {"user", "revoke", "audit", "commit"}
<1>1. PICK at \in {"user", "revoke", "audit", "commit"} : Goto(r, at)
  OBVIOUS
<1> DEFINE q == [req[r] EXCEPT !.at = at]
<1>2. req[r] \in Asks
  BY DEF Types
<1>3. q \in Asks /\ q.at = at /\ Same(q, req[r]) /\ q.looked = req[r].looked
  BY <1>2 DEF Asks, Same
<1>4. req' = [req EXCEPT ![r] = q]
  BY <1>1 DEF Goto
<1> HIDE DEF q
<1> QED
  BY <1>1, <1>3, <1>4 DEF Becomes

(* A request ends, or its audit row of an SKU was its last. *)
Ended(r) ==
  /\ req[r].at # "idle" /\ Becomes(r, Idle)
  /\ audits \subseteq audits' /\ audits' \subseteq AuditRows
  /\ UNCHANGED <<rows, users, clock, begun>>

Began(r, q) ==
  /\ req[r].at = "idle" /\ q.at = "look" /\ Becomes(r, q)
  /\ begun < MaxRequests /\ PoolHasFree
  /\ q.kind \in Kinds /\ q.id \in Ids /\ q.code \in Codes /\ q.looked = 0
  /\ begun' = begun + 1 /\ UNCHANGED <<rows, users, audits, clock>>

Looked(r, q) ==
  /\ req[r].at = "look" /\ q.at = "write" /\ Becomes(r, q) /\ Same(q, req[r]) /\ q.looked = clock
  /\ \A i \in Ids : FoundIn(q, i) => HadIt(q)
  /\ UNCHANGED <<rows, users, audits, clock, begun>>

(* The dealer's row is written, and locked; or a statement passes. *)
Locked(r, q) ==
  /\ req[r].at = "write" /\ req[r].kind = "dealer" /\ q.at = "user"
  /\ ~Waits(r, DealerWriters) /\ ~Taken(r)
Passes(r, q) ==
  /\ req[r].at \in {"user", "revoke"} /\ q.at \in {"revoke", "audit"}
Vouched(r, q) ==
  /\ req[r].at = "audit" /\ req[r].kind = "dealer" /\ q.at = "commit"
  /\ AuditRow(req[r].kind, req[r].id, req[r].code) \in audits'
Advanced(r, q) ==
  /\ Becomes(r, q) /\ Same(q, req[r]) /\ q.looked = req[r].looked
  /\ Locked(r, q) \/ Passes(r, q) \/ Vouched(r, q)
  /\ audits \subseteq audits' /\ audits' \subseteq AuditRows
  /\ UNCHANGED <<rows, users, clock, begun>>

(* The row w replaces that of request p. *)
Written(p, w) ==
  /\ rows' = [rows EXCEPT ![p.kind][p.id] = w]
  /\ w \in Rows /\ w.code = p.code /\ w.active = p.active
  /\ \/ /\ rows[p.kind][p.id] # None /\ SameIgnoringCase(rows[p.kind][p.id].code, p.code)
        /\ w.at = rows[p.kind][p.id].at /\ w.looked = rows[p.kind][p.id].looked
        /\ w.before = rows[p.kind][p.id].before
     \/ /\ ~(rows[p.kind][p.id] # None /\ SameIgnoringCase(rows[p.kind][p.id].code, p.code))
        /\ w.at = clock + 1 /\ w.looked = p.looked
        /\ rows[p.kind][p.id] # None => w.before = rows[p.kind][p.id].at
  /\ clock' = clock + 1

SkuWritten(r, q, w) ==
  /\ req[r].at = "write" /\ req[r].kind = "sku" /\ ~Taken(r)
  /\ q.at = "audit" /\ Becomes(r, q) /\ Same(q, req[r]) /\ q.looked = req[r].looked
  /\ Written(req[r], w) /\ UNCHANGED <<users, audits, begun>>

Committed(r, w) ==
  /\ req[r].at = "commit" /\ req[r].kind = "dealer" /\ Becomes(r, Idle)
  /\ Written(req[r], w) /\ users' = [users EXCEPT ![req[r].id] = UserRow(r)]
  /\ UNCHANGED <<audits, begun>>

Acts(r) ==
  \/ Ended(r)
  \/ \E q : Began(r, q) \/ Looked(r, q) \/ Advanced(r, q)
  \/ \E q, w : SkuWritten(r, q, w)
  \/ \E w : Committed(r, w)

LEMMA AuditRowIs ==
  ASSUME NEW kind \in Kinds, NEW id \in Ids, NEW code \in Codes
  PROVE  AuditRow(kind, id, code) \in AuditRows
BY DEF AuditRow, AuditRows

LEMMA RowIs ==
  ASSUME NEW r \in Requests, Types, Sound(req[r]), req[r].at # "idle",
         rows' = [rows EXCEPT ![req[r].kind][req[r].id] = Row(r)], clock' = clock + 1
  PROVE  Written(req[r], Row(r))
<1> DEFINE old == rows[req[r].kind][req[r].id]
<1>1. req[r] \in Asks /\ req[r].kind \in Kinds /\ req[r].looked \in Nat /\ req[r].active \in BOOLEAN
  BY DEF Types, Asks
<1>2. req[r].id \in Ids /\ req[r].code \in Codes
  BY DEF Sound
<1>3. old \in Rows \cup {None} /\ clock \in Nat
  BY <1>1, <1>2 DEF Types
<1>4. CASE old # None /\ SameIgnoringCase(old.code, req[r].code)
  <2>1. Row(r) = [old EXCEPT !.code = req[r].code, !.active = req[r].active]
    BY <1>4 DEF Row
  <2>2. old \in Rows
    BY <1>3, <1>4
  <2>3. /\ Row(r) \in Rows /\ Row(r).code = req[r].code /\ Row(r).active = req[r].active
        /\ Row(r).at = old.at /\ Row(r).looked = old.looked /\ Row(r).before = old.before
    BY <2>1, <2>2, <1>1, <1>2 DEF Rows
  <2> QED
    BY <2>3, <1>4 DEF Written
<1>5. CASE ~(old # None /\ SameIgnoringCase(old.code, req[r].code))
  <2>1. Row(r) = [code |-> req[r].code, active |-> req[r].active, looked |-> req[r].looked,
                  at |-> clock + 1, before |-> IF old = None THEN 0 ELSE old.at]
    BY <1>5 DEF Row
  <2>2. (IF old = None THEN 0 ELSE old.at) \in Nat
    BY <1>3 DEF Rows
  <2>3. /\ Row(r) \in Rows /\ Row(r).code = req[r].code /\ Row(r).active = req[r].active
        /\ Row(r).at = clock + 1 /\ Row(r).looked = req[r].looked
        /\ old # None => Row(r).before = old.at
    BY <2>1, <2>2, <1>1, <1>2, <1>3 DEF Rows
  <2> QED
    BY <2>3, <1>5 DEF Written
<1> QED
  BY <1>4, <1>5

LEMMA BeginActs ==
  ASSUME NEW r \in Requests, Types, Begin(r)
  PROVE  \E q : Began(r, q)
<1>1. PICK input \in Inputs : req' = [req EXCEPT ![r] = Asked(input)]
  BY DEF Begin
<1> DEFINE q == Asked(input)
<1>2. /\ input.kind \in Kinds /\ input.id \in Ids /\ input.code \in Codes
      /\ input.active \in BOOLEAN /\ input.password \in BOOLEAN
  BY MasterAssumption
<1>3. /\ q \in Asks /\ q.at = "look" /\ q.kind \in Kinds /\ q.id \in Ids /\ q.code \in Codes
      /\ q.looked = 0
  BY <1>2 DEF Asks, Asked
<1>4. req' = [req EXCEPT ![r] = q]
  BY <1>1
<1> HIDE DEF q
<1> QED
  BY <1>3, <1>4 DEF Begin, Began, Becomes

LEMMA LookUpActs ==
  ASSUME NEW r \in Requests, Types, \A o \in Requests : Sound(req[o]), Past, LookUp(r)
  PROVE  Acts(r)
<1> DEFINE found == Matches(req[r].kind, req[r].code)
           p == req[r]
           q == [p EXCEPT !.at = "write", !.looked = clock]
<1>1. p \in Asks /\ p.at = "look" /\ Sound(p) /\ clock \in Nat
  BY DEF Types, LookUp
<1>2. CASE Ends(r)
  <2>1. Becomes(r, Idle)
    BY <1>2, EndsIs
  <2>2. Ended(r)
    BY <2>1, <1>1 DEF LookUp, Ended, Types
  <2> QED
    BY <2>2 DEF Acts
<1>3. CASE found = {} \/ req[r].id \in found
  <2>1. CASE Ends(r)
    BY <2>1, <1>2
  <2>2. CASE req' = [req EXCEPT ![r].at = "write", ![r].looked = clock]
    <3>1. req' = [req EXCEPT ![r] = q]
      BY <2>2
    <3>2. q \in Asks /\ q.at = "write" /\ q.looked = clock /\ Same(q, p)
      BY <1>1 DEF Asks, Same
    <3> HIDE DEF q
    <3>3. ASSUME NEW i \in Ids, FoundIn(q, i) PROVE HadIt(q)
      <4>1. i \in found
        BY <3>3, <3>2 DEF FoundIn, Matches, Existing, Same
      <4>2. req[r].id \in found
        BY <4>1, <1>3
      <4> QED
        BY <4>2, <3>2 DEF HadIt, Matches, Existing, Same
    <3>4. Looked(r, q)
      BY <3>1, <3>2, <3>3, <1>1 DEF Looked, Becomes, LookUp
    <3> QED
      BY <3>4 DEF Acts
  <2> QED
    BY <2>1, <2>2 DEF LookUp
<1> QED
  BY <1>2, <1>3 DEF LookUp

(* A request that only ends. *)
LEMMA EndActs ==
  ASSUME NEW r \in Requests, Types, req[r].at # "idle", Ends(r),
         UNCHANGED <<rows, users, audits, clock, begun>>
  PROVE  Acts(r)
<1>1. Becomes(r, Idle)
  BY EndsIs
<1> QED
  BY <1>1 DEF Acts, Ended, Types

LEMMA WriteDealerActs ==
  ASSUME NEW r \in Requests, Types, WriteDealer(r)
  PROVE  Acts(r)
<1>1. CASE Taken(r)
  BY <1>1, EndActs DEF WriteDealer
<1>2. CASE ~Taken(r)
  <2>1. Goto(r, "user")
    BY <1>2 DEF WriteDealer
  <2>2. PICK q : Becomes(r, q) /\ Same(q, req[r]) /\ q.looked = req[r].looked /\ Goto(r, q.at)
    BY <2>1, GotoIs
  <2>3. q.at = "user"
    BY <2>1, <2>2 DEF Goto, Becomes, Types, Asks
  <2>4. Advanced(r, q)
    BY <1>2, <2>2, <2>3 DEF Advanced, Locked, WriteDealer, Types
  <2> QED
    BY <2>4 DEF Acts
<1> QED
  BY <1>1, <1>2

LEMMA WriteSkuActs ==
  ASSUME NEW r \in Requests, Types, Sound(req[r]), WriteSku(r)
  PROVE  Acts(r)
<1>1. CASE Taken(r)
  BY <1>1, EndActs DEF WriteSku
<1>2. CASE ~Taken(r)
  <2>1. /\ Goto(r, "audit") /\ req[r].at = "write" /\ req[r].kind = "sku"
        /\ rows' = [rows EXCEPT !["sku"][req[r].id] = Row(r)] /\ clock' = clock + 1
        /\ UNCHANGED <<users, audits, begun>>
    BY <1>2 DEF WriteSku
  <2>2. PICK q : Becomes(r, q) /\ Same(q, req[r]) /\ q.looked = req[r].looked /\ Goto(r, q.at)
    BY <2>1, GotoIs
  <2>3. q.at = "audit"
    BY <2>1, <2>2 DEF Goto, Becomes, Types, Asks
  <2>4. rows' = [rows EXCEPT ![req[r].kind][req[r].id] = Row(r)]
    BY <2>1
  <2>5. Written(req[r], Row(r))
    BY <2>1, <2>4, RowIs
  <2>6. SkuWritten(r, q, Row(r))
    BY <1>2, <2>1, <2>2, <2>3, <2>5 DEF SkuWritten
  <2> QED
    BY <2>6 DEF Acts
<1> QED
  BY <1>1, <1>2

LEMMA WriteUserActs ==
  ASSUME NEW r \in Requests, Types, WriteUser(r)
  PROVE  Acts(r)
<1>1. CASE NameTaken(r)
  BY <1>1, EndActs DEF WriteUser
<1>2. CASE ~NameTaken(r)
  <2>1. Goto(r, "revoke") \/ Goto(r, "audit")
    BY <1>2 DEF WriteUser
  <2>2. PICK q : Becomes(r, q) /\ Same(q, req[r]) /\ q.looked = req[r].looked /\ Goto(r, q.at)
    BY <2>1, GotoIs
  <2>3. q.at \in {"revoke", "audit"}
    BY <2>1, <2>2 DEF Goto, Becomes, Types, Asks
  <2>4. Advanced(r, q)
    BY <1>2, <2>2, <2>3 DEF Advanced, Passes, WriteUser, Types, AuditRows
  <2> QED
    BY <2>4 DEF Acts
<1> QED
  BY <1>1, <1>2

LEMMA RevokeActs ==
  ASSUME NEW r \in Requests, Types, Revoke(r)
  PROVE  Acts(r)
<1>1. Goto(r, "audit") /\ req[r].at = "revoke"
  BY DEF Revoke
<1>2. PICK q : Becomes(r, q) /\ Same(q, req[r]) /\ q.looked = req[r].looked /\ Goto(r, q.at)
  BY <1>1, GotoIs
<1>3. q.at = "audit"
  BY <1>1, <1>2 DEF Goto, Becomes, Types, Asks
<1>4. Advanced(r, q)
  BY <1>1, <1>2, <1>3 DEF Advanced, Passes, Revoke, Types, AuditRows
<1> QED
  BY <1>4 DEF Acts

LEMMA AuditActs ==
  ASSUME NEW r \in Requests, Types, Sound(req[r]), Audit(r)
  PROVE  Acts(r)
<1> DEFINE new == AuditRow(req[r].kind, req[r].id, req[r].code)
<1>1. /\ req[r].at = "audit" /\ audits' = audits \cup {new}
      /\ UNCHANGED <<rows, users, clock, begun>>
  BY DEF Audit
<1>2. new \in AuditRows
  BY <1>1, AuditRowIs DEF Sound, Types, Asks
<1> HIDE DEF new
<1>3. audits \subseteq audits' /\ audits' \subseteq AuditRows /\ new \in audits'
  BY <1>1, <1>2 DEF Types
<1>4. CASE req[r].kind = "dealer"
  <2>1. Goto(r, "commit")
    BY <1>4 DEF Audit
  <2>2. PICK q : Becomes(r, q) /\ Same(q, req[r]) /\ q.looked = req[r].looked /\ Goto(r, q.at)
    BY <2>1, GotoIs
  <2>3. q.at = "commit"
    BY <2>1, <2>2 DEF Goto, Becomes, Types, Asks
  <2>4. Advanced(r, q)
    BY <1>1, <1>3, <1>4, <2>2, <2>3 DEF Advanced, Vouched, new
  <2> QED
    BY <2>4 DEF Acts
<1>5. CASE req[r].kind # "dealer"
  <2>1. Becomes(r, Idle)
    BY <1>5, EndsIs DEF Audit
  <2> QED
    BY <1>1, <1>3, <2>1 DEF Acts, Ended
<1> QED
  BY <1>4, <1>5

LEMMA CommitActs ==
  ASSUME NEW r \in Requests, Types, Sound(req[r]), Commit(r)
  PROVE  Acts(r)
<1>1. /\ req[r].at = "commit" /\ Ends(r)
      /\ rows' = [rows EXCEPT !["dealer"][req[r].id] = Row(r)] /\ clock' = clock + 1
      /\ users' = [users EXCEPT ![req[r].id] = UserRow(r)] /\ UNCHANGED <<audits, begun>>
  BY DEF Commit
<1>2. req[r].kind = "dealer"
  BY <1>1 DEF Sound
<1>3. rows' = [rows EXCEPT ![req[r].kind][req[r].id] = Row(r)]
  BY <1>1, <1>2
<1>4. Written(req[r], Row(r))
  BY <1>1, <1>3, RowIs
<1>5. Becomes(r, Idle)
  BY <1>1, EndsIs
<1>6. Committed(r, Row(r))
  BY <1>1, <1>2, <1>4, <1>5 DEF Committed
<1> QED
  BY <1>6 DEF Acts

LEMMA StepsAct ==
  ASSUME Types, \A o \in Requests : Sound(req[o]), Past, NEW r \in Requests,
         Begin(r) \/ Statement(r) \/ Fail(r) \/ TimeOut(r)
  PROVE  Acts(r)
<1>1. CASE Begin(r)
  <2>1. \E q : Began(r, q)
    BY <1>1, BeginActs
  <2> QED
    BY <2>1 DEF Acts
<1>2. CASE Statement(r)
  BY <1>2, LookUpActs, WriteDealerActs, WriteSkuActs, WriteUserActs, RevokeActs, AuditActs, CommitActs
     DEF Statement
<1>3. CASE Fail(r)
  BY <1>3, EndActs DEF Fail, RollsBack
<1>4. CASE TimeOut(r)
  BY <1>4, EndActs DEF TimeOut, Expires, InTransaction
<1> QED
  BY <1>1, <1>2, <1>3, <1>4

-----------------------------------------------------------------------------
(* Each step keeps each part of the invariant.                             *)

AllSound == \A r \in Requests : Sound(req[r])

LEMMA AfterBecoming ==
  ASSUME Types, NEW r \in Requests, NEW q, Becomes(r, q)
  PROVE  /\ req' \in [Requests -> Asks] /\ req'[r] = q
         /\ \A o \in Requests \ {r} : req'[o] = req[o]
BY DEF Becomes, Types

LEMMA UserRowIs ==
  ASSUME Types, NEW r \in Requests, req[r].code \in Codes
  PROVE  /\ UserRow(r) \in Users /\ UserRow(r).username = req[r].code
         /\ UserRow(r).active = req[r].active
BY DEF UserRow, Users, Types, Asks

LEMMA AfterWriting ==
  ASSUME Types, NEW p \in Asks, NEW w, p.id \in Ids, Written(p, w)
  PROVE  /\ rows' \in [Kinds -> [Ids -> Rows \cup {None}]]
         /\ rows'[p.kind][p.id] = w /\ w # None
         /\ \A kind \in Kinds, i \in Ids : kind # p.kind \/ i # p.id => rows'[kind][i] = rows[kind][i]
<1>1. p.kind \in Kinds
  BY DEF Asks
<1>2. w # None
  BY NoneAssumption DEF Written
<1> QED
  BY <1>1, <1>2 DEF Written, Types

LEMMA TypesKept ==
  ASSUME Types, AllSound, NEW r \in Requests, Acts(r)
  PROVE  Types'
<1> USE DEF Types
<1>1. CASE Ended(r)
  <2>1. req' \in [Requests -> Asks]
    BY <1>1, AfterBecoming DEF Ended
  <2> QED
    BY <1>1, <2>1 DEF Ended
<1>2. ASSUME NEW q, Began(r, q) PROVE Types'
  <2>1. req' \in [Requests -> Asks]
    BY <1>2, AfterBecoming DEF Began
  <2>2. begun' \in 0..MaxRequests
    BY <1>2, MasterAssumption DEF Began
  <2> QED
    BY <1>2, <2>1, <2>2 DEF Began
<1>3. ASSUME NEW q, Looked(r, q) PROVE Types'
  <2>1. req' \in [Requests -> Asks]
    BY <1>3, AfterBecoming DEF Looked
  <2> QED
    BY <1>3, <2>1 DEF Looked
<1>4. ASSUME NEW q, Advanced(r, q) PROVE Types'
  <2>1. req' \in [Requests -> Asks]
    BY <1>4, AfterBecoming DEF Advanced
  <2> QED
    BY <1>4, <2>1 DEF Advanced
<1>5. ASSUME NEW q, NEW w, SkuWritten(r, q, w) PROVE Types'
  <2>1. req' \in [Requests -> Asks]
    BY <1>5, AfterBecoming DEF SkuWritten
  <2>2. req[r] \in Asks /\ req[r].id \in Ids
    BY <1>5 DEF SkuWritten, AllSound, Sound
  <2>3. rows' \in [Kinds -> [Ids -> Rows \cup {None}]]
    BY <1>5, <2>2, AfterWriting DEF SkuWritten
  <2> QED
    BY <1>5, <2>1, <2>3 DEF SkuWritten, Written
<1>6. ASSUME NEW w, Committed(r, w) PROVE Types'
  <2>1. req' \in [Requests -> Asks]
    BY <1>6, AfterBecoming DEF Committed
  <2>2. req[r] \in Asks /\ req[r].id \in Ids /\ req[r].code \in Codes
    BY <1>6 DEF Committed, AllSound, Sound
  <2>3. rows' \in [Kinds -> [Ids -> Rows \cup {None}]]
    BY <1>6, <2>2, AfterWriting DEF Committed
  <2>4. users' \in [Ids -> Users \cup {None}]
    BY <1>6, <2>2, UserRowIs DEF Committed
  <2> QED
    BY <1>6, <2>1, <2>3, <2>4 DEF Committed, Written
<1> QED
  BY <1>1, <1>2, <1>3, <1>4, <1>5, <1>6 DEF Acts

(* r and no other request changes, to a q that is a sound request. *)
Turns(r, q) ==
  /\ req'[r] = q /\ \A o \in Requests \ {r} : req'[o] = req[o]
  /\ q.at # "idle" =>
       /\ q.id \in Ids /\ q.code \in Codes /\ q.looked <= clock
       /\ q.at \in {"user", "revoke", "commit"} => q.kind = "dealer"

LEMMA ActsTurn ==
  ASSUME Types, AllSound, NEW r \in Requests, Acts(r)
  PROVE  (\E q : Turns(r, q)) /\ clock' \in Nat /\ clock <= clock'
<1>1. req[r] \in Asks /\ Sound(req[r]) /\ clock \in Nat
  BY DEF AllSound, Types
<1>2. CASE Ended(r)
  <2>1. Turns(r, Idle)
    BY <1>2, AfterBecoming, IdleIs DEF Ended, Turns
  <2> QED
    BY <1>1, <1>2, <2>1 DEF Ended
<1>3. ASSUME NEW q, Began(r, q) PROVE Turns(r, q) /\ clock' = clock
  BY <1>1, <1>3, AfterBecoming DEF Began, Turns
<1>4. ASSUME NEW q, Looked(r, q) PROVE Turns(r, q) /\ clock' = clock
  BY <1>1, <1>4, AfterBecoming DEF Looked, Turns, Sound, Same
<1>5. ASSUME NEW q, Advanced(r, q) PROVE Turns(r, q) /\ clock' = clock
  <2>1. clock' = clock /\ req'[r] = q /\ \A o \in Requests \ {r} : req'[o] = req[o]
    BY <1>5, AfterBecoming DEF Advanced
  <2>2. req[r].at # "idle" /\ Same(q, req[r]) /\ q.looked = req[r].looked
    BY <1>5 DEF Advanced, Locked, Passes, Vouched
  <2>3. q.at \in {"user", "revoke", "commit"} => req[r].kind = "dealer"
    BY <1>1, <1>5 DEF Advanced, Locked, Passes, Vouched, Sound
  <2> QED
    BY <1>1, <2>1, <2>2, <2>3 DEF Turns, Sound, Same
<1>6. ASSUME NEW q, NEW w, SkuWritten(r, q, w) PROVE Turns(r, q) /\ clock' = clock + 1
  BY <1>1, <1>6, AfterBecoming DEF SkuWritten, Written, Turns, Sound, Same
<1>7. ASSUME NEW w, Committed(r, w) PROVE Turns(r, Idle) /\ clock' = clock + 1
  BY <1>7, AfterBecoming, IdleIs DEF Committed, Written, Turns
<1> QED
  BY <1>1, <1>2, <1>3, <1>4, <1>5, <1>6, <1>7 DEF Acts

LEMMA SoundKept ==
  ASSUME Types, AllSound, NEW r \in Requests, Acts(r)
  PROVE  AllSound'
<1>1. PICK q : Turns(r, q)
  BY ActsTurn
<1>2. clock \in Nat /\ clock' \in Nat /\ clock <= clock' /\ Types'
  BY ActsTurn, TypesKept DEF Types
<1> SUFFICES ASSUME NEW o \in Requests PROVE Sound(req[o])'
  BY DEF AllSound
<1>3. req'[o] \in Asks /\ req'[o].looked \in Nat
  BY <1>2 DEF Types, Asks
<1>4. CASE o = r
  BY <1>1, <1>2, <1>3, <1>4 DEF Turns, Sound
<1>5. CASE o # r
  BY <1>1, <1>2, <1>3, <1>5 DEF Turns, Sound, AllSound
<1> QED
  BY <1>4, <1>5

(* A step adds at most the request that begins, and takes the one away that *)
(* writes.                                                                  *)
LEMMA BoundKept ==
  ASSUME Types, AllSound, WritesBounded, NEW r \in Requests, Acts(r)
  PROVE  WritesBounded'
<1>1. IsFiniteSet(Pending) /\ Pending \in SUBSET Requests /\ clock \in Nat /\ begun \in Nat
  <2>1. IsFiniteSet(Requests)
    BY MasterAssumption
  <2>2. Pending \in SUBSET Requests
    BY DEF Pending
  <2> QED
    BY <2>1, <2>2, FS_Subset, MasterAssumption DEF Types
<1>2. ASSUME NEW q, Turns(r, q), Unwritten(q) => Unwritten(req[r]), clock' = clock, begun' = begun
      PROVE  WritesBounded'
  <2>1. Pending' \in SUBSET Pending
    BY <1>2 DEF Turns, Pending
  <2> QED
    BY <1>1, <1>2, <2>1, Fewer DEF WritesBounded
<1>3. ASSUME NEW q, Turns(r, q), Unwritten(req[r]), ~Unwritten(q), clock' = clock + 1, begun' = begun
      PROVE  WritesBounded'
  <2>1. Pending' \in SUBSET (Pending \ {r}) /\ r \in Pending
    BY <1>3 DEF Turns, Pending
  <2> QED
    BY <1>1, <1>3, <2>1, OneFewer DEF WritesBounded
<1>4. CASE Ended(r)
  <2>1. Turns(r, Idle) /\ ~Unwritten(Idle)
    BY <1>4, AfterBecoming, IdleIs DEF Ended, Turns, Unwritten
  <2> QED
    BY <1>2, <1>4, <2>1 DEF Ended
<1>5. ASSUME NEW q, Began(r, q) PROVE WritesBounded'
  <2>1. Pending' \in SUBSET (Pending \cup {r})
    BY <1>5, AfterBecoming DEF Began, Pending
  <2>2. Cardinality(Pending) \in Nat /\ Cardinality(Pending') \in Nat /\ Cardinality(Pending') <= Cardinality(Pending) + 1
    BY <1>1, <2>1, OneMore
  <2> QED
    BY <1>1, <1>5, <2>2 DEF WritesBounded, Began
<1>6. ASSUME NEW q, Looked(r, q) PROVE WritesBounded'
  <2>1. req'[r] = q /\ \A o \in Requests \ {r} : req'[o] = req[o]
    BY <1>6, AfterBecoming DEF Looked
  <2>2. Unwritten(req[r])
    BY <1>6 DEF Looked, Unwritten
  <2>3. Pending' \in SUBSET Pending
    BY <2>1, <2>2 DEF Pending
  <2> QED
    BY <1>1, <1>6, <2>3, Fewer DEF WritesBounded, Looked
<1>7. ASSUME NEW q, Advanced(r, q) PROVE WritesBounded'
  <2>1. req'[r] = q /\ \A o \in Requests \ {r} : req'[o] = req[o]
    BY <1>7, AfterBecoming DEF Advanced
  <2>2. Unwritten(req[r])
    BY <1>7 DEF Advanced, Locked, Passes, Vouched, Unwritten, AllSound, Sound
  <2>3. Pending' \in SUBSET Pending
    BY <2>1, <2>2 DEF Pending
  <2> QED
    BY <1>1, <1>7, <2>3, Fewer DEF WritesBounded, Advanced
<1>8. ASSUME NEW q, NEW w, SkuWritten(r, q, w) PROVE WritesBounded'
  <2>1. req'[r] = q /\ \A o \in Requests \ {r} : req'[o] = req[o]
    BY <1>8, AfterBecoming DEF SkuWritten
  <2>2. Unwritten(req[r]) /\ ~Unwritten(q) /\ clock' = clock + 1 /\ begun' = begun
    BY <1>8 DEF SkuWritten, Written, Unwritten, Same
  <2>3. Pending' \in SUBSET (Pending \ {r}) /\ r \in Pending
    BY <2>1, <2>2 DEF Pending
  <2> QED
    BY <1>1, <2>2, <2>3, OneFewer DEF WritesBounded
<1>9. ASSUME NEW w, Committed(r, w) PROVE WritesBounded'
  <2>1. Turns(r, Idle) /\ ~Unwritten(Idle)
    BY <1>9, AfterBecoming, IdleIs DEF Committed, Turns, Unwritten
  <2>2. Unwritten(req[r]) /\ clock' = clock + 1 /\ begun' = begun
    BY <1>9 DEF Committed, Written, Unwritten
  <2> QED
    BY <1>3, <2>1, <2>2
<1> QED
  BY <1>4, <1>5, <1>6, <1>7, <1>8, <1>9 DEF Acts

(* The request of r goes on as q, or ends. *)
Goes(r, q) ==
  /\ req'[r] = q /\ \A o \in Requests \ {r} : req'[o] = req[o]
  /\ req[r].at # "idle" /\ (q.at = "idle" \/ Same(q, req[r]))

LEMMA ActsGo ==
  ASSUME Types, NEW r \in Requests, Acts(r)
  PROVE  (\E q : Began(r, q)) \/ (\E q : Goes(r, q))
<1>1. CASE Ended(r)
  <2>1. Goes(r, Idle)
    BY <1>1, AfterBecoming, IdleIs DEF Ended, Goes
  <2> QED
    BY <2>1
<1>2. ASSUME NEW q, Looked(r, q) PROVE Goes(r, q)
  BY <1>2, AfterBecoming DEF Looked, Goes
<1>3. ASSUME NEW q, Advanced(r, q) PROVE Goes(r, q)
  <2>1. req'[r] = q /\ \A o \in Requests \ {r} : req'[o] = req[o]
    BY <1>3, AfterBecoming DEF Advanced
  <2>2. req[r].at # "idle" /\ Same(q, req[r])
    BY <1>3 DEF Advanced, Locked, Passes, Vouched
  <2> QED
    BY <2>1, <2>2 DEF Goes
<1>4. ASSUME NEW q, NEW w, SkuWritten(r, q, w) PROVE Goes(r, q)
  BY <1>4, AfterBecoming DEF SkuWritten, Goes
<1>5. ASSUME NEW w, Committed(r, w) PROVE Goes(r, Idle)
  BY <1>5, AfterBecoming, IdleIs DEF Committed, Goes
<1> QED
  BY <1>1, <1>2, <1>3, <1>4, <1>5 DEF Acts

LEMMA PoolKept ==
  ASSUME Types, PoolOK, NEW r \in Requests, Acts(r)
  PROVE  PoolOK'
<1>1. IsFiniteSet(Connected) /\ Connected \in SUBSET Requests /\ PoolSize \in Nat
  <2>1. IsFiniteSet(Requests)
    BY MasterAssumption
  <2>2. Connected \in SUBSET Requests
    BY DEF Connected
  <2> QED
    BY <2>1, <2>2, FS_Subset, MasterAssumption
<1>2. ASSUME NEW q, Began(r, q) PROVE PoolOK'
  <2>1. Connected' \in SUBSET (Connected \cup {r})
    BY <1>2, AfterBecoming DEF Began, Connected, InTransaction
  <2>2. Cardinality(Connected) \in Nat /\ Cardinality(Connected') \in Nat /\ Cardinality(Connected') <= Cardinality(Connected) + 1
    BY <1>1, <2>1, OneMore
  <2> QED
    BY <1>1, <1>2, <2>2 DEF PoolOK, Began, PoolHasFree
<1>3. ASSUME NEW q, Goes(r, q) PROVE PoolOK'
  <2>1. Connected' \in SUBSET Connected
    BY <1>3 DEF Goes, Same, Connected, InTransaction
  <2> QED
    BY <1>1, <2>1, Fewer DEF PoolOK
<1> QED
  BY <1>2, <1>3, ActsGo

(* Of a request: it is an open transaction that has written its row. *)
Writes(q) == q.kind = "dealer" /\ q.at \in {"user", "revoke", "audit", "commit"}

LEMMA WritersAre == \A r \in Requests : r \in DealerWriters <=> Writes(req[r])
BY DEF DealerWriters, Connected, InTransaction, Writes

LEMMA WritersAreNext == \A r \in Requests : r \in DealerWriters' <=> Writes(req'[r])
BY DEF DealerWriters, Connected, InTransaction, Writes

(* Only a dealer's row makes a new writer, and only where no other waits. *)
LEMMA ActsWrite ==
  ASSUME Types, NEW r \in Requests, Acts(r)
  PROVE  \E q : /\ req'[r] = q /\ \A o \in Requests \ {r} : req'[o] = req[o]
                /\ Writes(q) => /\ Same(q, req[r]) /\ UNCHANGED rows
                                /\ Writes(req[r]) \/ (~Waits(r, DealerWriters) /\ ~Taken(r))
<1>1. CASE Ended(r)
  BY <1>1, AfterBecoming, IdleIs DEF Ended, Writes
<1>2. ASSUME NEW q, Began(r, q) PROVE req'[r] = q /\ (\A o \in Requests \ {r} : req'[o] = req[o]) /\ ~Writes(q)
  BY <1>2, AfterBecoming DEF Began, Writes
<1>3. ASSUME NEW q, Looked(r, q) PROVE req'[r] = q /\ (\A o \in Requests \ {r} : req'[o] = req[o]) /\ ~Writes(q)
  BY <1>3, AfterBecoming DEF Looked, Writes
<1>4. ASSUME NEW q, Advanced(r, q)
      PROVE  /\ req'[r] = q /\ \A o \in Requests \ {r} : req'[o] = req[o]
             /\ Writes(q) => /\ Same(q, req[r]) /\ UNCHANGED rows
                             /\ Writes(req[r]) \/ (~Waits(r, DealerWriters) /\ ~Taken(r))
  <2>1. req'[r] = q /\ \A o \in Requests \ {r} : req'[o] = req[o]
    BY <1>4, AfterBecoming DEF Advanced
  <2> QED
    BY <1>4, <2>1 DEF Advanced, Locked, Passes, Vouched, Writes, Same
<1>5. ASSUME NEW q, NEW w, SkuWritten(r, q, w)
      PROVE  req'[r] = q /\ (\A o \in Requests \ {r} : req'[o] = req[o]) /\ ~Writes(q)
  BY <1>5, AfterBecoming DEF SkuWritten, Writes, Same
<1>6. ASSUME NEW w, Committed(r, w)
      PROVE  req'[r] = Idle /\ (\A o \in Requests \ {r} : req'[o] = req[o]) /\ ~Writes(Idle)
  BY <1>6, AfterBecoming, IdleIs DEF Committed, Writes
<1> QED
  BY <1>1, <1>2, <1>3, <1>4, <1>5, <1>6 DEF Acts

LEMMA ExclusiveKept ==
  ASSUME Types, Exclusive, NEW r \in Requests, Acts(r)
  PROVE  Exclusive'
<1>1. PICK q : /\ req'[r] = q /\ \A o \in Requests \ {r} : req'[o] = req[o]
               /\ Writes(q) => /\ Same(q, req[r])
                               /\ Writes(req[r]) \/ (~Waits(r, DealerWriters) /\ ~Taken(r))
  BY ActsWrite
<1> SUFFICES ASSUME NEW a \in Requests, NEW b \in Requests, a # b, Writes(req'[a]), Writes(req'[b])
             PROVE  req'[a].id # req'[b].id /\ req'[a].code # req'[b].code
  <2>1. DealerWriters' \subseteq Requests
    BY DEF DealerWriters, Connected
  <2> QED
    BY <2>1, WritersAreNext DEF Exclusive, Apart
<1>2. \A c, d \in Requests : c # d /\ Writes(req[c]) /\ Writes(req[d]) =>
        req[c].id # req[d].id /\ req[c].code # req[d].code
  BY WritersAre DEF Exclusive, Apart
<1>3. ~Waits(r, DealerWriters) =>
        \A d \in Requests : d # r /\ Writes(req[d]) => req[d].id # req[r].id /\ req[d].code # req[r].code
  BY WritersAre DEF Waits
<1>4. CASE a = r
  <2>1. b # r /\ req'[b] = req[b] /\ req'[a].id = req[r].id /\ req'[a].code = req[r].code
    BY <1>1, <1>4 DEF Same
  <2> QED
    BY <1>1, <1>2, <1>3, <1>4, <2>1
<1>5. CASE b = r
  <2>1. a # r /\ req'[a] = req[a] /\ req'[b].id = req[r].id /\ req'[b].code = req[r].code
    BY <1>1, <1>5 DEF Same
  <2> QED
    BY <1>1, <1>2, <1>3, <1>5, <2>1
<1>6. CASE a # r /\ b # r
  BY <1>1, <1>2, <1>6
<1> QED
  BY <1>4, <1>5, <1>6

(* What changes in the tables: one row of requests that write, and a user   *)
(* with a dealer.                                                           *)
LEMMA ActsWriteRow ==
  ASSUME Types, AllSound, NEW r \in Requests, Acts(r)
  PROVE  \/ UNCHANGED <<rows, clock>>
         \/ \E w : /\ Written(req[r], w) /\ req[r] \in Asks /\ req[r].id \in Ids /\ req[r].code \in Codes
                   /\ LookedUp(req[r]) /\ req[r].looked <= clock
                   /\ req[r].kind = "dealer" => Committed(r, w)
                   /\ req[r].kind = "sku" => ~Taken(r)
<1>1. Sound(req[r]) /\ req[r] \in Asks
  BY DEF AllSound, Types
<1>2. CASE Ended(r)
  BY <1>2 DEF Ended
<1>3. ASSUME NEW q, Began(r, q) \/ Looked(r, q) \/ Advanced(r, q) PROVE UNCHANGED <<rows, clock>>
  BY <1>3 DEF Began, Looked, Advanced
<1>4. ASSUME NEW q, NEW w, SkuWritten(r, q, w)
      PROVE  /\ Written(req[r], w) /\ req[r].id \in Ids /\ req[r].code \in Codes
             /\ LookedUp(req[r]) /\ req[r].looked <= clock
             /\ req[r].kind # "dealer" /\ ~Taken(r)
  BY <1>1, <1>4 DEF SkuWritten, Sound, LookedUp
<1>5. ASSUME NEW w, Committed(r, w)
      PROVE  /\ Written(req[r], w) /\ req[r].id \in Ids /\ req[r].code \in Codes
             /\ LookedUp(req[r]) /\ req[r].looked <= clock /\ req[r].kind # "sku"
  BY <1>1, <1>5 DEF Committed, Sound, LookedUp
<1> QED
  BY <1>1, <1>2, <1>3, <1>4, <1>5 DEF Acts

LEMMA CodesFreeKept ==
  ASSUME Types, AllSound, Exclusive, CodesFree, NEW r \in Requests, Acts(r)
  PROVE  CodesFree'
<1>1. PICK q : /\ req'[r] = q /\ \A o \in Requests \ {r} : req'[o] = req[o]
               /\ Writes(q) => /\ Same(q, req[r]) /\ UNCHANGED rows
                               /\ Writes(req[r]) \/ (~Waits(r, DealerWriters) /\ ~Taken(r))
  BY ActsWrite
<1> SUFFICES ASSUME NEW o \in Requests, Writes(req'[o]), NEW i \in Ids, i # req'[o].id,
                    rows'["dealer"][i] # None, rows'["dealer"][i].code = req'[o].code
             PROVE  FALSE
  <2>1. DealerWriters' \subseteq Requests
    BY DEF DealerWriters, Connected
  <2> QED
    BY <2>1, WritersAreNext DEF CodesFree, Taken, Existing, Writes
<1>2. \A c \in Requests : Writes(req[c]) => ~Taken(c)
  BY WritersAre DEF CodesFree
<1>3. \A c \in Requests : ~Taken(c) /\ req[c].kind = "dealer" =>
        \A j \in Ids : j # req[c].id /\ rows["dealer"][j] # None => rows["dealer"][j].code # req[c].code
  BY DEF Taken, Existing
<1>4. CASE o = r
  <2>1. ~Taken(r) /\ Same(q, req[r]) /\ UNCHANGED rows /\ Writes(q)
    BY <1>1, <1>2, <1>4
  <2> QED
    BY <1>1, <1>3, <1>4, <2>1 DEF Same, Writes
<1>5. CASE o # r /\ UNCHANGED rows
  BY <1>1, <1>2, <1>3, <1>5 DEF Writes
<1>6. CASE o # r /\ ~UNCHANGED rows
  <2>1. req'[o] = req[o] /\ Writes(req[o])
    BY <1>1, <1>6
  <2>2. PICK w : /\ Written(req[r], w) /\ req[r] \in Asks /\ req[r].id \in Ids
                 /\ req[r].kind = "dealer" => Committed(r, w)
    BY <1>6, ActsWriteRow
  <2>3. /\ rows'[req[r].kind][req[r].id] = w
        /\ \A kind \in Kinds, j \in Ids : kind # req[r].kind \/ j # req[r].id => rows'[kind][j] = rows[kind][j]
    BY <2>2, AfterWriting
  <2>4. "dealer" \in Kinds
    BY DEF Kinds
  <2>5. CASE req[r].kind = "dealer" /\ i = req[r].id
    <3>1. Writes(req[r])
      BY <2>2, <2>5 DEF Committed, Writes
    <3>2. req[o].code # req[r].code
      BY <1>6, <2>1, <3>1, WritersAre DEF Exclusive, Apart
    <3>3. w.code = req[r].code
      BY <2>2 DEF Written
    <3> QED
      BY <2>1, <2>3, <2>5, <3>2, <3>3
  <2>6. CASE ~(req[r].kind = "dealer" /\ i = req[r].id)
    <3>1. rows'["dealer"][i] = rows["dealer"][i]
      BY <2>3, <2>4, <2>6
    <3> QED
      BY <1>2, <1>3, <2>1, <3>1 DEF Writes
  <2> QED
    BY <2>5, <2>6
<1> QED
  BY <1>4, <1>5, <1>6

(* The tables of dealers and users change together, or neither does. *)
LEMMA ActsOnDealers ==
  ASSUME Types, AllSound, NEW r \in Requests, Acts(r)
  PROVE  /\ audits \subseteq audits'
         /\ \/ UNCHANGED users /\ \A i \in Ids : rows'["dealer"][i] = rows["dealer"][i]
            \/ \E w : /\ Committed(r, w) /\ req[r].id \in Ids /\ req[r].code \in Codes
                      /\ rows'["dealer"][req[r].id] = w /\ w # None
                      /\ \A i \in Ids : i # req[r].id => rows'["dealer"][i] = rows["dealer"][i]
<1>1. Sound(req[r]) /\ req[r] \in Asks /\ "dealer" \in Kinds
  BY DEF AllSound, Types, Kinds
<1>2. CASE Ended(r)
  BY <1>2 DEF Ended
<1>3. ASSUME NEW q, Began(r, q) \/ Looked(r, q) \/ Advanced(r, q)
      PROVE  audits \subseteq audits' /\ UNCHANGED <<rows, users>>
  BY <1>3 DEF Began, Looked, Advanced
<1>4. ASSUME NEW q, NEW w, SkuWritten(r, q, w)
      PROVE  /\ audits \subseteq audits' /\ UNCHANGED users
             /\ \A i \in Ids : rows'["dealer"][i] = rows["dealer"][i]
  <2>1. req[r].id \in Ids /\ Written(req[r], w) /\ req[r].kind # "dealer"
    BY <1>1, <1>4 DEF SkuWritten, Sound
  <2> QED
    BY <1>1, <1>4, <2>1, AfterWriting DEF SkuWritten
<1>5. ASSUME NEW w, Committed(r, w)
      PROVE  /\ audits \subseteq audits' /\ req[r].id \in Ids /\ req[r].code \in Codes
             /\ rows'["dealer"][req[r].id] = w /\ w # None
             /\ \A i \in Ids : i # req[r].id => rows'["dealer"][i] = rows["dealer"][i]
  <2>1. req[r].id \in Ids /\ req[r].code \in Codes /\ Written(req[r], w) /\ req[r].kind = "dealer"
    BY <1>1, <1>5 DEF Committed, Sound
  <2> QED
    BY <1>1, <1>5, <2>1, AfterWriting DEF Committed
<1> QED
  BY <1>2, <1>3, <1>4, <1>5 DEF Acts

UserOf(dealer) == [username |-> dealer.code, active |-> dealer.active]

LEMMA MirrorKept ==
  ASSUME Types, AllSound, UserMirrorsDealer, NEW r \in Requests, Acts(r)
  PROVE  UserMirrorsDealer'
<1>1. \A i \in Ids : /\ (rows["dealer"][i] = None) = (users[i] = None)
                     /\ rows["dealer"][i] # None => users[i] = UserOf(rows["dealer"][i])
  BY DEF UserMirrorsDealer, UserOf
<1> SUFFICES ASSUME NEW i \in Ids
             PROVE  /\ (rows'["dealer"][i] = None) = (users'[i] = None)
                    /\ rows'["dealer"][i] # None => users'[i] = UserOf(rows'["dealer"][i])
  BY DEF UserMirrorsDealer, UserOf
<1>2. CASE UNCHANGED users /\ \A j \in Ids : rows'["dealer"][j] = rows["dealer"][j]
  BY <1>1, <1>2
<1>3. ASSUME NEW w, Committed(r, w), req[r].id \in Ids, req[r].code \in Codes,
             rows'["dealer"][req[r].id] = w, w # None,
             \A j \in Ids : j # req[r].id => rows'["dealer"][j] = rows["dealer"][j]
      PROVE  /\ (rows'["dealer"][i] = None) = (users'[i] = None)
             /\ rows'["dealer"][i] # None => users'[i] = UserOf(rows'["dealer"][i])
  <2>1. users' = [users EXCEPT ![req[r].id] = UserRow(r)] /\ w.code = req[r].code /\ w.active = req[r].active
    BY <1>3 DEF Committed, Written
  <2>2. UserRow(r) = UserOf(w)
    BY <2>1 DEF UserRow, UserOf
  <2>3. UserRow(r) # None
    BY <1>3, UserRowIs, NoneAssumption
  <2>4. users'[req[r].id] = UserRow(r) /\ \A j \in Ids : j # req[r].id => users'[j] = users[j]
    BY <2>1, <1>3 DEF Types
  <2> QED
    BY <1>1, <1>3, <2>2, <2>3, <2>4
<1> QED
  BY <1>2, <1>3, ActsOnDealers

LEMMA AuditedFirstKept ==
  ASSUME Types, AllSound, AuditedFirst, NEW r \in Requests, Acts(r)
  PROVE  AuditedFirst'
<1>1. audits \subseteq audits'
  BY ActsOnDealers
<1>2. PICK q : /\ req'[r] = q /\ \A o \in Requests \ {r} : req'[o] = req[o]
               /\ q.at = "commit" => Same(q, req[r]) /\ AuditRow(req[r].kind, req[r].id, req[r].code) \in audits'
  <2>1. CASE Ended(r)
    BY <2>1, AfterBecoming, IdleIs DEF Ended
  <2>2. ASSUME NEW p, Began(r, p)
        PROVE  req'[r] = p /\ (\A o \in Requests \ {r} : req'[o] = req[o]) /\ p.at # "commit"
    BY <2>2, AfterBecoming DEF Began
  <2>3. ASSUME NEW p, Looked(r, p)
        PROVE  req'[r] = p /\ (\A o \in Requests \ {r} : req'[o] = req[o]) /\ p.at # "commit"
    BY <2>3, AfterBecoming DEF Looked
  <2>4. ASSUME NEW p, Advanced(r, p)
        PROVE  /\ req'[r] = p /\ \A o \in Requests \ {r} : req'[o] = req[o]
               /\ p.at = "commit" => Same(p, req[r]) /\ AuditRow(req[r].kind, req[r].id, req[r].code) \in audits'
    BY <2>4, AfterBecoming DEF Advanced, Locked, Passes, Vouched
  <2>5. ASSUME NEW p, NEW w, SkuWritten(r, p, w)
        PROVE  req'[r] = p /\ (\A o \in Requests \ {r} : req'[o] = req[o]) /\ p.at # "commit"
    BY <2>5, AfterBecoming DEF SkuWritten
  <2>6. ASSUME NEW w, Committed(r, w)
        PROVE  req'[r] = Idle /\ \A o \in Requests \ {r} : req'[o] = req[o]
    BY <2>6, AfterBecoming DEF Committed
  <2> QED
    BY <2>1, <2>2, <2>3, <2>4, <2>5, <2>6, IdleIs DEF Acts
<1> QED
  BY <1>1, <1>2 DEF AuditedFirst, Same

LEMMA AuditedKept ==
  ASSUME Types, AllSound, AuditedFirst, DealersAreAudited, NEW r \in Requests, Acts(r)
  PROVE  DealersAreAudited'
<1> SUFFICES ASSUME NEW i \in Ids, rows'["dealer"][i] # None
             PROVE  AuditRow("dealer", i, rows'["dealer"][i].code) \in audits'
  BY DEF DealersAreAudited, Existing
<1>1. audits \subseteq audits'
  BY ActsOnDealers
<1>2. CASE rows'["dealer"][i] = rows["dealer"][i]
  BY <1>1, <1>2 DEF DealersAreAudited, Existing
<1>3. ASSUME NEW w, Committed(r, w), rows'["dealer"][req[r].id] = w, i = req[r].id
      PROVE  AuditRow("dealer", i, rows'["dealer"][i].code) \in audits'
  <2>1. AuditRow(req[r].kind, req[r].id, req[r].code) \in audits
    BY <1>3 DEF Committed, AuditedFirst
  <2>2. req[r].kind = "dealer" /\ w.code = req[r].code
    BY <1>3 DEF Committed, Written
  <2> QED
    BY <1>1, <1>3, <2>1, <2>2
<1> QED
  BY <1>2, <1>3, ActsOnDealers

-----------------------------------------------------------------------------
(* The history of the codes.                                               *)

(* A row as written, beside the one it replaces: its code was in that row   *)
(* since the time it says, or is new now.                                   *)
LEMMA RowsAfter ==
  ASSUME Types, Past, NEW p \in Asks, NEW w, p.id \in Ids, Written(p, w),
         NEW kind \in Kinds, NEW i \in Ids, rows'[kind][i] # None
  PROVE  \/ /\ rows[kind][i] # None /\ rows'[kind][i].at = rows[kind][i].at
            /\ rows'[kind][i].code[1] = rows[kind][i].code[1]
            /\ rows'[kind][i].looked = rows[kind][i].looked
            /\ rows'[kind][i].before = rows[kind][i].before
         \/ /\ kind = p.kind /\ i = p.id /\ rows'[kind][i] = w
            /\ w.at = clock + 1 /\ w.looked = p.looked /\ w.code = p.code
            /\ rows[kind][i] # None =>
                 w.before = rows[kind][i].at /\ ~SameIgnoringCase(rows[kind][i].code, p.code)
<1>1. /\ rows'[p.kind][p.id] = w
      /\ \A k \in Kinds, j \in Ids : k # p.kind \/ j # p.id => rows'[k][j] = rows[k][j]
  BY AfterWriting
<1>2. CASE kind # p.kind \/ i # p.id
  BY <1>1, <1>2
<1>3. CASE kind = p.kind /\ i = p.id
  BY <1>1, <1>3 DEF Written, SameIgnoringCase
<1> QED
  BY <1>2, <1>3

LEMMA PastKept ==
  ASSUME Types, AllSound, Past, NEW r \in Requests, Acts(r)
  PROVE  Past'
<1>1. CASE UNCHANGED <<rows, clock>>
  BY <1>1 DEF Past
<1>2. ASSUME NEW w, Written(req[r], w), req[r] \in Asks, req[r].id \in Ids PROVE Past'
  <2> SUFFICES ASSUME NEW kind \in Kinds, NEW i \in Ids, rows'[kind][i] # None
               PROVE  rows'[kind][i].at <= clock'
    BY DEF Past
  <2>1. clock \in Nat /\ clock' = clock + 1
    BY <1>2 DEF Written, Types
  <2>2. rows[kind][i] # None => rows[kind][i].at \in Nat /\ rows[kind][i].at <= clock
    BY DEF Types, Rows, Past
  <2>3. \/ rows[kind][i] # None /\ rows'[kind][i].at = rows[kind][i].at
        \/ rows'[kind][i].at = clock + 1
    BY <1>2, RowsAfter
  <2> QED
    BY <2>1, <2>2, <2>3
<1> QED
  BY <1>1, <1>2, ActsWriteRow

(* What q's look-up found still holds when another row is written. *)
LEMMA FoundStays ==
  ASSUME Types, Past, NEW p \in Asks, NEW w, p.id \in Ids, Written(p, w),
         NEW q \in Asks, q.id \in Ids, q.looked <= clock,
         \A i \in Ids : FoundIn(q, i) => HadIt(q),
         NEW i \in Ids, FoundIn(q, i)'
  PROVE  HadIt(q)'
<1>1. q.kind \in Kinds /\ q.looked \in Nat /\ clock \in Nat
  BY DEF Asks, Types
<1>2. /\ i # q.id /\ rows'[q.kind][i] # None /\ rows'[q.kind][i].code[1] = q.code[1]
      /\ rows'[q.kind][i].at <= q.looked
  BY DEF FoundIn, SameIgnoringCase
<1>3. rows[q.kind][i] # None /\ rows'[q.kind][i].at = rows[q.kind][i].at
      /\ rows'[q.kind][i].code[1] = rows[q.kind][i].code[1]
  BY <1>1, <1>2, RowsAfter
<1>4. FoundIn(q, i)
  BY <1>2, <1>3 DEF FoundIn, SameIgnoringCase
<1>5. /\ rows[q.kind][q.id] # None
      /\ rows[q.kind][q.id].code[1] = q.code[1] \/ q.looked < rows[q.kind][q.id].at
  BY <1>4 DEF HadIt, SameIgnoringCase
<1>6. rows'[q.kind][q.id] # None
  BY <1>1, <1>5, AfterWriting
<1>7. \/ /\ rows'[q.kind][q.id].at = rows[q.kind][q.id].at
         /\ rows'[q.kind][q.id].code[1] = rows[q.kind][q.id].code[1]
      \/ rows'[q.kind][q.id].at = clock + 1
  BY <1>1, <1>6, RowsAfter
<1>8. rows'[q.kind][q.id].code[1] = q.code[1] \/ q.looked < rows'[q.kind][q.id].at
  BY <1>1, <1>5, <1>7
<1> QED
  BY <1>6, <1>8 DEF HadIt, SameIgnoringCase

(* What r becomes knows from its look-up what the request knew. *)
Knows(q) ==
  /\ q \in Asks /\ q.id \in Ids /\ q.looked <= clock
  /\ \A i \in Ids : FoundIn(q, i) => HadIt(q)

LEMMA KnowsSame ==
  ASSUME NEW p, NEW q \in Asks, Knows(p), Same(q, p), q.looked = p.looked
  PROVE  Knows(q)
<1>1. \A i \in Ids : (FoundIn(q, i) <=> FoundIn(p, i)) /\ (HadIt(q) <=> HadIt(p))
  BY DEF Same, FoundIn, HadIt
<1> QED
  BY <1>1 DEF Knows, Same

LEMMA ActsKnow ==
  ASSUME Types, AllSound, LookUpHolds, NEW r \in Requests, Acts(r)
  PROVE  \E q : /\ req'[r] = q /\ \A o \in Requests \ {r} : req'[o] = req[o]
                /\ LookedUp(q) => Knows(q)
<1>1. req[r] \in Asks /\ Sound(req[r]) /\ clock \in Nat
  BY DEF AllSound, Types
<1>2. LookedUp(req[r]) => Knows(req[r])
  BY <1>1 DEF LookUpHolds, Knows, Sound, LookedUp
<1>3. CASE Ended(r)
  BY <1>3, AfterBecoming, IdleIs DEF Ended, LookedUp
<1>4. ASSUME NEW q, Began(r, q)
      PROVE  req'[r] = q /\ (\A o \in Requests \ {r} : req'[o] = req[o]) /\ ~LookedUp(q)
  BY <1>4, AfterBecoming DEF Began, LookedUp
<1>5. ASSUME NEW q, Looked(r, q)
      PROVE  req'[r] = q /\ (\A o \in Requests \ {r} : req'[o] = req[o]) /\ Knows(q)
  <2>1. q \in Asks /\ req'[r] = q /\ \A o \in Requests \ {r} : req'[o] = req[o]
    BY <1>5, AfterBecoming DEF Looked, Becomes
  <2>2. q.id \in Ids /\ q.looked <= clock /\ \A i \in Ids : FoundIn(q, i) => HadIt(q)
    BY <1>1, <1>5 DEF Looked, Same, Sound
  <2> QED
    BY <2>1, <2>2 DEF Knows
<1>6. ASSUME NEW q, Advanced(r, q)
      PROVE  req'[r] = q /\ (\A o \in Requests \ {r} : req'[o] = req[o]) /\ Knows(q)
  <2>1. q \in Asks /\ req'[r] = q /\ \A o \in Requests \ {r} : req'[o] = req[o]
    BY <1>6, AfterBecoming DEF Advanced, Becomes
  <2>2. LookedUp(req[r]) /\ Same(q, req[r]) /\ q.looked = req[r].looked
    BY <1>6 DEF Advanced, Locked, Passes, Vouched, LookedUp
  <2>3. Knows(q)
    BY <1>2, <2>1, <2>2, KnowsSame
  <2> QED
    BY <2>1, <2>3
<1>7. ASSUME NEW q, NEW w, SkuWritten(r, q, w)
      PROVE  req'[r] = q /\ (\A o \in Requests \ {r} : req'[o] = req[o]) /\ Knows(q)
  <2>1. q \in Asks /\ req'[r] = q /\ \A o \in Requests \ {r} : req'[o] = req[o]
    BY <1>7, AfterBecoming DEF SkuWritten, Becomes
  <2>2. LookedUp(req[r]) /\ Same(q, req[r]) /\ q.looked = req[r].looked
    BY <1>7 DEF SkuWritten, LookedUp
  <2>3. Knows(q)
    BY <1>2, <2>1, <2>2, KnowsSame
  <2> QED
    BY <2>1, <2>3
<1>8. ASSUME NEW w, Committed(r, w)
      PROVE  req'[r] = Idle /\ (\A o \in Requests \ {r} : req'[o] = req[o]) /\ ~LookedUp(Idle)
  BY <1>8, AfterBecoming, IdleIs DEF Committed, LookedUp
<1> QED
  BY <1>3, <1>4, <1>5, <1>6, <1>7, <1>8 DEF Acts

LEMMA LookUpKept ==
  ASSUME Types, AllSound, Past, LookUpHolds, NEW r \in Requests, Acts(r)
  PROVE  LookUpHolds'
<1>1. PICK p : /\ req'[r] = p /\ \A o \in Requests \ {r} : req'[o] = req[o]
               /\ LookedUp(p) => Knows(p)
  BY ActsKnow
<1> SUFFICES ASSUME NEW o \in Requests, NEW q, req'[o] = q, LookedUp(q), NEW i \in Ids, FoundIn(q, i)'
             PROVE  HadIt(q)'
  BY DEF LookUpHolds, LookedUp, FoundIn, HadIt
<1>2. Knows(q)
  <2>1. CASE o = r
    BY <1>1, <2>1
  <2>2. CASE o # r
    <3>1. q = req[o] /\ LookedUp(req[o]) /\ req[o] \in Asks /\ Sound(req[o])
      BY <1>1, <2>2 DEF AllSound, Types
    <3> QED
      BY <3>1 DEF Knows, LookUpHolds, Sound, LookedUp
  <2> QED
    BY <2>1, <2>2
<1>3. CASE UNCHANGED <<rows, clock>>
  <2>1. FoundIn(q, i)
    BY <1>3 DEF FoundIn
  <2>2. HadIt(q)
    BY <1>2, <2>1 DEF Knows
  <2> QED
    BY <1>3, <2>2 DEF HadIt
<1>4. ASSUME NEW w, Written(req[r], w), req[r] \in Asks, req[r].id \in Ids
      PROVE  HadIt(q)'
  BY <1>2, <1>4, FoundStays DEF Knows
<1> QED
  BY <1>3, <1>4, ActsWriteRow

LEMMA ClashesKept ==
  ASSUME Types, AllSound, Past, CodesFree, LookUpHolds, ClashesOverlapped,
         NEW r \in Requests, Acts(r)
  PROVE  ClashesOverlapped'
<1>1. CASE UNCHANGED <<rows, clock>>
  BY <1>1 DEF ClashesOverlapped, Existing
<1>2. ASSUME NEW w, Written(req[r], w), req[r] \in Asks, req[r].id \in Ids, LookedUp(req[r]),
             req[r].looked <= clock, ~Taken(r)
      PROVE  ClashesOverlapped'
  <2> DEFINE p == req[r]
  <2> SUFFICES ASSUME NEW kind \in Kinds, NEW i \in Ids, NEW j \in Ids, i # j,
                      rows'[kind][i] # None, rows'[kind][j] # None
               PROVE  /\ rows'[kind][i].code # rows'[kind][j].code
                      /\ rows'[kind][i].code[1] = rows'[kind][j].code[1] /\ rows'[kind][i].at < rows'[kind][j].at
                           => \/ rows'[kind][j].looked < rows'[kind][i].at
                              \/ rows'[kind][j].looked < rows'[kind][j].before
    BY DEF ClashesOverlapped, Existing, SameIgnoringCase
  <2>1. /\ rows'[p.kind][p.id] = w
        /\ \A k \in Kinds, n \in Ids : k # p.kind \/ n # p.id => rows'[k][n] = rows[k][n]
    BY <1>2, AfterWriting
  <2>2. \A n \in Ids : n # p.id /\ rows[p.kind][n] # None => rows[p.kind][n].code # p.code
    BY <1>2 DEF Taken, Existing
  <2>3. w.code = p.code
    BY <1>2 DEF Written
  <2>4. rows[kind][i] # None /\ rows[kind][j] # None =>
          /\ rows[kind][i].code # rows[kind][j].code
          /\ rows[kind][i].code[1] = rows[kind][j].code[1] /\ rows[kind][i].at < rows[kind][j].at
               => \/ rows[kind][j].looked < rows[kind][i].at
                  \/ rows[kind][j].looked < rows[kind][j].before
    BY DEF ClashesOverlapped, Existing, SameIgnoringCase
  <2>5. rows'[kind][i].code # rows'[kind][j].code
    BY <2>1, <2>2, <2>3, <2>4
  <2>6. /\ clock \in Nat /\ p.looked \in Nat
        /\ rows[kind][i] # None => rows[kind][i].at \in Nat /\ rows[kind][i].at <= clock
        /\ rows[kind][j] # None => rows[kind][j].at \in Nat /\ rows[kind][j].at <= clock
    BY <1>2 DEF Types, Rows, Past, Asks
  <2> DEFINE Old(n) == /\ rows[kind][n] # None /\ rows'[kind][n].at = rows[kind][n].at
                       /\ rows'[kind][n].code[1] = rows[kind][n].code[1]
                       /\ rows'[kind][n].looked = rows[kind][n].looked
                       /\ rows'[kind][n].before = rows[kind][n].before
             New(n) == /\ kind = p.kind /\ n = p.id /\ rows'[kind][n] = w
                       /\ w.at = clock + 1 /\ w.looked = p.looked /\ w.code = p.code
                       /\ rows[kind][n] # None =>
                            w.before = rows[kind][n].at /\ ~SameIgnoringCase(rows[kind][n].code, p.code)
  <2>7. Old(i) \/ New(i)
    BY <1>2, RowsAfter
  <2>8. Old(j) \/ New(j)
    BY <1>2, RowsAfter
  <2>9. CASE Old(i) /\ Old(j)
    BY <2>4, <2>5, <2>9
  <2>10. CASE Old(j) /\ New(i)
    BY <2>5, <2>6, <2>10
  <2>11. CASE Old(i) /\ New(j)
    <3> SUFFICES ASSUME rows'[kind][i].code[1] = rows'[kind][j].code[1], ~(p.looked < rows'[kind][i].at)
                 PROVE  p.looked < w.before
      BY <2>5, <2>11
    <3>1. FoundIn(p, i)
      <4>1. i # p.id /\ kind = p.kind /\ rows[p.kind][i] # None
        BY <2>11
      <4>2. rows[p.kind][i].code[1] = p.code[1]
        BY <2>11
      <4>3. rows[p.kind][i].at <= p.looked
        BY <2>6, <2>11
      <4> QED
        BY <4>1, <4>2, <4>3 DEF FoundIn, SameIgnoringCase
    <3>2. HadIt(p)
      BY <1>2, <3>1 DEF LookUpHolds
    <3> QED
      BY <2>11, <3>2 DEF HadIt
  <2> QED
    BY <2>7, <2>8, <2>9, <2>10, <2>11
<1>3. ASSUME NEW w, Committed(r, w) PROVE ~Taken(r)
  BY <1>3, WritersAre DEF Committed, Writes, CodesFree
<1>4. req[r].kind \in {"dealer", "sku"}
  BY DEF Types, Asks, Kinds
<1> QED
  BY <1>1, <1>2, <1>3, <1>4, ActsWriteRow

-----------------------------------------------------------------------------
LEMMA InitIInv == Init => IInv
<1> SUFFICES ASSUME Init PROVE IInv
  OBVIOUS
<1>1. req = [r \in Requests |-> Idle] /\ \A r \in Requests : req[r] = Idle /\ req[r].at = "idle"
  BY IdleIs DEF Init
<1>2. Types
  BY <1>1, IdleIs, MasterAssumption DEF Init, Types, Kinds
<1>3. AllSound /\ LookUpHolds /\ AuditedFirst
  BY <1>1 DEF AllSound, Sound, LookUpHolds, LookedUp, AuditedFirst
<1>4. Pending = {} /\ Connected = {} /\ DealerWriters = {}
  BY <1>1 DEF Pending, Unwritten, Connected, InTransaction, DealerWriters
<1>5. WritesBounded /\ PoolOK /\ Exclusive /\ CodesFree
  BY <1>4, FS_EmptySet, MasterAssumption DEF Init, WritesBounded, PoolOK, Exclusive, CodesFree
<1>6. \A kind \in Kinds, i \in Ids : rows[kind][i] = None
  BY DEF Init
<1>7. UserMirrorsDealer /\ DealersAreAudited /\ Past /\ ClashesOverlapped
  BY <1>6 DEF Init, UserMirrorsDealer, DealersAreAudited, Past, ClashesOverlapped, Existing, Kinds
<1> QED
  BY <1>2, <1>3, <1>5, <1>7 DEF IInv, AllSound

(* IInv is inductive. *)
LEMMA Inductive == IInv /\ [Next]_vars => IInv'
<1> SUFFICES ASSUME IInv, [Next]_vars PROVE IInv'
  OBVIOUS
<1>1. /\ Types /\ AllSound /\ WritesBounded /\ PoolOK /\ Exclusive
      /\ UserMirrorsDealer /\ AuditedFirst /\ DealersAreAudited
      /\ CodesFree /\ Past /\ LookUpHolds /\ ClashesOverlapped
  BY DEF IInv, AllSound
<1>2. ASSUME NEW r \in Requests, Begin(r) \/ Statement(r) \/ Fail(r) \/ TimeOut(r) PROVE IInv'
  <2>1. Acts(r)
    BY <1>1, <1>2, StepsAct DEF AllSound
  <2>2. Types' /\ AllSound'
    BY <1>1, <2>1, TypesKept, SoundKept
  <2>3. WritesBounded' /\ PoolOK'
    BY <1>1, <2>1, BoundKept, PoolKept
  <2>4. Exclusive' /\ CodesFree'
    BY <1>1, <2>1, ExclusiveKept, CodesFreeKept
  <2>5. UserMirrorsDealer' /\ AuditedFirst' /\ DealersAreAudited'
    BY <1>1, <2>1, MirrorKept, AuditedFirstKept, AuditedKept
  <2>6. Past' /\ LookUpHolds' /\ ClashesOverlapped'
    BY <1>1, <2>1, PastKept, LookUpKept, ClashesKept
  <2> QED
    BY <2>2, <2>3, <2>4, <2>5, <2>6 DEF IInv, AllSound
<1>3. CASE UNCHANGED vars
  BY <1>1, <1>3 DEF vars, IInv, AllSound, Types, Sound, WritesBounded, Pending, PoolOK, Connected, InTransaction,
     Exclusive, Apart, DealerWriters, UserMirrorsDealer, AuditedFirst, DealersAreAudited, Existing, CodesFree,
     Taken, Past, LookUpHolds, FoundIn, HadIt, ClashesOverlapped
<1> QED
  BY <1>2, <1>3 DEF Next

THEOREM Invariance == Spec => []IInv
BY InitIInv, Inductive, PTL DEF Spec

(* What stands in the tables after createDealer and updateDealer: types, a  *)
(* user and an audit row for each dealer, whatever the statements of        *)
(* requests and their failures.                                             *)
THEOREM RecordsCorrect == Spec => []RecordsInv
<1>1. IInv => RecordsInv
  <2> SUFFICES ASSUME IInv PROVE RecordsInv
    OBVIOUS
  <2>1. clock \in 0..MaxRequests
    <3>1. Pending \in SUBSET Requests /\ IsFiniteSet(Requests) /\ MaxRequests \in Nat
      BY MasterAssumption DEF Pending
    <3>2. Cardinality(Pending) \in Nat
      BY <3>1, Fewer
    <3> QED
      BY <3>1, <3>2 DEF IInv, Types, WritesBounded
  <2>2. TypeOK
    BY <2>1 DEF IInv, Types, Asks, AuditRows, PoolOK, Exclusive, Apart, TypeOK
  <2> QED
    BY <2>2 DEF IInv, RecordsInv
<1> QED
  BY <1>1, Invariance, PTL

(* findDealerByCode, findSkuByCode and the unique indexes: codes that       *)
(* differ only in case were written by requests that overlapped.            *)
THEOREM CodesClashByOverlap == Spec => []ClashesOverlapped
<1>1. IInv => ClashesOverlapped
  BY DEF IInv
<1> QED
  BY <1>1, Invariance, PTL
=============================================================================
