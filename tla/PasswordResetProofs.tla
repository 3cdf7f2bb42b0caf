------------------------ MODULE PasswordResetProofs ------------------------
(***************************************************************************)
(* Proofs about PasswordReset for every number of requests for a code,      *)
(* resets and logins.                                                       *)
(***************************************************************************)
EXTENDS PasswordReset, TLAPS

(* The variables are functions, and each kind of call has steps of its own. *)
ShapeOK ==
  /\ code \in [Resets -> Nat] /\ found \in [Resets -> Nat]
  /\ typed \in [Logins -> Resets \cup {None}]
  /\ issued \in [Calls -> [tokens : Nat, spent : SUBSET Nat]]
  /\ \A c \in Asks \cup Logins : pc[c] \in {"new", "create", "done", "failed"}
  /\ \A r \in Resets : pc[r] # "create"

(* Resets whose token was found active. *)
Past == {"update", "consume", "revoke", "done"}

(* A token outlives nothing: the request for a newer one has consumed it,   *)
(* and so has the reset that is done with it.                               *)
ConsumedOK ==
  /\ \A a \in Asks : pc[a] # "new" =>
       \A i \in DOMAIN tokens : i <= issued[a].tokens => tokens[i].used
  /\ \A j \in DOMAIN tokens : pc[tokens[j].by] # "new"
  /\ \A i \in spent : tokens[i].used
  /\ \A r \in Resets : pc[r] \in {"revoke", "done"} => tokens[found[r]].used

(* What held of a reset's token when it was read goes on to hold. *)
ReadOK ==
  \A r \in Resets : pc[r] \in Past =>
    /\ found[r] \notin issued[r].spent
    /\ \A j \in DOMAIN tokens :
         found[r] <= issued[tokens[j].by].tokens => j > issued[r].tokens

IInv == TypeOK /\ ShapeOK /\ ConsumedOK /\ ReadOK /\ OldSessionsOverlap

-----------------------------------------------------------------------------
LEMMA InitIInv == Init => IInv
<1> SUFFICES ASSUME Init PROVE IInv
  OBVIOUS
<1> USE DEF Init
<1>1. TypeOK
  <2>1. tokens \in Seq(Tokens) /\ Len(tokens) = 0
    OBVIOUS
  <2>2. \A r \in Resets : code[r] = 0 /\ found[r] = 0 /\ pc[r] = "new"
    BY DEF Calls
  <2>3. \A c \in Calls : issued[c].tokens = 0 /\ issued[c].spent = {}
    OBVIOUS
  <2>4. pc \in [Calls -> Steps] /\ typed \in [Logins -> Resets \cup {None}]
    BY DEF Steps
  <2> QED
    BY <2>1, <2>2, <2>3, <2>4 DEF TypeOK
<1>2. ShapeOK
  BY DEF ShapeOK, Calls
<1>3. ConsumedOK /\ ReadOK /\ OldSessionsOverlap
  BY DEF ConsumedOK, ReadOK, OldSessionsOverlap, Calls, Past
<1> QED
  BY <1>1, <1>2, <1>3 DEF IInv

(* Every token has an author, and the sequence's domain is an interval. *)
LEMMA TokenAuthors ==
  ASSUME TypeOK
  PROVE  /\ Len(tokens) \in Nat /\ DOMAIN tokens = 1..Len(tokens)
         /\ \A j \in DOMAIN tokens : tokens[j] \in Tokens /\ tokens[j].by \in Asks
<1>1. Len(tokens) \in Nat /\ DOMAIN tokens = 1..Len(tokens)
  BY DEF TypeOK
<1>2. \A j \in DOMAIN tokens : tokens[j] \in Tokens
  BY <1>1 DEF TypeOK
<1> QED
  BY <1>1, <1>2 DEF Tokens

(* A token that is consumed or expires stays what it was otherwise. *)
LEMMA TokenChanges ==
  ASSUME NEW t \in Tokens
  PROVE  /\ Invalidated(t) \in Tokens /\ Invalidated(t).by = t.by /\ Invalidated(t).used
         /\ [t EXCEPT !.expired = TRUE] \in Tokens
         /\ [t EXCEPT !.expired = TRUE].by = t.by
         /\ [t EXCEPT !.expired = TRUE].used = t.used
  BY DEF Tokens, Invalidated

LEMMA AskInvalidatesStep ==
  ASSUME IInv, NEW a \in Asks, AskInvalidates(a) PROVE IInv'
<1> USE DEF IInv, AskInvalidates, Begins, Goto, history
<1>0. a \in Calls /\ a \notin Resets /\ a \notin Logins /\ Len(tokens) \in Nat
  BY ResetAssumption DEF Calls, TypeOK
<1>1. /\ DOMAIN tokens' = DOMAIN tokens /\ Len(tokens') = Len(tokens)
      /\ tokens' \in Seq(Tokens)
      /\ \A i \in DOMAIN tokens : tokens'[i].by = tokens[i].by /\ tokens'[i].used
  <2>1. tokens \in Seq(Tokens) /\ DOMAIN tokens = 1..Len(tokens)
    BY DEF TypeOK
  <2>2. \A i \in 1..Len(tokens) : tokens[i] \in Tokens
    BY <2>1
  <2>3. tokens' = [i \in 1..Len(tokens) |-> Invalidated(tokens[i])]
    BY <2>1
  <2>4. \A i \in 1..Len(tokens) :
          tokens'[i] \in Tokens /\ tokens'[i].by = tokens[i].by /\ tokens'[i].used
    <3> TAKE i \in 1..Len(tokens)
    <3>1. tokens[i] \in Tokens /\ tokens'[i] = Invalidated(tokens[i])
      BY <2>2, <2>3
    <3> HIDE DEF AskInvalidates
    <3> QED
      BY ONLY <3>1, TokenChanges
  <2> QED
    BY <1>0, <2>1, <2>3, <2>4
<1>2. \A c \in Calls : c # a => pc'[c] = pc[c] /\ issued'[c] = issued[c]
  BY DEF TypeOK, ShapeOK
<1>3. pc'[a] = "create" /\ issued'[a] = [tokens |-> Len(tokens), spent |-> spent]
  BY <1>0 DEF TypeOK, ShapeOK
<1>4. TypeOK'
  <2>1. pc' \in [Calls -> Steps]
    BY <1>0 DEF TypeOK, Steps
  <2>2. \A r \in Resets : pc'[r] = pc[r]
    BY <1>0, <1>2 DEF Calls
  <2>3. \A c \in Calls : issued'[c].tokens \in 0..Len(tokens) /\ issued'[c].spent \subseteq spent
    BY <1>0, <1>2, <1>3 DEF TypeOK
  <2> QED
    BY <1>1, <2>1, <2>2, <2>3 DEF TypeOK
<1>5. ShapeOK'
  <2>1. spent \subseteq Nat
    BY <1>0 DEF TypeOK
  <2>2. issued' \in [Calls -> [tokens : Nat, spent : SUBSET Nat]]
    BY <1>0, <2>1 DEF ShapeOK
  <2> QED
    BY <1>0, <1>2, <1>3, <2>2 DEF ShapeOK, Calls
<1>6. ConsumedOK'
  <2>1. \A j \in DOMAIN tokens : pc'[tokens[j].by] # "new"
    BY <1>0, <1>2, <1>3, TokenAuthors DEF ConsumedOK, Calls
  <2>2. spent \subseteq DOMAIN tokens
    BY DEF TypeOK
  <2>3. \A r \in Resets : pc'[r] \in {"revoke", "done"} => found'[r] \in DOMAIN tokens
    <3> TAKE r \in Resets
    <3>1. pc'[r] = pc[r] /\ found'[r] = found[r]
      BY <1>0, <1>2 DEF Calls
    <3> QED
      BY <1>0, <3>1, TokenAuthors DEF TypeOK
  <2> QED
    BY <1>1, <2>1, <2>2, <2>3 DEF ConsumedOK
<1>7. ReadOK'
  <2>1. \A r \in Resets : pc'[r] = pc[r] /\ issued'[r] = issued[r]
    BY <1>0, <1>2 DEF Calls
  <2>2. \A j \in DOMAIN tokens : issued'[tokens[j].by] = issued[tokens[j].by]
    BY <1>0, <1>2 DEF ConsumedOK, TypeOK, Tokens, Calls
  <2> QED
    BY <1>1, <2>1, <2>2 DEF ReadOK
<1>8. OldSessionsOverlap'
  BY <1>0, <1>2 DEF OldSessionsOverlap, Calls
<1> QED
  BY <1>4, <1>5, <1>6, <1>7, <1>8

LEMMA AskCreatesStep ==
  ASSUME IInv, NEW a \in Asks, AskCreates(a) PROVE IInv'
<1> USE DEF IInv, AskCreates, Goto, history
<1>0. a \in Calls /\ a \notin Resets /\ a \notin Logins /\ Len(tokens) \in Nat
  BY ResetAssumption DEF Calls, TypeOK
<1>1. /\ tokens' \in Seq(Tokens) /\ Len(tokens') = Len(tokens) + 1
      /\ DOMAIN tokens = 1..Len(tokens) /\ DOMAIN tokens' = 1..(Len(tokens) + 1)
      /\ \A i \in 1..Len(tokens) : tokens'[i] = tokens[i]
      /\ tokens'[Len(tokens) + 1].by = a
  BY <1>0 DEF TypeOK, Tokens
<1>2. pc'[a] = "done" /\ pc[a] = "create" /\ \A c \in Calls : c # a => pc'[c] = pc[c]
  BY <1>0 DEF TypeOK
<1>3. \A r \in Resets : pc'[r] = pc[r]
  BY <1>0, <1>2 DEF Calls
<1>4. \A c \in Calls : issued[c].tokens \in 0..Len(tokens)
  BY DEF TypeOK
<1>5. TypeOK'
  <2>1. pc' \in [Calls -> Steps]
    BY <1>0 DEF TypeOK, Steps
  <2>2. \A n \in 0..Len(tokens) : n \in 0..Len(tokens')
    BY <1>0, <1>1
  <2>3. spent \subseteq DOMAIN tokens'
    BY <1>0, <1>1 DEF TypeOK
  <2> QED
    BY <1>1, <1>3, <2>1, <2>2, <2>3 DEF TypeOK
<1>6. ShapeOK'
  BY <1>0, <1>2, <1>3 DEF ShapeOK, Calls
<1>7. ConsumedOK'
  <2>1. \A b \in Asks : pc'[b] # "new" =>
          \A i \in DOMAIN tokens' : i <= issued[b].tokens => tokens'[i].used
    <3> SUFFICES ASSUME NEW b \in Asks, pc'[b] # "new", NEW i \in DOMAIN tokens',
                        i <= issued[b].tokens
                 PROVE  tokens'[i].used
      OBVIOUS
    <3>1. pc[b] # "new"
      BY <1>2 DEF Calls
    <3>2. i \in 1..Len(tokens)
      BY <1>0, <1>1, <1>4 DEF Calls
    <3> QED
      BY <1>1, <3>1, <3>2 DEF ConsumedOK
  <2>2. \A j \in DOMAIN tokens' : pc'[tokens'[j].by] # "new"
    <3> TAKE j \in DOMAIN tokens'
    <3>1. CASE j = Len(tokens) + 1
      BY <1>1, <1>2, <3>1
    <3>2. CASE j \in 1..Len(tokens)
      BY <1>1, <1>2, <3>2, TokenAuthors DEF ConsumedOK, Calls
    <3> QED
      BY <1>0, <1>1, <3>1, <3>2
  <2>3. \A i \in spent : i \in 1..Len(tokens) /\ tokens[i].used
    BY <1>1 DEF TypeOK, ConsumedOK
  <2>4. \A r \in Resets : pc[r] \in {"revoke", "done"} =>
          found[r] \in 1..Len(tokens) /\ tokens[found[r]].used
    BY <1>0 DEF TypeOK, ConsumedOK
  <2> QED
    BY <1>1, <1>3, <2>1, <2>2, <2>3, <2>4 DEF ConsumedOK
<1>8. ReadOK'
  <2>1. \A r \in Resets : issued[r].tokens < Len(tokens) + 1
    BY <1>0, <1>4 DEF Calls
  <2> QED
    BY <1>0, <1>1, <1>3, <2>1 DEF ReadOK
<1>9. OldSessionsOverlap'
  BY <1>3 DEF OldSessionsOverlap
<1> QED
  BY <1>5, <1>6, <1>7, <1>8, <1>9

LEMMA ExpiresStep ==
  ASSUME IInv, NEW i \in DOMAIN tokens, Expires(i) PROVE IInv'
<1> USE DEF IInv, Expires, calls, history
<1>1. /\ DOMAIN tokens' = DOMAIN tokens /\ Len(tokens') = Len(tokens)
      /\ tokens' \in Seq(Tokens)
      /\ \A j \in DOMAIN tokens : tokens'[j].by = tokens[j].by /\ tokens'[j].used = tokens[j].used
  <2>1. Len(tokens) \in Nat /\ DOMAIN tokens = 1..Len(tokens) /\ tokens[i] \in Tokens
    BY TokenAuthors
  <2>2. tokens' = [tokens EXCEPT ![i] = [tokens[i] EXCEPT !.expired = TRUE]]
    OBVIOUS
  <2>3. [tokens[i] EXCEPT !.expired = TRUE] \in Tokens
    BY <2>1, TokenChanges
  <2>4. tokens' \in Seq(Tokens) /\ Len(tokens') = Len(tokens) /\ DOMAIN tokens' = DOMAIN tokens
    BY <2>1, <2>2, <2>3 DEF TypeOK
  <2>5. tokens'[i] = [tokens[i] EXCEPT !.expired = TRUE]
        /\ \A j \in DOMAIN tokens : j # i => tokens'[j] = tokens[j]
    BY <2>1, <2>2
  <2> QED
    BY <2>1, <2>4, <2>5, TokenChanges
<1>2. TypeOK' /\ ShapeOK'
  BY <1>1 DEF TypeOK, ShapeOK
<1>3. ConsumedOK'
  <2>1. \A r \in Resets : pc[r] \in {"revoke", "done"} => found[r] \in DOMAIN tokens
    BY TokenAuthors DEF TypeOK
  <2>2. spent \subseteq DOMAIN tokens
    BY DEF TypeOK
  <2> QED
    BY <1>1, <2>1, <2>2 DEF ConsumedOK
<1>4. ReadOK' /\ OldSessionsOverlap'
  BY <1>1 DEF ReadOK, OldSessionsOverlap
<1> QED
  BY <1>2, <1>3, <1>4

LEMMA ResetReadsStep ==
  ASSUME IInv, NEW r \in Resets, ResetReads(r) PROVE IInv'
<1> USE DEF IInv, ResetReads, Begins, Goto, history
<1>0. r \in Calls /\ r \notin Asks /\ r \notin Logins /\ Len(tokens) \in Nat
      /\ DOMAIN tokens = 1..Len(tokens)
  BY ResetAssumption, TokenAuthors DEF Calls
<1>12. {0} \cup DOMAIN tokens = 0..Len(tokens)
  <2> HIDE DEF IInv, ResetReads
  <2> QED
    BY <1>0
<1>1. PICK n \in {0} \cup DOMAIN tokens : code' = [code EXCEPT ![r] = n]
  OBVIOUS
<1>2. PICK i \in {0} \cup DOMAIN tokens :
        /\ LatestActive(i) /\ found' = [found EXCEPT ![r] = i]
        /\ pc' = [pc EXCEPT ![r] = IF Matches(r, i) THEN StepAfter("read") ELSE "refused"]
  OBVIOUS
<1>3. /\ found'[r] = i /\ pc'[r] \in {"update", "refused"} /\ (pc'[r] = "update" => i # 0)
      /\ issued'[r] = [tokens |-> Len(tokens), spent |-> spent]
  BY <1>0, <1>2 DEF TypeOK, ShapeOK, StepAfter, Matches
<1>4. \A c \in Calls : c # r => pc'[c] = pc[c] /\ issued'[c] = issued[c]
  BY DEF TypeOK, ShapeOK
<1>5. \A q \in Resets : q # r => found'[q] = found[q] /\ code'[q] = code[q]
  BY <1>1, <1>2 DEF ShapeOK
<1>6. pc[r] = "new" /\ code'[r] = n
  BY <1>1 DEF ShapeOK
<1>7. TypeOK'
  <2>1. pc' \in [Calls -> Steps]
    BY <1>0, <1>2, <1>3 DEF TypeOK, Steps
  <2>2. \A q \in Resets :
          /\ code'[q] \in 0..Len(tokens) /\ found'[q] \in 0..Len(tokens)
          /\ pc'[q] \in {"update", "consume", "revoke", "done"} => found'[q] # 0
    BY <1>3, <1>4, <1>5, <1>6, <1>12 DEF TypeOK, Calls
  <2>3. \A c \in Calls : issued'[c].tokens \in 0..Len(tokens) /\ issued'[c].spent \subseteq spent
    BY <1>0, <1>3, <1>4 DEF TypeOK
  <2> QED
    BY <2>1, <2>2, <2>3 DEF TypeOK
<1>8. ShapeOK'
  <2>1. spent \subseteq Nat
    BY <1>0 DEF TypeOK
  <2>2. issued' \in [Calls -> [tokens : Nat, spent : SUBSET Nat]]
    BY <1>0, <2>1 DEF ShapeOK
  <2>3. code' \in [Resets -> Nat] /\ found' \in [Resets -> Nat]
    BY <1>0, <1>1, <1>2, <1>12 DEF ShapeOK
  <2> QED
    BY <1>0, <1>3, <1>4, <2>2, <2>3 DEF ShapeOK, Calls
<1>9. ConsumedOK'
  <2>1. \A b \in Asks : pc'[b] = pc[b] /\ issued'[b] = issued[b]
    BY <1>0, <1>4 DEF Calls
  <2>2. \A q \in Resets : pc'[q] \in {"revoke", "done"} => pc[q] = pc'[q] /\ found'[q] = found[q]
    BY <1>3, <1>4, <1>5 DEF Calls
  <2> QED
    BY <2>1, <2>2, TokenAuthors DEF ConsumedOK
<1>10. ReadOK'
  <2>1. \A j \in DOMAIN tokens : issued'[tokens[j].by] = issued[tokens[j].by]
    BY <1>0, <1>4, TokenAuthors DEF Calls
  <2>2. ASSUME pc'[r] = "update"
        PROVE  i \in DOMAIN tokens /\ ~tokens[i].used
    BY <1>0, <1>2, <1>3, <2>2 DEF LatestActive, Latest
  <2>3. ASSUME pc'[r] = "update"
        PROVE  i \notin spent /\ \A j \in DOMAIN tokens : ~ i <= issued[tokens[j].by].tokens
    BY <2>2, <2>3, TokenAuthors DEF ConsumedOK
  <2>4. \A q \in Resets : q # r => /\ pc'[q] = pc[q] /\ found'[q] = found[q]
                                   /\ issued'[q] = issued[q]
    BY <1>4, <1>5 DEF Calls
  <2>5. ASSUME NEW q \in Resets, pc'[q] \in Past
        PROVE  /\ found'[q] \notin issued'[q].spent
               /\ \A j \in DOMAIN tokens :
                    found'[q] <= issued'[tokens[j].by].tokens => j > issued'[q].tokens
    <3>1. CASE q = r
      BY <1>3, <2>1, <2>3, <2>5, <3>1 DEF Past
    <3>2. CASE q # r
      BY <2>1, <2>4, <2>5, <3>2 DEF ReadOK
    <3> QED
      BY <3>1, <3>2
  <2> QED
    BY <2>5 DEF ReadOK
<1>11. OldSessionsOverlap'
  <2>1. \A q \in Resets : pc[q] \in {"consume", "revoke"} => pc'[q] = pc[q]
    BY <1>4, <1>6 DEF Calls
  <2> QED
    BY <2>1 DEF OldSessionsOverlap
<1> QED
  BY <1>7, <1>8, <1>9, <1>10, <1>11

LEMMA ResetUpdatesStep ==
  ASSUME IInv, NEW r \in Resets, ResetUpdates(r) PROVE IInv'
<1> USE DEF IInv, ResetUpdates, Goto, history
<1>0. r \in Calls /\ r \notin Asks /\ r \notin Logins
  BY ResetAssumption DEF Calls
<1>1. pc[r] = "update" /\ pc'[r] = "consume" /\ \A c \in Calls : c # r => pc'[c] = pc[c]
  BY <1>0 DEF TypeOK, StepAfter
<1>2. TypeOK' /\ ShapeOK'
  <2>1. pc' \in [Calls -> Steps]
    BY <1>0, <1>1 DEF TypeOK, Steps, StepAfter
  <2>2. \A q \in Resets : pc'[q] \in Past => found[q] # 0
    BY <1>1 DEF TypeOK, Calls, Past
  <2>3. TypeOK'
    BY <2>1, <2>2 DEF TypeOK, Past
  <2> QED
    BY <1>0, <1>1, <2>3 DEF ShapeOK, Calls
<1>3. ConsumedOK'
  BY <1>0, <1>1, TokenAuthors DEF ConsumedOK, Calls
<1>4. ReadOK'
  BY <1>1 DEF ReadOK, Past, Calls
<1>5. OldSessionsOverlap'
  BY <1>1 DEF OldSessionsOverlap
<1> QED
  BY <1>2, <1>3, <1>4, <1>5

LEMMA ResetConsumesStep ==
  ASSUME IInv, NEW r \in Resets, ResetConsumes(r) PROVE IInv'
<1> USE DEF IInv, ResetConsumes, Goto, history
<1>0. r \in Calls /\ r \notin Asks /\ r \notin Logins
  BY ResetAssumption DEF Calls
<1>1. pc[r] = "consume" /\ pc'[r] = "revoke" /\ \A c \in Calls : c # r => pc'[c] = pc[c]
  BY <1>0 DEF TypeOK, StepAfter
<1>2. found[r] \in DOMAIN tokens /\ spent' = spent
  BY <1>1, TokenAuthors DEF TypeOK, Completes, StepAfter
<1>3. /\ DOMAIN tokens' = DOMAIN tokens /\ Len(tokens') = Len(tokens)
      /\ tokens' \in Seq(Tokens) /\ tokens'[found[r]].used
      /\ \A j \in DOMAIN tokens :
           tokens'[j].by = tokens[j].by /\ (tokens[j].used => tokens'[j].used)
  <2>1. Len(tokens) \in Nat /\ DOMAIN tokens = 1..Len(tokens) /\ tokens[found[r]] \in Tokens
    BY <1>2, TokenAuthors
  <2>2. tokens' = [tokens EXCEPT ![found[r]] = Invalidated(tokens[found[r]])]
    BY DEF Invalidated
  <2>3. Invalidated(tokens[found[r]]) \in Tokens
    BY <2>1, TokenChanges
  <2>4. tokens' \in Seq(Tokens) /\ Len(tokens') = Len(tokens) /\ DOMAIN tokens' = DOMAIN tokens
    BY <1>2, <2>1, <2>2, <2>3 DEF TypeOK
  <2>5. tokens'[found[r]] = Invalidated(tokens[found[r]])
        /\ \A j \in DOMAIN tokens : j # found[r] => tokens'[j] = tokens[j]
    BY <1>2, <2>2
  <2> QED
    BY <2>1, <2>4, <2>5, TokenChanges
<1>4. TypeOK' /\ ShapeOK'
  <2>1. pc' \in [Calls -> Steps]
    BY <1>0, <1>1 DEF TypeOK, Steps, StepAfter
  <2>2. \A q \in Resets : pc'[q] \in Past => found[q] # 0
    BY <1>1 DEF TypeOK, Calls, Past
  <2>3. TypeOK'
    BY <1>2, <1>3, <2>1, <2>2 DEF TypeOK, Past
  <2> QED
    BY <1>0, <1>1, <2>3 DEF ShapeOK, Calls
<1>5. ConsumedOK'
  <2>1. \A q \in Resets : pc'[q] \in {"revoke", "done"} =>
          found[q] \in DOMAIN tokens /\ tokens'[found[q]].used
    <3> SUFFICES ASSUME NEW q \in Resets, q # r, pc'[q] \in {"revoke", "done"}
                 PROVE  found[q] \in DOMAIN tokens /\ tokens'[found[q]].used
      BY <1>2, <1>3
    <3>1. pc[q] \in {"revoke", "done"}
      BY <1>1 DEF Calls
    <3>2. found[q] \in DOMAIN tokens /\ tokens[found[q]].used
      BY <3>1, TokenAuthors DEF TypeOK, ConsumedOK
    <3> QED
      BY <1>3, <3>2
  <2>2. spent \subseteq DOMAIN tokens
    BY DEF TypeOK
  <2>3. \A j \in DOMAIN tokens : pc'[tokens[j].by] # "new"
    BY <1>0, <1>1, TokenAuthors DEF ConsumedOK, Calls
  <2>4. \A b \in Asks : pc'[b] = pc[b]
    BY <1>0, <1>1 DEF Calls
  <2> QED
    BY <1>2, <1>3, <2>1, <2>2, <2>3, <2>4 DEF ConsumedOK
<1>6. ReadOK'
  BY <1>1, <1>3 DEF ReadOK, Past, Calls
<1>7. OldSessionsOverlap'
  BY <1>1 DEF OldSessionsOverlap, Calls
<1> QED
  BY <1>4, <1>5, <1>6, <1>7

LEMMA ResetRevokesStep ==
  ASSUME IInv, NEW r \in Resets, ResetRevokes(r) PROVE IInv'
<1> USE DEF IInv, ResetRevokes, Goto, history
<1>0. r \in Calls /\ r \notin Asks /\ r \notin Logins
  BY ResetAssumption DEF Calls
<1>1. pc[r] = "revoke" /\ pc'[r] = "done" /\ \A c \in Calls : c # r => pc'[c] = pc[c]
  BY <1>0 DEF TypeOK, StepAfter
<1>2. found[r] \in DOMAIN tokens /\ tokens[found[r]].used /\ spent' = spent \cup {found[r]}
  BY <1>1, TokenAuthors DEF TypeOK, Completes, StepAfter, ConsumedOK
<1>3. TypeOK' /\ ShapeOK'
  <2>1. pc' \in [Calls -> Steps]
    BY <1>0, <1>1 DEF TypeOK, Steps, StepAfter
  <2>2. \A q \in Resets : pc'[q] \in Past => found[q] # 0
    BY <1>1 DEF TypeOK, Calls, Past
  <2>3. TypeOK'
    BY <1>2, <2>1, <2>2 DEF TypeOK, Past
  <2> QED
    BY <1>0, <1>1, <2>3 DEF ShapeOK, Calls
<1>4. ConsumedOK'
  BY <1>0, <1>1, <1>2, TokenAuthors DEF ConsumedOK, Calls
<1>5. ReadOK'
  BY <1>1 DEF ReadOK, Past, Calls
<1>6. OldSessionsOverlap'
  BY DEF OldSessionsOverlap
<1> QED
  BY <1>3, <1>4, <1>5, <1>6

LEMMA LoginStep ==
  ASSUME IInv, NEW l \in Logins, LoginFinds(l) \/ LoginCreates(l) PROVE IInv'
<1> USE DEF IInv, Goto, history
<1> DEFINE Late == typed[l] # password
           New == [login |-> l, password |-> typed[l], late |-> Late]
<1>0. l \in Calls /\ l \notin Asks /\ l \notin Resets /\ Len(tokens) \in Nat
  BY ResetAssumption, TokenAuthors DEF Calls
<1>1. /\ pc' \in [Calls -> Steps] /\ pc'[l] \in {"create", "done"}
      /\ \A c \in Calls : c # l => pc'[c] = pc[c]
  BY <1>0 DEF TypeOK, Steps, LoginFinds, LoginCreates
<1>2. /\ \A c \in Calls : c # l => issued'[c] = issued[c]
      /\ issued'[l] \in {issued[l], [tokens |-> Len(tokens), spent |-> spent]}
      /\ issued' \in [Calls -> [tokens : Nat, spent : SUBSET Nat]]
  <2>1. spent \subseteq Nat
    BY TokenAuthors DEF TypeOK
  <2> QED
    <3>1. CASE LoginFinds(l)
      BY <1>0, <2>1, <3>1 DEF ShapeOK, LoginFinds, Begins
    <3>2. CASE LoginCreates(l)
      BY <3>2 DEF ShapeOK, LoginCreates
    <3> QED
      BY <3>1, <3>2
<1>3. \A c \in Asks \cup Resets : pc'[c] = pc[c] /\ issued'[c] = issued[c]
  BY <1>0, <1>1, <1>2 DEF Calls
<1>4. typed' \in [Logins -> Resets \cup {None}]
  BY DEF TypeOK, LoginFinds, LoginCreates
<1>5. sessions' \in {sessions, sessions \cup {New}}
  BY DEF LoginFinds, LoginCreates
<1>11. New \in [login : Logins, password : Resets \cup {None}, late : BOOLEAN]
  <2>1. typed[l] \in Resets \cup {None} /\ Late \in BOOLEAN
    BY DEF TypeOK
  <2> HIDE DEF Late
  <2> QED
    BY <2>1
<1>6. UNCHANGED <<tokens, password, code, found, history>>
  BY DEF LoginFinds, LoginCreates
<1>7. TypeOK'
  <2>1. \A c \in Calls : issued'[c].tokens \in 0..Len(tokens) /\ issued'[c].spent \subseteq spent
    BY <1>0, <1>2 DEF TypeOK
  <2> QED
    BY <1>1, <1>3, <1>4, <1>5, <1>6, <1>11, <2>1 DEF TypeOK
<1>8. ShapeOK'
  BY <1>0, <1>1, <1>2, <1>3, <1>4, <1>6 DEF ShapeOK, Calls
<1>9. ConsumedOK' /\ ReadOK'
  BY <1>3, <1>6, TokenAuthors DEF ConsumedOK, ReadOK
<1>10. OldSessionsOverlap'
  <2>1. New.password # password => New.late
    OBVIOUS
  <2> HIDE DEF New
  <2> QED
    BY <1>3, <1>5, <1>6, <2>1 DEF OldSessionsOverlap
<1> QED
  BY <1>7, <1>8, <1>9, <1>10

LEMMA FailsStep ==
  ASSUME IInv, NEW c \in Calls, Fails(c) PROVE IInv'
<1> USE DEF IInv, Fails, Goto
<1>1. /\ pc' \in [Calls -> Steps] /\ pc'[c] = "failed" /\ pc[c] # "new"
      /\ \A d \in Calls : d # c => pc'[d] = pc[d]
  BY DEF TypeOK, Steps
<1>2. c \in Resets \/ pc[c] \notin {"consume", "revoke"}
  BY DEF ShapeOK, Calls
<1>3. TypeOK'
  BY <1>1, <1>2 DEF TypeOK, Calls
<1>4. ShapeOK'
  BY <1>1 DEF ShapeOK, Calls
<1>5. ConsumedOK'
  BY <1>1, TokenAuthors DEF ConsumedOK, Calls
<1>6. ReadOK'
  BY <1>1 DEF ReadOK, Past, Calls
<1>7. OldSessionsOverlap'
  BY <1>1 DEF OldSessionsOverlap, Calls
<1> QED
  BY <1>3, <1>4, <1>5, <1>6, <1>7

-----------------------------------------------------------------------------
(* IInv is inductive. *)
LEMMA Inductive == IInv /\ [Next]_vars => IInv'
<1> SUFFICES ASSUME IInv, [Next]_vars PROVE IInv'
  OBVIOUS
<1>1. ASSUME NEW a \in Asks, AskInvalidates(a) \/ AskCreates(a) PROVE IInv'
  BY <1>1, AskInvalidatesStep, AskCreatesStep
<1>2. ASSUME NEW r \in Resets,
             ResetReads(r) \/ ResetUpdates(r) \/ ResetConsumes(r) \/ ResetRevokes(r)
      PROVE  IInv'
  BY <1>2, ResetReadsStep, ResetUpdatesStep, ResetConsumesStep, ResetRevokesStep
<1>3. ASSUME NEW l \in Logins, LoginFinds(l) \/ LoginCreates(l) PROVE IInv'
  BY <1>3, LoginStep
<1>4. ASSUME NEW i \in DOMAIN tokens, Expires(i) PROVE IInv'
  BY <1>4, ExpiresStep
<1>5. ASSUME NEW c \in Calls, Fails(c) PROVE IInv'
  BY <1>5, FailsStep
<1>6. CASE UNCHANGED vars
  BY <1>6 DEF IInv, TypeOK, ShapeOK, ConsumedOK, ReadOK, OldSessionsOverlap, vars
<1> QED
  BY <1>1, <1>2, <1>3, <1>4, <1>5, <1>6 DEF Next

(* The inductive invariant holds of every behaviour of the reset. *)
THEOREM Invariance == Spec => []IInv
  BY InitIInv, Inductive, PTL DEF Spec

(* The tables and the calls are of the stated types. *)
THEOREM TypeCorrect == Spec => []TypeOK
<1>1. IInv => TypeOK
  BY DEF IInv
<1> QED
  BY <1>1, Invariance, PTL

(* resetPassword, auth.service.ts: a code that has opened the account opens *)
(* it for no reset that begins later.                                       *)
THEOREM CodesAreSpent == Spec => []CodesWorkOnce
<1>1. IInv => CodesWorkOnce
  BY DEF IInv, ReadOK, Past, CodesWorkOnce, Succeeded
<1> QED
  BY <1>1, Invariance, PTL

(* requestPasswordReset, auth.service.ts: a code is worth nothing to a      *)
(* reset that begins once a newer code is there.                            *)
THEOREM NewerCodesReplace == Spec => []OlderCodesDie
<1>1. IInv => OlderCodesDie
  BY DEF IInv, ReadOK, Past, OlderCodesDie, Succeeded
<1> QED
  BY <1>1, Invariance, PTL

(* resetPassword and requestPasswordReset together: a code that was used or *)
(* replaced opens the account to no reset that begins afterwards.          *)
THEOREM CodesAreDead == Spec => []CodesDie
<1>1. CodesWorkOnce /\ OlderCodesDie => CodesDie
  BY DEF CodesDie
<1> QED
  BY <1>1, CodesAreSpent, NewerCodesReplace, PTL

(* resetPassword and login: a session of a replaced password belongs to a   *)
(* login that overlapped the change, or to a reset that did not finish.     *)
THEOREM SessionsOfOldPasswords == Spec => []OldSessionsOverlap
<1>1. IInv => OldSessionsOverlap
  BY DEF IInv
<1> QED
  BY <1>1, Invariance, PTL
=============================================================================
