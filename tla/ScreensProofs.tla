----------------------------- MODULE ScreensProofs -----------------------------
(***************************************************************************)
(* Proofs about Screens and the three modules it composes, for every set   *)
(* of records, fields, SKUs and tabs and every bound: first sums over      *)
(* finite sets, which say what a cart and its submissions hold together;   *)
(* then an inductive invariant for each page; then, that a step on one     *)
(* page leaves those of the others alone.  The last section is about       *)
(* OrderAmounts, the amounts those pages show and the server records: they *)
(* are sums too.                                                           *)
(***************************************************************************)
EXTENDS Screens, OrderAmounts, FiniteSets, Functions, FiniteSetTheorems, TLAPS

-----------------------------------------------------------------------------
(* Sums over finite sets. *)

(* The element the sum takes first, and the recursion it is defined by.     *)
First(s) == CHOOSE x \in s : TRUE

Recursion(g, f, S) ==
  g = [s \in SUBSET S |-> IF s = {} THEN 0 ELSE f[First(s)] + g[s \ {First(s)}]]

LEMMA SumIsRec ==
  ASSUME NEW f, NEW S
  PROVE  SumFunctionOnSet(f, S) = (CHOOSE g : Recursion(g, f, S))[S]
  BY DEF SumFunctionOnSet, FoldFunctionOnSet, MapThenFoldSet, Recursion, First

(* Induction over the subsets of a finite set: strict subset is well-founded. *)
LEMMA Smallest ==
  ASSUME NEW S, IsFiniteSet(S), NEW C \in SUBSET SUBSET S, C # {}
  PROVE  \E T \in C : \A U \in C : U \subseteq T => U = T
<1>1. IsWellFoundedOn(StrictSubsetOrdering(S), SUBSET S)
  BY FS_StrictSubsetOrderingWellFounded, FS_FiniteSubsetsOfFinite
<1>2. PICK T \in C : \A U \in C : <<U, T>> \notin StrictSubsetOrdering(S)
  BY <1>1, WFMin, Zenon
<1> QED
  BY <1>2 DEF StrictSubsetOrdering

LEMMA FirstIn == \A s : s # {} => First(s) \in s
  BY DEF First

LEMMA RecursionUnique ==
  ASSUME NEW f, NEW S, IsFiniteSet(S), NEW g, NEW T, NEW h, T \subseteq S,
         Recursion(g, f, S), Recursion(h, f, T)
  PROVE  \A s \in SUBSET T : g[s] = h[s]
<1> DEFINE C == {s \in SUBSET T : g[s] # h[s]}
<1> SUFFICES ASSUME C # {} PROVE FALSE
  OBVIOUS
<1>0. C \in SUBSET SUBSET S
  OBVIOUS
<1>1. PICK s \in C : \A U \in C : U \subseteq s => U = s
  <2> HIDE DEF C
  <2> QED
    BY <1>0, Smallest
<1>2. s # {}
  BY DEF Recursion
<1>3. First(s) \in s /\ s \ {First(s)} \in SUBSET T /\ s \ {First(s)} # s
  BY <1>2, FirstIn
<1>4. g[s \ {First(s)}] = h[s \ {First(s)}]
  BY <1>1, <1>3
<1>5. s \in SUBSET T /\ s \in SUBSET S
  OBVIOUS
<1>6. g[s] = f[First(s)] + g[s \ {First(s)}]
  BY <1>2, <1>5 DEF Recursion
<1>7. h[s] = f[First(s)] + h[s \ {First(s)}]
  BY <1>2, <1>5 DEF Recursion
<1> QED
  BY <1>4, <1>6, <1>7

LEMMA RecursionExists ==
  ASSUME NEW f, NEW S, IsFiniteSet(S)
  PROVE  \E g : Recursion(g, f, S)
<1> DEFINE C == {T \in SUBSET S : ~ \E g : Recursion(g, f, T)}
<1> SUFFICES ASSUME C # {} PROVE FALSE
  OBVIOUS
<1>0. C \in SUBSET SUBSET S
  OBVIOUS
<1>1. PICK T \in C : \A U \in C : U \subseteq T => U = T
  <2> HIDE DEF C
  <2> QED
    BY <1>0, Smallest
<1> DEFINE G(U) == CHOOSE g : Recursion(g, f, U)
           Val(s) == IF s = {} THEN 0 ELSE f[First(s)] + G(s \ {First(s)})[s \ {First(s)}]
           h == [s \in SUBSET T |-> Val(s)]
<1>2. \A U \in SUBSET T : U # T => Recursion(G(U), f, U)
  BY <1>1
<1> HIDE DEF G
<1>3. ASSUME NEW s \in SUBSET T, s # T PROVE G(s)[s] = h[s]
  <2>1. CASE s = {}
    BY <1>2, <1>3, <2>1 DEF Recursion
  <2>2. CASE s # {}
    <3> DEFINE u == s \ {First(s)}
    <3>1. First(s) \in s /\ u \in SUBSET T /\ u # T /\ u \subseteq s
      BY <1>3, <2>2, FirstIn
    <3>2. Recursion(G(s), f, s) /\ Recursion(G(u), f, u)
      BY <1>2, <1>3, <3>1
    <3>3. IsFiniteSet(s)
      BY FS_Subset, <1>0
    <3>4. G(s)[u] = G(u)[u]
      BY <3>1, <3>2, <3>3, RecursionUnique
    <3>5. G(s)[s] = f[First(s)] + G(s)[u]
      BY <2>2, <3>2 DEF Recursion
    <3> QED
      BY <2>2, <3>4, <3>5
  <2> QED
    BY <2>1, <2>2
<1>4. ASSUME NEW s \in SUBSET T, s # {} PROVE h[s] = f[First(s)] + h[s \ {First(s)}]
  <2> DEFINE u == s \ {First(s)}
  <2>1. u \in SUBSET T /\ u # T
    BY <1>4, FirstIn
  <2>2. G(u)[u] = h[u]
    BY <2>1, <1>3
  <2> QED
    BY <1>4, <2>2
<1>5. h[{}] = 0
  OBVIOUS
<1>6. h = [s \in SUBSET T |-> h[s]]
  OBVIOUS
<1> HIDE DEF h
<1>7. Recursion(h, f, T)
  BY <1>4, <1>5, <1>6 DEF Recursion
<1> QED
  BY <1>1, <1>7

LEMMA SumOfEmpty == ASSUME NEW f PROVE SumFunctionOnSet(f, {}) = 0
<1>1. IsFiniteSet({})
  BY FS_EmptySet
<1> DEFINE g == CHOOSE g : Recursion(g, f, {})
<1>2. Recursion(g, f, {})
  BY <1>1, RecursionExists
<1> HIDE DEF g
<1>3. g[{}] = 0
  BY <1>2 DEF Recursion
<1> QED
  BY <1>3, SumIsRec DEF g

LEMMA SumOfFirst ==
  ASSUME NEW f, NEW S, IsFiniteSet(S), S # {}
  PROVE  /\ First(S) \in S /\ IsFiniteSet(S \ {First(S)})
         /\ SumFunctionOnSet(f, S) = f[First(S)] + SumFunctionOnSet(f, S \ {First(S)})
<1> DEFINE T == S \ {First(S)}
           g == CHOOSE g : Recursion(g, f, S)
           h == CHOOSE h : Recursion(h, f, T)
<1>1. First(S) \in S /\ IsFiniteSet(T)
  BY FirstIn, FS_RemoveElement
<1>2. Recursion(g, f, S) /\ Recursion(h, f, T)
  BY <1>1, RecursionExists
<1>3. SumFunctionOnSet(f, S) = g[S] /\ SumFunctionOnSet(f, T) = h[T]
  BY SumIsRec
<1> HIDE DEF g, h
<1>4. g[T] = h[T]
  BY <1>1, <1>2, RecursionUnique
<1>5. g[S] = f[First(S)] + g[T]
  BY <1>2 DEF Recursion
<1> QED
  BY <1>1, <1>3, <1>4, <1>5

LEMMA SumType ==
  ASSUME NEW S, IsFiniteSet(S), NEW f, \A x \in S : f[x] \in Int
  PROVE  \A T \in SUBSET S : SumFunctionOnSet(f, T) \in Int
<1> DEFINE C == {T \in SUBSET S : SumFunctionOnSet(f, T) \notin Int}
<1> SUFFICES ASSUME C # {} PROVE FALSE
  OBVIOUS
<1>0. C \in SUBSET SUBSET S
  OBVIOUS
<1>1. PICK T \in C : \A U \in C : U \subseteq T => U = T
  <2> HIDE DEF C
  <2> QED
    BY <1>0, Smallest
<1>2. IsFiniteSet(T) /\ T # {}
  <2>1. SumFunctionOnSet(f, {}) \in Int
    BY SumOfEmpty
  <2> QED
    BY <2>1, FS_Subset
<1>3. First(T) \in T /\ SumFunctionOnSet(f, T) = f[First(T)] + SumFunctionOnSet(f, T \ {First(T)})
  BY <1>2, SumOfFirst
<1>4. SumFunctionOnSet(f, T \ {First(T)}) \in Int
  BY <1>1, <1>3
<1> QED
  BY <1>3, <1>4

(* Any element may be taken first. *)
Adds(f, T) == \A x \in T : SumFunctionOnSet(f, T) = f[x] + SumFunctionOnSet(f, T \ {x})

LEMMA SumWithout ==
  ASSUME NEW S, IsFiniteSet(S), NEW f, \A x \in S : f[x] \in Int
  PROVE  \A T \in SUBSET S : Adds(f, T)
<1> DEFINE C == {T \in SUBSET S : ~Adds(f, T)}
<1> SUFFICES ASSUME C # {} PROVE FALSE
  OBVIOUS
<1>0. C \in SUBSET SUBSET S
  OBVIOUS
<1>1. PICK T \in C : \A U \in C : U \subseteq T => U = T
  <2> HIDE DEF C
  <2> QED
    BY <1>0, Smallest
<1>2. PICK x \in T : SumFunctionOnSet(f, T) # f[x] + SumFunctionOnSet(f, T \ {x})
  BY DEF Adds
<1> DEFINE c == First(T)
<1>3. IsFiniteSet(T) /\ IsFiniteSet(T \ {x}) /\ T \in SUBSET S
  BY FS_Subset
<1>4. c \in T /\ SumFunctionOnSet(f, T) = f[c] + SumFunctionOnSet(f, T \ {c})
  BY <1>3, SumOfFirst
<1>5. x # c
  BY <1>2, <1>4
<1>6. T \ {c} \notin C /\ T \ {x} \notin C
  BY <1>1, <1>2, <1>4
<1> HIDE DEF c
<1>7. /\ SumFunctionOnSet(f, T \ {c}) = f[x] + SumFunctionOnSet(f, (T \ {c}) \ {x})
      /\ SumFunctionOnSet(f, T \ {x}) = f[c] + SumFunctionOnSet(f, (T \ {x}) \ {c})
  BY <1>2, <1>3, <1>4, <1>5, <1>6 DEF Adds
<1>8. (T \ {c}) \ {x} = (T \ {x}) \ {c}
  OBVIOUS
<1> DEFINE rest == SumFunctionOnSet(f, (T \ {x}) \ {c})
<1>9. rest \in Int /\ f[x] \in Int /\ f[c] \in Int
  BY <1>3, <1>4, SumType
<1>10. SumFunctionOnSet(f, T) = f[c] + (f[x] + rest) /\ SumFunctionOnSet(f, T \ {x}) = f[c] + rest
  BY <1>4, <1>7, <1>8
<1> HIDE DEF rest
<1> QED
  BY <1>2, <1>9, <1>10

SameSum(f, g, T) == SumFunctionOnSet(f, T) = SumFunctionOnSet(g, T)

LEMMA SumAgrees ==
  ASSUME NEW S, IsFiniteSet(S), NEW f, NEW g, \A x \in S : f[x] = g[x]
  PROVE  \A T \in SUBSET S : SameSum(f, g, T)
<1> USE DEF SameSum
<1> DEFINE C == {T \in SUBSET S : SumFunctionOnSet(f, T) # SumFunctionOnSet(g, T)}
<1> SUFFICES ASSUME C # {} PROVE FALSE
  OBVIOUS
<1>0. C \in SUBSET SUBSET S
  OBVIOUS
<1>1. PICK T \in C : \A U \in C : U \subseteq T => U = T
  <2> HIDE DEF C
  <2> QED
    BY <1>0, Smallest
<1>2. IsFiniteSet(T) /\ T # {}
  BY SumOfEmpty, FS_Subset
<1>3. /\ First(T) \in T
      /\ SumFunctionOnSet(f, T) = f[First(T)] + SumFunctionOnSet(f, T \ {First(T)})
      /\ SumFunctionOnSet(g, T) = g[First(T)] + SumFunctionOnSet(g, T \ {First(T)})
  BY <1>2, SumOfFirst
<1>4. SumFunctionOnSet(f, T \ {First(T)}) = SumFunctionOnSet(g, T \ {First(T)})
  BY <1>1, <1>3
<1> QED
  BY <1>3, <1>4

(* With quantities that are no less than zero, a larger set has no smaller  *)
(* sum.                                                                     *)
LEMMA SumGrows ==
  ASSUME NEW S, IsFiniteSet(S), NEW f, \A x \in S : f[x] \in Nat, NEW A \in SUBSET S
  PROVE  \A T \in SUBSET S : A \subseteq T => SumFunctionOnSet(f, A) <= SumFunctionOnSet(f, T)
<1> DEFINE C == {T \in SUBSET S : A \subseteq T
                                   /\ ~(SumFunctionOnSet(f, A) <= SumFunctionOnSet(f, T))}
<1> SUFFICES ASSUME C # {} PROVE FALSE
  OBVIOUS
<1>0. C \in SUBSET SUBSET S
  OBVIOUS
<1>1. PICK T \in C : \A U \in C : U \subseteq T => U = T
  <2> HIDE DEF C
  <2> QED
    BY <1>0, Smallest
<1>2. /\ SumFunctionOnSet(f, A) \in Int /\ SumFunctionOnSet(f, T) \in Int
      /\ \A x \in T : SumFunctionOnSet(f, T \ {x}) \in Int
      /\ \A x \in T : SumFunctionOnSet(f, T) = f[x] + SumFunctionOnSet(f, T \ {x})
  BY SumType, SumWithout DEF Adds
<1>3. PICK x \in T : x \notin A
  BY <1>2
<1>4. T \ {x} \notin C /\ T \ {x} \in SUBSET S /\ A \subseteq T \ {x}
  BY <1>1, <1>3
<1>5. SumFunctionOnSet(f, A) <= SumFunctionOnSet(f, T \ {x})
  BY <1>4
<1> QED
  BY <1>2, <1>3, <1>5

-----------------------------------------------------------------------------
(* The pages of the master data: MasterDialog. *)

Forms == [Fields -> Values \cup {None}]

(* A value that may stand in this record: any, once a save has strayed there. *)
Belongs(id, v) ==
  id \notin strayed /\ v \notin {0, None} => v \in 1..Len(purpose) /\ id \in purpose[v]

Saves == [at : {"none", "held", "sent", "done", "failed"}, id : Ids \cup {None},
          values : Forms, opened : Values, under : Values]

ShapeOK ==
  /\ stored \in [Ids -> Forms] /\ list \in [Ids -> Forms]
  /\ form \in Forms /\ editing \in Ids \cup {None} /\ dialog \in BOOLEAN
  /\ pending \in Saves /\ strayed \subseteq Ids
  /\ purpose \in Seq(SUBSET Ids) /\ Len(purpose) <= MaxDialogs
  /\ current \in 0..Len(purpose) /\ shown \in Ids \cup {None}
  /\ \A id \in Existing(stored), f \in Fields : stored[id][f] # None

(* Where the values that were typed may be. *)
StoredOK == \A id \in Ids, f \in Fields : Belongs(id, stored[id][f]) /\ Belongs(id, list[id][f])

FormOK ==
  dialog =>
    /\ editing = shown /\ current \in 1..Len(purpose)
    /\ editing = None => \A f \in Fields : form[f] \in {None, current}
    /\ editing # None => /\ editing \in purpose[current]
                         /\ \A f \in Fields : Belongs(editing, form[f])

(* The save's values may go into this record, unless a later dialog than its *)
(* own decides where they go.                                                *)
Aimed(id, under) ==
  under = pending.opened =>
    /\ id = None => \A f \in Fields : pending.values[f] = pending.opened
    /\ id # None => \A f \in Fields : Belongs(id, pending.values[f])

PendingOK ==
  /\ pending.at \in {"held", "sent"} => /\ pending.opened \in 1..Len(purpose)
                                       /\ \A f \in Fields : pending.values[f] # None
  /\ pending.at = "held" => Aimed(editing, current)
  /\ pending.at = "sent" => Aimed(pending.id, pending.under)

MastersInv == ShapeOK /\ StoredOK /\ FormOK /\ PendingOK

(* Dialogs are only added, and what they are for only grows. *)
Grows ==
  /\ Len(purpose) <= Len(purpose') /\ strayed \subseteq strayed'
  /\ \A i \in 1..Len(purpose) : purpose[i] \subseteq purpose'[i]

-----------------------------------------------------------------------------
LEMMA GrowthKeeps ==
  ASSUME ShapeOK, ShapeOK', Grows, NEW id, NEW v, Belongs(id, v) PROVE Belongs(id, v)'
<1>1. Len(purpose) \in Nat /\ Len(purpose') \in Nat
  BY DEF ShapeOK
<1> QED
  BY <1>1 DEF Belongs, Grows

LEMMA NewDialog ==
  ASSUME ShapeOK, NEW S \in SUBSET Ids, Len(purpose) < MaxDialogs, purpose' = Append(purpose, S),
         UNCHANGED strayed
  PROVE  /\ purpose' \in Seq(SUBSET Ids) /\ Len(purpose') = Len(purpose) + 1
         /\ Len(purpose') <= MaxDialogs /\ Len(purpose') \in Values
         /\ Len(purpose) \in Nat /\ purpose'[Len(purpose')] = S /\ Grows
<1>1. purpose \in Seq(SUBSET Ids) /\ Len(purpose) \in Nat
  BY DEF ShapeOK
<1> QED
  BY <1>1, DialogAssumption DEF Grows, Values

(* A new dialog is not the one of a save that is held. *)
LEMMA AimKept ==
  ASSUME ShapeOK, ShapeOK', Grows, PendingOK, UNCHANGED pending,
         current' = Len(purpose) + 1 \/ UNCHANGED <<editing, current>>
  PROVE  PendingOK'
<1>1. Len(purpose) \in Nat /\ Len(purpose') \in Nat /\ Len(purpose) <= Len(purpose')
  BY DEF ShapeOK, Grows
<1>2. ASSUME NEW id, NEW under, Aimed(id, under) PROVE Aimed(id, under)'
  <2>1. ASSUME NEW f \in Fields, Belongs(id, pending.values[f])
        PROVE  Belongs(id, pending.values[f])'
    BY <1>1, <2>1 DEF Belongs, Grows
  <2> QED
    BY <1>2, <2>1 DEF Aimed
<1>3. pending.at = "held" => Aimed(editing, current)'
  <2>1. CASE current' = Len(purpose) + 1
    BY <1>1, <2>1 DEF PendingOK, Aimed
  <2>2. CASE UNCHANGED <<editing, current>>
    BY <1>2, <2>2 DEF PendingOK, Aimed
  <2> QED
    BY <2>1, <2>2
<1>4. pending.at = "sent" => Aimed(pending.id, pending.under)'
  BY <1>2 DEF PendingOK, Aimed
<1>5. pending.at \in {"held", "sent"} => pending.opened \in 1..Len(purpose')
  BY <1>1 DEF PendingOK
<1> QED
  BY <1>3, <1>4, <1>5 DEF PendingOK

LEMMA InitMastersInv == Init => MastersInv
<1> SUFFICES ASSUME Init PROVE MastersInv
  OBVIOUS
<1> USE DialogAssumption DEF Init, EmptyForm
<1>1. PICK known \in SUBSET Ids :
        stored = [id \in Ids |-> IF id \in known THEN [f \in Fields |-> 0] ELSE EmptyForm]
  OBVIOUS
<1>2. \A id \in Ids, f \in Fields :
        stored[id][f] \in {0, None} /\ (id \in Existing(stored) => stored[id][f] = 0)
  BY <1>1 DEF Existing
<1>3. EmptyForm \in Forms /\ [f \in Fields |-> 0] \in Forms /\ 0 \in Values
  BY DEF Forms, Values
<1>4. stored \in [Ids -> Forms]
  BY <1>1, <1>3
<1>5. ShapeOK
  <2>1. purpose \in Seq(SUBSET Ids) /\ Len(purpose) = 0
    OBVIOUS
  <2>2. \A id \in Existing(stored), f \in Fields : stored[id][f] # None
    BY <1>2 DEF Existing
  <2>3. pending \in Saves
    <3> HIDE DEF EmptyForm
    <3> QED
      BY <1>3 DEF NoSave, Saves
  <2>4. list \in [Ids -> Forms] /\ form \in Forms
    BY <1>3, <1>4
  <2>5. /\ editing \in Ids \cup {None} /\ dialog \in BOOLEAN /\ shown \in Ids \cup {None}
        /\ strayed \subseteq Ids
    OBVIOUS
  <2>6. Len(purpose) <= MaxDialogs /\ current \in 0..Len(purpose)
    BY <2>1
  <2> HIDE DEF Init
  <2> QED
    BY <1>4, <2>1, <2>2, <2>3, <2>4, <2>5, <2>6 DEF ShapeOK
<1>6. StoredOK
  BY <1>2 DEF StoredOK, Belongs
<1>7. FormOK /\ PendingOK
  BY DEF FormOK, PendingOK, NoSave
<1> QED
  BY <1>5, <1>6, <1>7 DEF MastersInv

LEMMA FetchStep == ASSUME MastersInv, Fetch PROVE MastersInv'
<1> USE DEF MastersInv, Fetch, history
<1>1. ShapeOK'
  BY DEF ShapeOK, Existing
<1> QED
  BY <1>1 DEF StoredOK, FormOK, PendingOK, Aimed, Belongs

LEMMA OpenCreateStep == ASSUME MastersInv, OpenCreate PROVE MastersInv'
<1> USE DEF MastersInv, OpenCreate, Opens
<1>1. /\ purpose' = Append(purpose, {}) /\ Len(purpose) < MaxDialogs
      /\ UNCHANGED <<stored, list, pending, strayed>>
      /\ dialog' /\ editing' = None /\ form' = EmptyForm
      /\ shown' = None /\ current' = Len(purpose')
  OBVIOUS
<1>2. /\ purpose' \in Seq(SUBSET Ids) /\ Len(purpose') = Len(purpose) + 1
      /\ Len(purpose') <= MaxDialogs /\ Len(purpose) \in Nat /\ Grows
  BY <1>1, NewDialog
<1>3. ShapeOK'
  <2>1. EmptyForm \in Forms
    BY DEF EmptyForm, Forms
  <2> QED
    BY <1>1, <1>2, <2>1 DEF ShapeOK, Existing
<1>4. StoredOK'
  BY <1>1, <1>2, <1>3, GrowthKeeps DEF StoredOK
<1>5. FormOK'
  BY <1>1, <1>2 DEF FormOK, EmptyForm
<1>6. PendingOK'
  BY <1>1, <1>2, <1>3, AimKept
<1> QED
  BY <1>3, <1>4, <1>5, <1>6

LEMMA OpenEditStep == ASSUME MastersInv, NEW id \in Ids, OpenEdit(id) PROVE MastersInv'
<1> USE DEF MastersInv, OpenEdit, Opens, FormOf
<1>1. /\ purpose' = Append(purpose, {id}) /\ Len(purpose) < MaxDialogs
      /\ UNCHANGED <<stored, list, pending, strayed>>
      /\ dialog' /\ editing' = id /\ form' = list[id]
      /\ shown' = id /\ current' = Len(purpose')
  BY DialogAssumption
<1>2. /\ purpose' \in Seq(SUBSET Ids) /\ Len(purpose') = Len(purpose) + 1
      /\ Len(purpose') <= MaxDialogs /\ Len(purpose) \in Nat /\ Grows
      /\ purpose'[Len(purpose')] = {id}
  BY <1>1, NewDialog
<1>3. ShapeOK'
  BY <1>1, <1>2 DEF ShapeOK, Existing
<1>4. StoredOK'
  BY <1>1, <1>2, <1>3, GrowthKeeps DEF StoredOK
<1>5. FormOK'
  <2>1. \A f \in Fields : Belongs(id, list[id][f])'
    BY <1>1, <1>4 DEF StoredOK
  <2> QED
    BY <1>1, <1>2, <2>1, DialogAssumption DEF FormOK, Belongs
<1>6. PendingOK'
  BY <1>1, <1>2, <1>3, AimKept
<1> QED
  BY <1>3, <1>4, <1>5, <1>6

LEMMA TypeStep == ASSUME MastersInv, NEW f \in Fields, Type(f) PROVE MastersInv'
<1> USE DEF MastersInv, Type, history
<1>1. current \in 1..Len(purpose) /\ current \in Values
  BY DialogAssumption DEF FormOK, ShapeOK, Values
<1>2. \A g \in Fields : form'[g] = IF g = f THEN current ELSE form[g]
  BY DEF ShapeOK, Forms
<1>3. ShapeOK'
  BY <1>1 DEF ShapeOK, Existing, Forms
<1>4. StoredOK' /\ PendingOK'
  BY DEF StoredOK, PendingOK, Aimed, Belongs
<1>5. FormOK'
  BY <1>1, <1>2 DEF FormOK, Belongs
<1> QED
  BY <1>3, <1>4, <1>5

LEMMA SaveStep == ASSUME MastersInv, Save PROVE MastersInv'
<1> USE DEF MastersInv
<1>1. /\ dialog /\ \A f \in Fields : form[f] # None
      /\ UNCHANGED <<stored, list, dialog, editing, form, purpose, current, shown, strayed>>
  BY DEF Save, Complete, history
<1>2. /\ pending' \in Saves
      /\ pending'.at = "held" /\ pending'.values = form /\ pending'.opened = current
  <2>1. pending \in Saves /\ pending' = [pending EXCEPT !.at = "held", !.values = form,
                                                         !.opened = current]
    BY DEF Save, ShapeOK
  <2>2. form \in Forms /\ current \in Values
    BY DialogAssumption DEF ShapeOK, Values
  <2> QED
    BY <2>1, <2>2 DEF Saves
<1>3. ShapeOK'
  BY <1>1, <1>2 DEF ShapeOK, Existing
<1>4. StoredOK' /\ FormOK'
  BY <1>1 DEF StoredOK, FormOK, Belongs
<1>5. PendingOK'
  <2>1. current \in 1..Len(purpose)
    BY <1>1 DEF FormOK
  <2>2. Aimed(editing, current)'
    BY <1>1, <1>2 DEF FormOK, Aimed, Belongs
  <2> QED
    BY <1>1, <1>2, <2>1, <2>2 DEF PendingOK
<1> QED
  BY <1>3, <1>4, <1>5

LEMMA SendStep == ASSUME MastersInv, Send PROVE MastersInv'
<1> USE DEF MastersInv
<1>1. /\ pending.at = "held"
      /\ UNCHANGED <<stored, list, dialog, editing, form, purpose, current, shown, strayed>>
  BY DEF Send, history
<1>2. /\ pending' \in Saves /\ pending'.at = "sent"
      /\ pending'.id = editing /\ pending'.under = current
      /\ pending'.values = pending.values /\ pending'.opened = pending.opened
  <2>1. /\ pending \in Saves /\ editing \in Ids \cup {None}
        /\ pending' = [pending EXCEPT !.at = "sent", !.id = editing, !.under = current]
    BY DEF Send, ShapeOK
  <2>2. current \in Values
    BY DialogAssumption DEF ShapeOK, Values
  <2> QED
    BY <2>1, <2>2 DEF Saves
<1>3. ShapeOK'
  BY <1>1, <1>2 DEF ShapeOK, Existing
<1>4. StoredOK' /\ FormOK'
  BY <1>1 DEF StoredOK, FormOK, Belongs
<1>5. PendingOK'
  <2>1. Aimed(editing, current)
    BY <1>1 DEF PendingOK
  <2>2. Aimed(pending.id, pending.under)'
    BY <1>1, <1>2, <2>1 DEF Aimed, Belongs
  <2> QED
    BY <1>1, <1>2, <2>2 DEF PendingOK
<1> QED
  BY <1>3, <1>4, <1>5

(* Closing the dialog, and the ends of a save. *)
LEMMA ClosingStep == ASSUME MastersInv, Cancel \/ Succeed \/ Fail PROVE MastersInv'
<1> USE DEF MastersInv, history
<1>1. /\ UNCHANGED <<stored, list, purpose, current, shown, strayed>>
      /\ pending' = NoSave \/ UNCHANGED <<pending, editing>>
      /\ form' \in {form, EmptyForm}
      /\ editing' \in {editing, None} /\ dialog' \in BOOLEAN
      /\ dialog' => dialog /\ form' = form /\ editing' = editing
  <2>1. CASE Cancel
    BY <2>1 DEF Cancel
  <2>2. CASE Succeed
    BY <2>2 DEF Succeed
  <2>3. CASE Fail
    BY <2>3 DEF Fail, ShapeOK
  <2> QED
    BY <2>1, <2>2, <2>3
<1>2. EmptyForm \in Forms /\ 0 \in Values
  BY DialogAssumption DEF EmptyForm, Forms, Values
<1>3. ShapeOK'
  <2>1. NoSave \in Saves
    BY <1>2 DEF NoSave, Saves
  <2> HIDE DEF EmptyForm
  <2> QED
    BY <1>1, <1>2, <2>1 DEF ShapeOK, Existing
<1>4. StoredOK' /\ FormOK'
  BY <1>1 DEF StoredOK, FormOK, Belongs
<1>5. PendingOK'
  <2>1. NoSave.at = "none"
    BY DEF NoSave
  <2> QED
    BY <1>1, <2>1 DEF PendingOK, Aimed, Belongs
<1> QED
  BY <1>3, <1>4, <1>5

LEMMA ServeStep == ASSUME MastersInv, Serve PROVE MastersInv'
<1> USE DEF MastersInv
<1>0. pending.at = "sent" /\ UNCHANGED <<list, dialog, editing, form, current, shown>>
  BY DEF Serve
<1>a. ASSUME NEW at \in {"done", "failed"}, pending' = [pending EXCEPT !.at = at]
      PROVE  /\ pending' \in Saves /\ PendingOK'
             /\ pending'.values = pending.values
  <2>1. pending' \in Saves /\ pending'.at = at /\ pending'.values = pending.values
    BY <1>a DEF ShapeOK, Saves
  <2> QED
    BY <2>1 DEF PendingOK
<1>1. CASE pending' = [pending EXCEPT !.at = "failed"] /\ UNCHANGED <<stored, purpose, strayed>>
  <2>1. pending' \in Saves /\ PendingOK'
    BY <1>1, <1>a
  <2>2. ShapeOK'
    BY <1>0, <1>1, <2>1 DEF ShapeOK, Existing
  <2>3. StoredOK' /\ FormOK'
    BY <1>0, <1>1 DEF StoredOK, FormOK, Belongs
  <2> QED
    BY <2>1, <2>2, <2>3
<1>2. ASSUME NEW id \in Ids, pending.id = None \/ id = pending.id,
             stored' = [stored EXCEPT ![id] = pending.values],
             \/ Strays /\ strayed' = strayed \cup {id} /\ UNCHANGED purpose
             \/ /\ ~Strays /\ UNCHANGED strayed
                /\ purpose' = [purpose EXCEPT ![pending.opened] = @ \cup {id}],
             NEW at \in {"done", "failed"}, pending' = [pending EXCEPT !.at = at]
      PROVE  MastersInv'
  <2>1. /\ pending.opened \in 1..Len(purpose) /\ Len(purpose) \in Nat
        /\ \A f \in Fields : pending.values[f] # None
    BY <1>0 DEF PendingOK, ShapeOK
  <2>2. /\ purpose' \in Seq(SUBSET Ids) /\ Len(purpose') = Len(purpose) /\ Grows
        /\ strayed' \subseteq Ids /\ strayed' \subseteq strayed \cup {id}
    <3>1. CASE Strays
      BY <1>2, <3>1, <2>1 DEF ShapeOK, Grows
    <3>2. CASE ~Strays
      BY <1>2, <3>2, <2>1 DEF ShapeOK, Grows
    <3> QED
      BY <3>1, <3>2
  <2>3. stored' \in [Ids -> Forms] /\ stored'[id] = pending.values
        /\ \A i \in Ids : i # id => stored'[i] = stored[i]
    BY <1>2 DEF ShapeOK, Saves
  <2>4. pending' \in Saves /\ PendingOK' /\ pending'.values = pending.values
    BY <1>2, <1>a
  <2>5. \A i \in Existing(stored)', f \in Fields : stored'[i][f] # None
    BY <2>1, <2>3 DEF ShapeOK, Existing
  <2>6. ShapeOK'
    BY <1>0, <2>2, <2>3, <2>4, <2>5 DEF ShapeOK
  <2>7. \A f \in Fields : Belongs(id, pending.values[f])'
    <3>1. CASE Strays
      BY <1>2, <3>1 DEF Belongs
    <3>2. CASE ~Strays /\ pending.id = None
      <4>1. \A f \in Fields : pending.values[f] = pending.opened
        BY <1>0, <3>2 DEF PendingOK, Aimed, Strays
      <4>2. id \in purpose'[pending.opened]
        BY <1>2, <2>1, <3>2 DEF ShapeOK
      <4> QED
        BY <2>1, <2>2, <2>4, <4>1, <4>2 DEF Belongs
    <3>3. CASE ~Strays /\ pending.id # None
      <4>1. \A f \in Fields : Belongs(id, pending.values[f])
        BY <1>0, <1>2, <3>3 DEF PendingOK, Aimed, Strays
      <4> QED
        BY <2>1, <2>2, <2>4, <4>1 DEF Belongs, Grows
    <3> QED
      BY <3>1, <3>2, <3>3
  <2>8. StoredOK'
    <3> SUFFICES ASSUME NEW i \in Ids, NEW f \in Fields
                 PROVE  Belongs(i, stored[i][f])' /\ Belongs(i, list[i][f])'
      BY DEF StoredOK
    <3>1. Belongs(i, list[i][f])'
      BY <1>0, <2>2, <2>1 DEF StoredOK, Belongs, Grows
    <3>2. CASE i = id
      BY <2>3, <2>7, <2>4, <3>1, <3>2 DEF Belongs
    <3>3. CASE i # id
      BY <2>1, <2>2, <2>3, <3>1, <3>3 DEF StoredOK, Belongs, Grows
    <3> QED
      BY <3>2, <3>3
  <2>9. FormOK'
    BY <1>0, <2>1, <2>2 DEF FormOK, Belongs, Grows
  <2> QED
    BY <2>4, <2>6, <2>8, <2>9
<1> QED
  BY <1>1, <1>2 DEF Serve

LEMMA OtherSavesStep == ASSUME MastersInv, NEW id \in Ids, OtherSaves(id) PROVE MastersInv'
<1> USE DEF MastersInv
<1>1. /\ purpose' = Append(purpose, {id}) /\ Len(purpose) < MaxDialogs /\ id \in Existing(stored)
      /\ UNCHANGED <<list, dialog, editing, form, pending, current, shown, strayed>>
  BY DEF OtherSaves
<1>2. /\ purpose' \in Seq(SUBSET Ids) /\ Len(purpose') = Len(purpose) + 1
      /\ Len(purpose') <= MaxDialogs /\ Len(purpose') \in Values /\ Len(purpose) \in Nat
      /\ purpose'[Len(purpose')] = {id} /\ Grows
  BY <1>1, NewDialog
<1> DEFINE n == Len(purpose')
<1>3. PICK changed \in SUBSET Fields :
        stored' = [stored EXCEPT ![id] = [f \in Fields |-> IF f \in changed THEN n ELSE @[f]]]
  BY DEF OtherSaves
<1> DEFINE row == [f \in Fields |-> IF f \in changed THEN n ELSE stored[id][f]]
<1>4. stored' = [stored EXCEPT ![id] = row] /\ n \in Values /\ n # None
  BY <1>2, <1>3, DialogAssumption DEF Values
<1>5. row \in Forms /\ \A f \in Fields : row[f] # None /\ row[f] \in {n, stored[id][f]}
  BY <1>1, <1>4 DEF ShapeOK, Forms
<1> HIDE DEF row
<1>6. stored' \in [Ids -> Forms] /\ stored'[id] = row
      /\ \A i \in Ids : i # id => stored'[i] = stored[i]
  BY <1>4, <1>5 DEF ShapeOK
<1>7. ShapeOK'
  <2>1. \A i \in Existing(stored)', f \in Fields : stored'[i][f] # None
    BY <1>5, <1>6 DEF ShapeOK, Existing
  <2> QED
    BY <1>1, <1>2, <1>6, <2>1 DEF ShapeOK
<1>8. StoredOK'
  <2> SUFFICES ASSUME NEW i \in Ids, NEW f \in Fields
               PROVE  Belongs(i, stored[i][f])' /\ Belongs(i, list[i][f])'
    BY DEF StoredOK
  <2>1. Belongs(i, list[i][f])' /\ Belongs(i, stored[i][f])
    BY <1>1, <1>2 DEF StoredOK, Belongs, Grows
  <2>2. CASE i = id
    BY <1>2, <1>5, <1>6, <2>1, <2>2 DEF Belongs, Grows
  <2>3. CASE i # id
    BY <1>2, <1>6, <2>1, <2>3 DEF Belongs, Grows
  <2> QED
    BY <2>1, <2>2, <2>3
<1>9. FormOK'
  BY <1>1, <1>2 DEF FormOK, Belongs, Grows
<1>10. PendingOK'
  BY <1>1, <1>2, <1>7, AimKept
<1> QED
  BY <1>7, <1>8, <1>9, <1>10

-----------------------------------------------------------------------------
(* MastersInv is inductive. *)
LEMMA Inductive == MastersInv /\ [Next]_vars => MastersInv'
<1> SUFFICES ASSUME MastersInv, [Next]_vars PROVE MastersInv'
  OBVIOUS
<1>1. CASE UNCHANGED vars
  BY <1>1 DEF vars, history, MastersInv, ShapeOK, Existing, StoredOK, FormOK, PendingOK, Aimed,
              Belongs
<1> QED
  BY <1>1, FetchStep, OpenCreateStep, OpenEditStep, TypeStep, SaveStep, SendStep, ClosingStep,
     ServeStep, OtherSavesStep DEF Next

(* The inductive invariant holds of every behaviour of the screens. *)
THEOREM Invariance == Spec => []MastersInv
  BY InitMastersInv, Inductive, PTL DEF Spec

(* The records, the dialog and the save are of the stated types. *)
THEOREM TypeCorrect == Spec => []TypeOK
<1>1. MastersInv => TypeOK
  BY DEF MastersInv, ShapeOK, Forms, Saves, Records, TypeOK
<1> QED
  BY <1>1, Invariance, PTL

(* handleSubmit, mutationFn and onSuccess, HeadOfficeDealersPage.tsx: what  *)
(* is typed into a dialog never ends in another's record, unless a save     *)
(* that was held while offline was sent under a later dialog; no record but *)
(* those that such saves wrote holds what was typed for another.            *)
THEOREM TypedWhereItBelongs == Spec => []NoForeignValues
<1>1. MastersInv => NoForeignValues
  BY DEF MastersInv, ShapeOK, StoredOK, Belongs, NoForeignValues, Existing
<1> QED
  BY <1>1, Invariance, PTL

(* onSuccess clears the record that is edited only with the dialog.         *)
THEOREM DialogsKeepTheirRecord == Spec => []DialogKeepsItsRecord
<1>1. MastersInv => DialogKeepsItsRecord
  BY DEF MastersInv, FormOK, DialogKeepsItsRecord
<1> QED
  BY <1>1, Invariance, PTL

-----------------------------------------------------------------------------
(* The ordering page: OrderSubmission. *)

(* How many of SKU s the submissions K of q hold. *)
Count(q, s, K) == SumFunctionOnSet([k \in DOMAIN q |-> q[k][s]], K)
Sendable == [Skus -> 0..MaxQty]

LEMMA Tabulated ==
  ASSUME MaxQty \in Nat, NEW q \in Seq(Sendable), NEW s \in Skus, NEW f,
         f = [k \in DOMAIN q |-> q[k][s]]
  PROVE  /\ IsFiniteSet(1..Len(q)) /\ \A k \in 1..Len(q) : f[k] = q[k][s] /\ f[k] \in Nat
<1>1. IsFiniteSet(1..Len(q))
  BY FS_Interval
<1>2. \A k \in 1..Len(q) : q[k] \in Sendable /\ f[k] = q[k][s]
  OBVIOUS
<1> QED
  BY <1>1, <1>2 DEF Sendable

LEMMA CountType ==
  ASSUME MaxQty \in Nat, NEW q \in Seq(Sendable), NEW s \in Skus, NEW K \in SUBSET (1..Len(q))
  PROVE  Count(q, s, K) \in Int
<1>1. PICK f : f = [k \in DOMAIN q |-> q[k][s]]
  OBVIOUS
<1>2. SumFunctionOnSet(f, K) \in Int
  <2>1. IsFiniteSet(1..Len(q)) /\ \A i \in 1..Len(q) : f[i] \in Int
    BY <1>1, Tabulated
  <2> QED
    BY <2>1, SumType
<1> QED
  BY <1>1, <1>2, Zenon DEF Count

Splits(q, s, K, k) == Count(q, s, K) = q[k][s] + Count(q, s, K \ {k}) /\ q[k][s] \in Nat

LEMMA CountWithout ==
  ASSUME MaxQty \in Nat, NEW q \in Seq(Sendable), NEW s \in Skus, NEW K \in SUBSET (1..Len(q)),
         NEW k \in K
  PROVE  Splits(q, s, K, k)
<1>1. PICK f : f = [i \in DOMAIN q |-> q[i][s]]
  OBVIOUS
<1>2. SumFunctionOnSet(f, K) = f[k] + SumFunctionOnSet(f, K \ {k})
  <2>1. IsFiniteSet(1..Len(q)) /\ \A i \in 1..Len(q) : f[i] \in Int
    BY <1>1, Tabulated
  <2>2. PICK S : S = 1..Len(q)
    OBVIOUS
  <2>3. K \in SUBSET S /\ IsFiniteSet(S) /\ \A i \in S : f[i] \in Int
    BY <2>1, <2>2
  <2>4. Adds(f, K)
    BY <2>3, SumWithout, Zenon
  <2> QED
    BY <2>4 DEF Adds
<1>3. f[k] = q[k][s] /\ f[k] \in Nat
  BY <1>1, Tabulated
<1>4. Count(q, s, K) = SumFunctionOnSet(f, K)
      /\ Count(q, s, K \ {k}) = SumFunctionOnSet(f, K \ {k})
  BY <1>1, Zenon DEF Count
<1> QED
  BY <1>2, <1>3, <1>4 DEF Splits

LEMMA CountGrows ==
  ASSUME MaxQty \in Nat, NEW q \in Seq(Sendable), NEW s \in Skus, NEW K \in SUBSET (1..Len(q)),
         NEW A \in SUBSET K
  PROVE  Count(q, s, A) <= Count(q, s, K)
<1>1. PICK f : f = [i \in DOMAIN q |-> q[i][s]]
  OBVIOUS
<1>2. SumFunctionOnSet(f, A) <= SumFunctionOnSet(f, K)
  BY <1>1, Tabulated, SumGrows
<1>3. Count(q, s, A) = SumFunctionOnSet(f, A) /\ Count(q, s, K) = SumFunctionOnSet(f, K)
  BY <1>1, Zenon DEF Count
<1> QED
  BY <1>2, <1>3

Adding(r, s, K, n, c, q) == Count(r, s, K \cup {n}) = c[s] + Count(q, s, K)

LEMMA CountAppended ==
  ASSUME MaxQty \in Nat, NEW q \in Seq(Sendable), NEW c \in Sendable, NEW s \in Skus,
         NEW K \in SUBSET (1..Len(q)), NEW n, n = Len(q) + 1, NEW r, r = Append(q, c)
  PROVE  Adding(r, s, K, n, c, q)
<1> USE DEF Adding
<1>1. /\ r \in Seq(Sendable) /\ Len(r) = n /\ n \in Nat /\ Len(q) \in Nat /\ r[n] = c
      /\ \A k \in 1..Len(q) : r[k] = q[k]
  OBVIOUS
<1>2. Count(r, s, K) = Count(q, s, K)
  <2>1. PICK f : f = [k \in DOMAIN q |-> q[k][s]]
    OBVIOUS
  <2>2. PICK g : g = [k \in DOMAIN r |-> r[k][s]]
    OBVIOUS
  <2>3. IsFiniteSet(1..Len(q)) /\ \A k \in 1..Len(q) : f[k] = q[k][s]
    BY <2>1, Tabulated
  <2>4. \A k \in 1..Len(r) : g[k] = r[k][s]
    BY <1>1, <2>2, Tabulated
  <2>5. \A k \in 1..Len(q) : f[k] = g[k]
    BY <1>1, <2>3, <2>4
  <2>6. PICK S : S = 1..Len(q)
    OBVIOUS
  <2>7. IsFiniteSet(S) /\ K \in SUBSET S /\ \A k \in S : f[k] = g[k]
    BY <2>3, <2>5, <2>6
  <2>8. SameSum(f, g, K)
    BY <2>7, SumAgrees, Zenon
  <2> QED
    BY <2>1, <2>2, <2>8, Zenon DEF SameSum, Count
<1>3. \A k \in K : k \in 1..Len(q) /\ k # n /\ k \in 1..Len(r)
  BY <1>1
<1>4. PICK L : L = K \cup {n}
  OBVIOUS
<1>5. L \in SUBSET (1..Len(r)) /\ n \in L /\ r \in Seq(Sendable) /\ L \ {n} = K
  <2>1. n \in 1..Len(r)
    BY <1>1
  <2> QED
    BY <1>1, <1>3, <1>4, <2>1, Zenon
<1>6. Splits(r, s, L, n)
  BY <1>5, CountWithout, Zenon
<1> QED
  BY <1>1, <1>2, <1>4, <1>5, <1>6 DEF Splits

(* An answer is awaited, was good, or was given up; only then can the       *)
(* server have handled, or still handle, a submission.  While the cart is   *)
(* left alone the one submission under way is this page's, and the cart is  *)
(* empty.                                                                   *)
Submitted ==
  /\ awaited \cap (confirmed \cup lost) = {} /\ flying \cap placed = {}
  /\ flying \cup placed \subseteq awaited \cup confirmed \cup lost
  /\ ~disturbed => awaited \subseteq {mine}
  /\ ~disturbed /\ mine # 0 => \A s \in Skus : cart[s] = 0

(* Conservation in terms of Count. *)
Balance ==
  \A s \in Skus :
    /\ cart[s] + Count(sent, s, awaited \cup confirmed) <= wanted[s]
    /\ ~disturbed => cart[s] + Count(sent, s, awaited \cup confirmed) = wanted[s]

(* The inductive invariant of the ordering page. *)
CatalogInv == Catalog!TypeOK /\ Catalog!WaitsForAnswer /\ Submitted /\ Balance

LEMMA PiecesCount == \A s, K : Catalog!Pieces(s, K) = Count(sent, s, K)
<1>1. \A f, S : Catalog!SumFunctionOnSet(f, S) = SumFunctionOnSet(f, S)
  BY Zenon DEF SumFunctionOnSet, FoldFunctionOnSet, MapThenFoldSet, Catalog!SumFunctionOnSet,
     Catalog!FoldFunctionOnSet, Catalog!MapThenFoldSet
<1>2. \A s, K : Catalog!Pieces(s, K) = SumFunctionOnSet(Catalog!Quantities(s), K)
  BY <1>1, Zenon DEF Catalog!Pieces
<1> QED
  BY <1>2, Zenon DEF Catalog!Quantities, Count

LEMMA BalanceConserves == Balance => Catalog!Conservation
BY PiecesCount DEF Balance, Catalog!Conservation

(* The types, with the library's and the module's names for them expanded.  *)
CatalogTypes ==
  /\ cart \in [Skus -> Nat] /\ drafts \in [Skus -> Nat] /\ wanted \in [Skus -> Int]
  /\ cartOpen \in BOOLEAN /\ disturbed \in BOOLEAN
  /\ sent \in Seq(Sendable) /\ Len(sent) \in Nat
  /\ mine \in {0} \cup 1..Len(sent) /\ awaited \in SUBSET (1..Len(sent))
  /\ flying \in SUBSET (1..Len(sent)) /\ confirmed \in SUBSET placed
  /\ placed \in SUBSET (1..Len(sent)) /\ lost \in SUBSET (1..Len(sent))

LEMMA TypesAre == Catalog!TypeOK <=> CatalogTypes
BY DEF Catalog!TypeOK, Catalog!Carts, Catalog!Keys, Sendable, CatalogTypes

LEMMA TypesAreNext == Catalog!TypeOK' <=> CatalogTypes'
BY TypesAre, PTL

LEMMA Bounds == MaxQty \in Nat /\ MaxDraft \in Nat /\ MaxCart \in Nat
BY ScreensAssumption DEF Catalog!SubmissionAssumption

LEMMA InitCatalog == Catalog!Init => CatalogInv
<1> SUFFICES ASSUME Catalog!Init PROVE CatalogInv
  OBVIOUS
<1> USE DEF Catalog!Init, Catalog!Empty
<1>1. CatalogTypes
  <2>1. sent = <<>> /\ sent \in Seq(Sendable) /\ Len(sent) = 0
    OBVIOUS
  <2>2. /\ cart \in [Skus -> Nat] /\ drafts \in [Skus -> Nat] /\ wanted \in [Skus -> Int]
        /\ mine = 0 /\ cartOpen = FALSE /\ disturbed = FALSE
        /\ awaited = {} /\ flying = {} /\ confirmed = {} /\ placed = {} /\ lost = {}
    OBVIOUS
  <2> QED
    BY <2>1, <2>2 DEF CatalogTypes
<1>2. \A s \in Skus : Count(sent, s, awaited \cup confirmed) = 0
  <2>1. \A s, q : Count(q, s, {}) = 0
    BY SumOfEmpty, Zenon DEF Count
  <2>2. awaited \cup confirmed = {}
    OBVIOUS
  <2> QED
    BY <2>1, <2>2, Zenon
<1>3. Balance
  BY <1>2 DEF Balance
<1> QED
  BY <1>1, <1>3, TypesAre DEF CatalogInv, Catalog!WaitsForAnswer, Submitted

(* Counting what was sent is possible whenever the types are right. *)
LEMMA Counted ==
  ASSUME CatalogTypes, NEW s \in Skus
  PROVE  Count(sent, s, awaited \cup confirmed) \in Int
<1>1. awaited \cup confirmed \in SUBSET (1..Len(sent))
  BY DEF CatalogTypes
<1> QED
  BY <1>1, Bounds, CountType DEF CatalogTypes

LEMMA EditDraftStep == ASSUME CatalogInv, NEW s \in Skus, Catalog!EditDraft(s) PROVE CatalogInv'
<1>1. CatalogTypes
  BY TypesAre DEF CatalogInv
<1>2. /\ UNCHANGED <<cart, cartOpen, mine, sent, flying, placed, awaited, confirmed, wanted,
                     disturbed, lost>>
      /\ drafts' \in [Skus -> Nat]
  BY <1>1, Bounds DEF Catalog!EditDraft, Catalog!Stepper, Catalog!network, CatalogTypes
<1>3. CatalogTypes'
  BY <1>1, <1>2 DEF CatalogTypes
<1> QED
  BY <1>2, <1>3, TypesAreNext DEF CatalogInv, Catalog!WaitsForAnswer, Submitted, Balance

(* A change of the cart is a change of what is wanted. *)
LEMMA PutInCartStep ==
  ASSUME CatalogInv, NEW s \in Skus, NEW qty \in Nat, Catalog!PutInCart(s, qty),
         drafts' \in [Skus -> Nat], cartOpen' \in BOOLEAN
  PROVE  CatalogInv'
<1>1. CatalogTypes
  BY TypesAre DEF CatalogInv
<1>2. /\ cart' = [cart EXCEPT ![s] = qty] /\ wanted' = [wanted EXCEPT ![s] = @ + qty - cart[s]]
      /\ disturbed' = (disturbed \/ mine # 0)
      /\ UNCHANGED <<mine, sent, flying, placed, awaited, confirmed, lost>>
  BY DEF Catalog!PutInCart, Catalog!network
<1>3. CatalogTypes'
  BY <1>1, <1>2 DEF CatalogTypes
<1>4. Submitted'
  BY <1>1, <1>2 DEF CatalogInv, Submitted, CatalogTypes
<1>5. Balance'
  <2> SUFFICES ASSUME NEW t \in Skus
               PROVE  /\ cart'[t] + Count(sent, t, awaited \cup confirmed) <= wanted'[t]
                      /\ ~disturbed => cart'[t] + Count(sent, t, awaited \cup confirmed) = wanted'[t]
    BY <1>2 DEF Balance
  <2>1. PICK c : c = Count(sent, t, awaited \cup confirmed)
    OBVIOUS
  <2>2. c \in Int
    BY <1>1, <2>1, Counted
  <2>3. cart[t] + c <= wanted[t] /\ (~disturbed => cart[t] + c = wanted[t])
    BY <2>1 DEF CatalogInv, Balance
  <2>4. cart[t] \in Nat /\ wanted[t] \in Int
    BY <1>1 DEF CatalogTypes
  <2>5. CASE t = s
    <3>1. cart'[t] = qty /\ wanted'[t] = wanted[t] + qty - cart[t]
      BY <1>1, <1>2, <2>5 DEF CatalogTypes
    <3> QED
      BY <2>1, <2>2, <2>3, <2>4, <3>1
  <2>6. CASE t # s
    <3>1. cart'[t] = cart[t] /\ wanted'[t] = wanted[t]
      BY <1>1, <1>2, <2>6 DEF CatalogTypes
    <3> QED
      BY <2>1, <2>3, <3>1
  <2> QED
    BY <2>5, <2>6
<1> QED
  BY <1>2, <1>3, <1>4, <1>5, TypesAreNext DEF CatalogInv, Catalog!WaitsForAnswer

LEMMA AddToCartStep == ASSUME CatalogInv, NEW s \in Skus, Catalog!AddToCart(s) PROVE CatalogInv'
<1>1. CatalogTypes
  BY TypesAre DEF CatalogInv
<1>2. PICK qty \in Nat : Catalog!PutInCart(s, qty)
  BY <1>1 DEF Catalog!AddToCart, CatalogTypes
<1>3. drafts' \in [Skus -> Nat] /\ cartOpen' \in BOOLEAN
  BY <1>1 DEF Catalog!AddToCart, CatalogTypes
<1> QED
  BY <1>2, <1>3, PutInCartStep

LEMMA EditCartStep == ASSUME CatalogInv, NEW s \in Skus, Catalog!EditCart(s) PROVE CatalogInv'
<1>1. CatalogTypes
  BY TypesAre DEF CatalogInv
<1>2. PICK q \in Catalog!Stepper(cart[s]) : Catalog!PutInCart(s, q)
  BY DEF Catalog!EditCart
<1>3. q \in Nat
  BY <1>1, Bounds DEF Catalog!Stepper, CatalogTypes
<1>4. drafts' \in [Skus -> Nat] /\ cartOpen' \in BOOLEAN
  BY <1>1 DEF Catalog!EditCart, CatalogTypes
<1> QED
  BY <1>2, <1>3, <1>4, PutInCartStep

LEMMA ToggleCartStep == ASSUME CatalogInv, Catalog!ToggleCart PROVE CatalogInv'
<1>1. CatalogTypes
  BY TypesAre DEF CatalogInv
<1>2. UNCHANGED <<cart, drafts, mine, sent, flying, placed, awaited, confirmed, wanted,
                  disturbed, lost>> /\ cartOpen' \in BOOLEAN
  BY <1>1 DEF Catalog!ToggleCart, Catalog!network, CatalogTypes
<1>3. CatalogTypes'
  BY <1>1, <1>2 DEF CatalogTypes
<1> QED
  BY <1>2, <1>3, TypesAreNext DEF CatalogInv, Catalog!WaitsForAnswer, Submitted, Balance

LEMMA LeaveStep == ASSUME CatalogInv, Catalog!Leave PROVE CatalogInv'
<1>1. CatalogTypes
  BY TypesAre DEF CatalogInv
<1>2. /\ cart' = [s \in Skus |-> 0] /\ drafts' = [s \in Skus |-> 0]
      /\ cartOpen' = FALSE /\ mine' = 0 /\ disturbed' = TRUE
      /\ UNCHANGED <<sent, flying, placed, awaited, confirmed, wanted, lost>>
  BY DEF Catalog!Leave, Catalog!network, Catalog!Empty
<1>3. CatalogTypes'
  BY <1>1, <1>2 DEF CatalogTypes
<1>4. Balance'
  <2> SUFFICES ASSUME NEW s \in Skus
               PROVE  cart'[s] + Count(sent, s, awaited \cup confirmed) <= wanted[s]
    BY <1>2 DEF Balance
  <2>1. PICK c : c = Count(sent, s, awaited \cup confirmed)
    OBVIOUS
  <2>2. c \in Int /\ cart[s] \in Nat /\ wanted[s] \in Int /\ cart'[s] = 0
    BY <1>1, <1>2, <2>1, Counted DEF CatalogTypes
  <2>3. cart[s] + c <= wanted[s]
    BY <2>1 DEF CatalogInv, Balance
  <2> QED
    BY <2>1, <2>2, <2>3
<1> QED
  BY <1>2, <1>3, <1>4, TypesAreNext DEF CatalogInv, Catalog!WaitsForAnswer, Submitted

LEMMA HandleStep ==
  ASSUME CatalogInv, NEW k \in DOMAIN sent, Catalog!Handle(k)
  PROVE  CatalogInv'
<1>1. CatalogTypes
  BY TypesAre DEF CatalogInv
<1>2. /\ k \in flying /\ flying' = flying \ {k} /\ placed' \in {placed, placed \cup {k}}
      /\ UNCHANGED <<cart, drafts, cartOpen, mine, sent, awaited, confirmed, wanted,
                     disturbed, lost>>
  BY DEF Catalog!Handle
<1>3. CatalogTypes'
  BY <1>1, <1>2 DEF CatalogTypes
<1>4. Submitted'
  BY <1>2 DEF CatalogInv, Submitted
<1> QED
  BY <1>2, <1>3, <1>4, TypesAreNext DEF CatalogInv, Catalog!WaitsForAnswer, Balance

LEMMA SucceedStep ==
  ASSUME CatalogInv, NEW k \in DOMAIN sent, Catalog!Succeed(k)
  PROVE  CatalogInv'
<1>1. CatalogTypes
  BY TypesAre DEF CatalogInv
<1>2. /\ k \in awaited /\ k \in placed /\ awaited' = awaited \ {k}
      /\ mine' = (IF mine = k THEN 0 ELSE mine) /\ confirmed' = confirmed \cup {k}
      /\ UNCHANGED <<cart, drafts, cartOpen, sent, flying, placed, wanted, disturbed, lost>>
  BY DEF Catalog!Succeed, Catalog!Settle
<1>3. CatalogTypes'
  BY <1>1, <1>2 DEF CatalogTypes
<1>4. Submitted'
  BY <1>2 DEF CatalogInv, Submitted
<1>5. awaited' \cup confirmed' = awaited \cup confirmed
  BY <1>2
<1>6. Balance'
  BY <1>2, <1>5 DEF CatalogInv, Balance
<1> QED
  BY <1>2, <1>3, <1>4, <1>6, TypesAreNext DEF CatalogInv, Catalog!WaitsForAnswer

LEMMA SubmitStep == ASSUME CatalogInv, Catalog!Submit PROVE CatalogInv'
<1>1. CatalogTypes
  BY TypesAre DEF CatalogInv
<1> DEFINE n == Len(sent) + 1
<1>2. /\ mine = 0 /\ sent' = Append(sent, cart) /\ mine' = Len(sent')
      /\ flying' = flying \cup {mine'} /\ awaited' = awaited \cup {mine'}
      /\ cart' = [s \in Skus |-> 0] /\ cartOpen' = FALSE
      /\ UNCHANGED <<drafts, placed, confirmed, wanted, disturbed, lost>>
  BY DEF Catalog!Submit, Catalog!CartDuringSubmit, Catalog!Empty
<1>3. cart \in Sendable
  BY <1>1, Bounds DEF Catalog!Submit, Catalog!Acceptable, CatalogTypes, Sendable
<1>4. /\ sent' \in Seq(Sendable) /\ Len(sent') = n /\ mine' = n
      /\ n \in 1..Len(sent') /\ n \notin 1..Len(sent)
      /\ \A k \in 1..Len(sent) : k \in 1..Len(sent')
  BY <1>1, <1>2, <1>3 DEF CatalogTypes
<1>5. CatalogTypes'
  <2>1. awaited' \in SUBSET (1..Len(sent')) /\ flying' \in SUBSET (1..Len(sent'))
    BY <1>1, <1>2, <1>4 DEF CatalogTypes
  <2>2. placed' \in SUBSET (1..Len(sent')) /\ lost' \in SUBSET (1..Len(sent'))
        /\ confirmed' \in SUBSET placed'
    BY <1>1, <1>2, <1>4 DEF CatalogTypes
  <2>3. /\ cart' \in [Skus -> Nat] /\ drafts' \in [Skus -> Nat] /\ wanted' \in [Skus -> Int]
        /\ cartOpen' \in BOOLEAN /\ disturbed' \in BOOLEAN /\ Len(sent') \in Nat
    <3>1. cart' \in [Skus -> Nat] /\ cartOpen' \in BOOLEAN
      BY <1>2
    <3>2. drafts' \in [Skus -> Nat] /\ wanted' \in [Skus -> Int] /\ disturbed' \in BOOLEAN
      BY <1>1, <1>2 DEF CatalogTypes
    <3>3. Len(sent') \in Nat
      BY <1>1, <1>4 DEF CatalogTypes
    <3> QED
      BY <3>1, <3>2, <3>3
  <2>4. sent' \in Seq(Sendable) /\ mine' \in {0} \cup 1..Len(sent')
    BY <1>4
  <2> HIDE DEF n
  <2> QED
    BY <2>1, <2>2, <2>3, <2>4 DEF CatalogTypes
<1>6. /\ n \notin awaited /\ n \notin confirmed /\ n \notin lost /\ n \notin placed
  BY <1>1, <1>4 DEF CatalogTypes
<1> HIDE DEF n
<1>7. Submitted'
  <2>1. ~disturbed => awaited = {}
    BY <1>1, <1>2 DEF CatalogInv, Submitted, CatalogTypes
  <2> QED
    BY <1>2, <1>4, <1>6, <2>1 DEF CatalogInv, Submitted
<1>8. Balance'
  <2> SUFFICES ASSUME NEW s \in Skus
               PROVE  /\ cart'[s] + Count(sent', s, (awaited \cup confirmed)') <= wanted[s]
                      /\ ~disturbed =>
                           cart'[s] + Count(sent', s, (awaited \cup confirmed)') = wanted[s]
    BY <1>2 DEF Balance
  <2>1. PICK K : K = awaited \cup confirmed
    OBVIOUS
  <2>2. K \in SUBSET (1..Len(sent)) /\ (awaited \cup confirmed)' = K \cup {n}
    BY <1>1, <1>2, <1>4, <2>1 DEF CatalogTypes
  <2>3. Count(sent', s, K \cup {n}) = cart[s] + Count(sent, s, K)
    <3>1. n = Len(sent) + 1 /\ sent \in Seq(Sendable)
      BY <1>1 DEF n, CatalogTypes
    <3>2. sent' = Append(sent, cart) /\ K \in SUBSET (1..Len(sent))
      BY <1>2, <2>2
    <3>3. Adding(sent', s, K, n, cart, sent)
      BY <1>3, <3>1, <3>2, Bounds, CountAppended, Zenon
    <3> QED
      BY <3>3 DEF Adding
  <2>4. PICK c : c = Count(sent, s, K)
    OBVIOUS
  <2>5. c \in Int
    BY <1>1, <2>1, <2>4, Counted
  <2>6. cart[s] + c <= wanted[s] /\ (~disturbed => cart[s] + c = wanted[s])
    BY <2>1, <2>4 DEF CatalogInv, Balance
  <2>7. cart[s] \in Nat /\ cart'[s] = 0 /\ wanted[s] \in Int
    BY <1>1, <1>2 DEF CatalogTypes
  <2>8. PICK e : e = Count(sent', s, (awaited \cup confirmed)')
    OBVIOUS
  <2>9. e = cart[s] + c
    BY <2>2, <2>3, <2>4, <2>8, Zenon
  <2>10. cart'[s] + e <= wanted[s] /\ (~disturbed => cart'[s] + e = wanted[s])
    BY <2>5, <2>6, <2>7, <2>9
  <2> QED
    BY <2>8, <2>10, Zenon
<1> QED
  BY <1>2, <1>4, <1>5, <1>7, <1>8, TypesAreNext DEF CatalogInv, Catalog!WaitsForAnswer

(* A failure takes the pieces out of what is awaited; they come back to the *)
(* cart only if this page waits, and then its cart has been empty unless    *)
(* the dealer went on, in which case that is lost.                          *)
LEMMA FailStep ==
  ASSUME CatalogInv, NEW k \in DOMAIN sent, Catalog!Fail(k)
  PROVE  CatalogInv'
<1>1. CatalogTypes
  BY TypesAre DEF CatalogInv
<1>2. /\ k \in awaited /\ awaited' = awaited \ {k}
      /\ mine' = (IF mine = k THEN 0 ELSE mine)
      /\ cart' = (IF mine = k THEN sent[k] ELSE cart)
      /\ lost' = (IF k \in flying \cup placed THEN lost \cup {k} ELSE lost)
      /\ UNCHANGED <<drafts, cartOpen, sent, flying, placed, confirmed, wanted, disturbed>>
  BY DEF Catalog!Fail, Catalog!Settle, Catalog!Restored
<1>3. sent[k] \in [Skus -> Nat] /\ k \notin confirmed /\ k # 0
  <2>1. sent[k] \in Sendable /\ k \in 1..Len(sent)
    BY <1>1 DEF CatalogTypes
  <2>2. k \notin confirmed
    BY <1>2 DEF CatalogInv, Submitted
  <2> QED
    BY <2>1, <2>2, Bounds DEF Sendable
<1>4. CatalogTypes'
  BY <1>1, <1>2, <1>3 DEF CatalogTypes
<1>5. Submitted'
  BY <1>2, <1>3 DEF CatalogInv, Submitted
<1>6. Balance'
  <2> SUFFICES ASSUME NEW s \in Skus
               PROVE  /\ cart'[s] + Count(sent, s, (awaited \cup confirmed)') <= wanted[s]
                      /\ ~disturbed =>
                           cart'[s] + Count(sent, s, (awaited \cup confirmed)') = wanted[s]
    BY <1>2 DEF Balance
  <2>1. PICK K : K = awaited \cup confirmed
    OBVIOUS
  <2>2. K \in SUBSET (1..Len(sent)) /\ k \in K /\ (awaited \cup confirmed)' = K \ {k}
    BY <1>1, <1>2, <1>3, <2>1 DEF CatalogTypes
  <2>3. Splits(sent, s, K, k)
    BY <1>1, <2>2, Bounds, CountWithout DEF CatalogTypes
  <2>4. PICK c, d : c = Count(sent, s, K) /\ d = Count(sent, s, K \ {k})
    OBVIOUS
  <2>5. c \in Int /\ d \in Int /\ sent[k][s] \in Nat /\ c = sent[k][s] + d
    <3>1. K \ {k} \in SUBSET (1..Len(sent))
      BY <2>2
    <3> QED
      BY <1>1, <2>2, <2>3, <2>4, <3>1, Bounds, CountType DEF CatalogTypes, Splits
  <2>6. cart[s] + c <= wanted[s] /\ (~disturbed => cart[s] + c = wanted[s])
    BY <2>1, <2>4 DEF CatalogInv, Balance
  <2>7. cart[s] \in Nat /\ wanted[s] \in Int
    BY <1>1 DEF CatalogTypes
  <2>8. ~disturbed => mine = k /\ cart[s] = 0
    BY <1>2, <1>3 DEF CatalogInv, Submitted
  <2>9. cart'[s] = IF mine = k THEN sent[k][s] ELSE cart[s]
    BY <1>2
  <2>10. PICK e : e = Count(sent, s, (awaited \cup confirmed)')
    OBVIOUS
  <2>11. e = d
    BY <2>2, <2>4, <2>10, Zenon
  <2>12. cart'[s] + e <= wanted[s] /\ (~disturbed => cart'[s] + e = wanted[s])
    <3>1. CASE mine = k
      <4>1. cart'[s] = sent[k][s]
        BY <2>9, <3>1
      <4> QED
        BY <2>5, <2>6, <2>7, <2>8, <2>11, <4>1
    <3>2. CASE mine # k
      <4>1. cart'[s] = cart[s]
        BY <2>9, <3>2
      <4> QED
        BY <2>5, <2>6, <2>7, <2>8, <2>11, <3>2, <4>1
    <3> QED
      BY <3>1, <3>2
  <2> QED
    BY <2>10, <2>12, Zenon
<1> QED
  BY <1>2, <1>3, <1>4, <1>5, <1>6, TypesAreNext DEF CatalogInv, Catalog!WaitsForAnswer

LEMMA CatalogInductive == CatalogInv /\ [Catalog!Next]_catalogVars => CatalogInv'
<1> SUFFICES ASSUME CatalogInv, [Catalog!Next]_catalogVars PROVE CatalogInv'
  OBVIOUS
<1>1. CASE UNCHANGED catalogVars
  <2>1. UNCHANGED <<cart, drafts, cartOpen, mine, sent, flying, placed, awaited, confirmed,
                    wanted, disturbed, lost>>
    BY <1>1 DEF catalogVars
  <2>2. CatalogTypes'
    BY <2>1, TypesAre DEF CatalogInv, CatalogTypes
  <2> QED
    BY <2>1, <2>2, TypesAreNext DEF CatalogInv, Catalog!WaitsForAnswer, Submitted, Balance
<1> QED
  BY <1>1, EditDraftStep, AddToCartStep, EditCartStep, ToggleCartStep, SubmitStep, HandleStep,
     SucceedStep, FailStep, LeaveStep DEF Catalog!Next, Catalog!CatalogCard, Catalog!Drawer

(* What the server has placed without the page having given it up is still  *)
(* awaited or was confirmed.                                                *)
LEMMA ExcessExplained == CatalogInv => Catalog!ExcessFollowsLoss
<1> SUFFICES ASSUME CatalogInv, NEW s \in Skus
             PROVE  cart[s] + Count(sent, s, placed \ lost) <= wanted[s]
  BY PiecesCount DEF Catalog!ExcessFollowsLoss
<1>1. CatalogTypes
  BY TypesAre DEF CatalogInv
<1>2. PICK K : K = awaited \cup confirmed
  OBVIOUS
<1>3. PICK A : A = placed \ lost
  OBVIOUS
<1>4. A \in SUBSET K /\ K \in SUBSET (1..Len(sent)) /\ A \in SUBSET (1..Len(sent))
  BY <1>1, <1>2, <1>3 DEF CatalogInv, Submitted, CatalogTypes
<1>5. Count(sent, s, A) <= Count(sent, s, K)
  BY <1>1, <1>4, Bounds, CountGrows DEF CatalogTypes
<1>6. Count(sent, s, A) \in Int /\ Count(sent, s, K) \in Int
  BY <1>1, <1>4, Bounds, CountType DEF CatalogTypes
<1>7. cart[s] + Count(sent, s, K) <= wanted[s] /\ cart[s] \in Nat /\ wanted[s] \in Int
  BY <1>1, <1>2 DEF CatalogInv, Balance, CatalogTypes
<1> QED
  BY <1>3, <1>5, <1>6, <1>7

-----------------------------------------------------------------------------
(* The order queue: ReviewQueue. *)

LEMMA QueueBounds ==
  /\ Tabs \subseteq {"pending", "approved", "rejected"} /\ "pending" \in Tabs
  /\ MaxOrders \in Nat /\ PageSize \in Nat \ {0} /\ Attempts \in Nat \ {0}
  /\ None \notin Nat /\ None \notin Queue!Orders /\ Queue!Orders \subseteq Nat
  /\ IsFiniteSet(Queue!Orders) /\ Cardinality(Queue!Orders) = MaxOrders
<1>1. MaxOrders \in Nat /\ None \notin Nat
  BY ScreensAssumption DEF Queue!QueueAssumption
<1>2. IsFiniteSet(1..MaxOrders) /\ Cardinality(1..MaxOrders) = MaxOrders
  BY <1>1, FS_Interval
<1> QED
  BY <1>1, <1>2, ScreensAssumption DEF Queue!QueueAssumption, Queue!Orders

LEMMA SameCardinality == \A S : Queue!Cardinality(S) = Cardinality(S)
BY Zenon DEF Queue!Cardinality, Cardinality

(* A page holds PageSize orders at most: no two of its orders have the same *)
(* number of newer ones.                                                    *)
LEMMA PageSmall ==
  ASSUME NEW S \in SUBSET Queue!Orders, NEW p \in Nat \ {0}
  PROVE  /\ Queue!PageOf(S, p) \in SUBSET S
         /\ Cardinality(Queue!PageOf(S, p)) <= PageSize
<1> DEFINE rank(o) == Cardinality(Queue!Newer(S, o))
           low == (p - 1) * PageSize
           P == Queue!PageOf(S, p)
           I == low..(low + PageSize - 1)
<1>1. low \in Nat /\ p * PageSize = low + PageSize /\ PageSize \in Nat
  <2>1. PICK m \in Nat : p = m + 1 /\ p - 1 = m
    OBVIOUS
  <2>2. m * PageSize \in Nat /\ (m + 1) * PageSize = m * PageSize + PageSize
    BY QueueBounds
  <2> QED
    BY <2>1, <2>2, QueueBounds
<1>2. P \in SUBSET S /\ \A o \in P : rank(o) \in I
  <2>1. P = {o \in S : rank(o) \in low..(p * PageSize - 1)}
    BY SameCardinality, Zenon DEF Queue!PageOf
  <2> HIDE DEF rank, low, P
  <2> QED
    BY <1>1, <2>1
<1>3. \A o \in S : IsFiniteSet(Queue!Newer(S, o))
  BY QueueBounds, FS_Subset DEF Queue!Newer
<1>4. \A m \in S, n \in S : m < n => rank(n) < rank(m)
  <2> SUFFICES ASSUME NEW m \in S, NEW n \in S, m < n PROVE rank(n) < rank(m)
    OBVIOUS
  <2>0. m \in Nat /\ n \in Nat /\ \A o \in S : o \in Nat
    BY QueueBounds
  <2>1. \A o \in S : o > n => o > m
    BY <2>0
  <2>2. /\ Queue!Newer(S, n) \subseteq Queue!Newer(S, m)
        /\ n \in Queue!Newer(S, m) /\ n \notin Queue!Newer(S, n)
    <3>1. Queue!Newer(S, n) \subseteq Queue!Newer(S, m)
      BY <2>1, Zenon DEF Queue!Newer
    <3>2. n > m /\ ~(n > n)
      BY <2>0
    <3> QED
      BY <3>1, <3>2, Zenon DEF Queue!Newer
  <2>3. Queue!Newer(S, n) # Queue!Newer(S, m)
    BY <2>2
  <2>4. IsFiniteSet(Queue!Newer(S, m))
    BY <1>3
  <2>5. PICK A, B : A = Queue!Newer(S, n) /\ B = Queue!Newer(S, m)
    OBVIOUS
  <2>6. /\ Cardinality(A) \in Nat /\ Cardinality(B) \in Nat
        /\ Cardinality(A) <= Cardinality(B) /\ Cardinality(A) # Cardinality(B)
    BY <2>2, <2>3, <2>4, <2>5, FS_Subset, FS_CardinalityType
  <2> QED
    BY <2>5, <2>6
<1>5. \A m \in P, n \in P : rank(m) = rank(n) => m = n
  <2> SUFFICES ASSUME NEW m \in P, NEW n \in P, rank(m) = rank(n), m # n PROVE FALSE
    OBVIOUS
  <2>1. m \in S /\ n \in S /\ rank(m) \in Nat /\ rank(n) \in Nat
    BY <1>2, <1>3, FS_CardinalityType
  <2>2. m < n \/ n < m
    BY <2>1, QueueBounds
  <2> QED
    BY <1>4, <2>1, <2>2
<1> HIDE DEF rank, P, I
<1> DEFINE f == [o \in P |-> rank(o)]
<1>6. f \in Injection(P, I)
  BY <1>2, <1>5 DEF Injection, IsInjective
<1>7. IsFiniteSet(I) /\ Cardinality(I) = PageSize
  BY <1>1, FS_Interval DEF I
<1>8. Cardinality(P) <= Cardinality(I)
  BY <1>6, <1>7, FS_Injection, Zenon
<1> QED
  BY <1>2, <1>7, <1>8 DEF P

LEMMA MatchingFinite ==
  \A t : Queue!Matching(t) \in SUBSET Queue!Orders /\ Cardinality(Queue!Matching(t)) \in 0..MaxOrders
<1> SUFFICES ASSUME NEW t
             PROVE  /\ Queue!Matching(t) \in SUBSET Queue!Orders
                    /\ Cardinality(Queue!Matching(t)) \in 0..MaxOrders
  OBVIOUS
<1>1. Queue!Matching(t) \in SUBSET Queue!Orders
  BY DEF Queue!Matching
<1>2. Cardinality(Queue!Matching(t)) \in Nat /\ Cardinality(Queue!Matching(t)) <= MaxOrders
  BY <1>1, QueueBounds, FS_Subset, FS_CardinalityType
<1> QED
  BY <1>1, <1>2, QueueBounds

(* A page that a list of at most MaxOrders offers. *)
LEMMA PagesCounted ==
  ASSUME NEW t \in 0..MaxOrders, NEW p \in 1..Queue!TotalPages(t)
  PROVE  p \in 1..(Queue!TotalPages(MaxOrders) + 1) /\ p \in Nat \ {0}
<1>1. /\ PageSize \in Nat \ {0} /\ MaxOrders \in Nat
  BY QueueBounds
<1> DEFINE a == t + PageSize - 1
           b == MaxOrders + PageSize - 1
<1>2. a \in Nat /\ b \in Nat /\ a <= b
  BY <1>1
<1> HIDE DEF a, b
<1>3. PICK x \in Nat, y \in Nat : x = a \div PageSize /\ y = b \div PageSize
  BY <1>1, <1>2
<1>4. x <= y
  <2>1. x * PageSize <= a /\ b < (y + 1) * PageSize
    BY <1>1, <1>2, <1>3
  <2>2. SUFFICES ASSUME y + 1 <= x PROVE FALSE
    BY <1>3
  <2>3. (y + 1) * PageSize <= x * PageSize
    BY <1>1, <1>3, <2>2
  <2> QED
    BY <1>1, <1>2, <1>3, <2>1, <2>3
<1> QED
  BY <1>3, <1>4 DEF a, b, Queue!TotalPages

LEMMA FirstPage == 1 \in 1..(Queue!TotalPages(MaxOrders) + 1)
<1>1. PICK m \in Nat : m = MaxOrders + PageSize - 1
  BY QueueBounds
<1>2. m \div PageSize \in Nat
  BY QueueBounds
<1> QED
  BY <1>1, <1>2 DEF Queue!TotalPages

(* The literal records, once and for all. *)
LEMMA NoCallIs ==
  /\ Queue!NoCall \in Queue!Calls /\ Queue!NoCall.at = "none"
  /\ Queue!NoCall.order = None /\ Queue!NoCall.remarks = None
BY DEF Queue!NoCall, Queue!Calls

IsCall(c, o, r) ==
  c \in Queue!Calls /\ c.at = "sent" /\ c.order = o /\ c.remarks = r /\ c # Queue!NoCall

LEMMA CallIs ==
  ASSUME NEW o \in Queue!Orders, NEW r \in Queue!Orders \cup {None}, NEW c, c = Queue!Call(o, r)
  PROVE  IsCall(c, o, r)
<1>1. c \in Queue!Calls /\ c.at = "sent" /\ c.order = o /\ c.remarks = r
  BY DEF Queue!Call, Queue!Calls
<1> QED
  BY <1>1, NoCallIs DEF IsCall

IsAnswered(d, c) ==
  /\ d \in Queue!Calls /\ d.at \in {"done", "failed"}
  /\ d.order = c.order /\ d.remarks = c.remarks /\ d # Queue!NoCall

LEMMA CallAnswered ==
  ASSUME NEW c \in Queue!Calls, NEW at \in {"done", "failed"}, NEW d, d = [c EXCEPT !.at = at]
  PROVE  IsAnswered(d, c)
<1>1. d \in Queue!Calls /\ d.at = at /\ d.order = c.order /\ d.remarks = c.remarks
  BY DEF Queue!Calls
<1> QED
  BY <1>1, NoCallIs DEF IsAnswered

LEMMA NoFetchIs ==
  /\ Queue!NoFetch \in Queue!Fetches /\ Queue!NoFetch.at = "idle"
  /\ Queue!NoFetch.items = {} /\ Queue!NoFetch.read = FALSE /\ Queue!NoFetch.first = FALSE
<1>1. 0 \in 0..MaxOrders /\ 1 \in Nat \ {0} /\ "pending" \in Tabs /\ {} \in SUBSET Queue!Orders
  BY QueueBounds
<1> QED
  BY <1>1 DEF Queue!NoFetch, Queue!Fetches

IsAsked(a, t, p, first) ==
  /\ a \in Queue!Fetches /\ a.at = "sent" /\ a.tab = t /\ a.page = p
  /\ a.items = {} /\ a.read = FALSE /\ a.first = first

LEMMA AskedIs ==
  ASSUME NEW t \in Tabs, NEW p \in Nat \ {0}, NEW first \in BOOLEAN, NEW a,
         a = Queue!Asked(t, p, first)
  PROVE  IsAsked(a, t, p, first)
<1>1. PICK n \in Queue!Fetches : n = Queue!NoFetch
  BY NoFetchIs
<1>2. n.items = {} /\ n.read = FALSE
  BY <1>1, NoFetchIs
<1>3. a = [n EXCEPT !.at = "sent", !.tab = t, !.page = p, !.first = first]
  BY <1>1 DEF Queue!Asked
<1> QED
  BY <1>2, <1>3 DEF Queue!Fetches, IsAsked

LEMMA NoItems == Cardinality({}) <= PageSize
BY FS_EmptySet, QueueBounds

-----------------------------------------------------------------------------
(* A call that was made is for an order. *)
Asking(c) == c # Queue!NoCall => c.at \in {"sent", "done", "failed"} /\ c.order \in Queue!Orders

(* Before remarks were kept by Cancel, remarks are those of the order.      *)
RemarksOK ==
  ~kept => /\ remarks \in {None, rejecting} /\ reject.remarks \in {None, reject.order}
           /\ \A o \in Queue!Orders : remarkOf[o] \in {None, o}

(* What was decided is decided at the server. *)
DecidedOK ==
  /\ \A o \in decided : status[o] \in {"approved", "rejected"}
  /\ approve.at = "done" => status[approve.order] \in {"approved", "rejected"}
  /\ reject.at = "done" => status[reject.order] \in {"approved", "rejected"}

(* No decision is under way during a first request for a page, so each is   *)
(* answered by a new request, which reads after it.                         *)
ListOK ==
  ~moved =>
    /\ Queue!FirstFetch => approve = Queue!NoCall /\ reject = Queue!NoCall
    /\ fetch.at = "sent" /\ fetch.read /\ fetch.tab = "pending" => decided \cap fetch.items = {}
    /\ fetch.at = "idle" => decided \cap Queue!Rows("pending") = {}

(* The types, in parts that an action leaves alone or does not. *)
Jobs == [order : Queue!Orders, left : 1..(Attempts + 1), download : BOOLEAN]

ServerTypes ==
  /\ status \in [Queue!Orders -> Queue!Statuses \cup {"unplaced"}]
  /\ remarkOf \in [Queue!Orders -> Queue!Orders \cup {None}]

ListTypes ==
  /\ tab \in Tabs /\ page \in 1..(Queue!TotalPages(MaxOrders) + 1) /\ page \in Nat \ {0}
  /\ data \in Queue!Lists /\ Cardinality(data.items) <= PageSize
  /\ fetch \in Queue!Fetches /\ Cardinality(fetch.items) <= PageSize

DecisionTypes ==
  /\ approve \in Queue!Calls /\ reject \in Queue!Calls
  /\ rejecting \in Queue!Orders \cup {None} /\ remarks \in Queue!Orders \cup {None}
  /\ Asking(approve) /\ Asking(reject)

DownloadsOK ==
  /\ jobs \in Seq(Jobs) /\ busy \in Queue!Orders \cup {None}
  /\ busy # None => \E j \in DOMAIN jobs : jobs[j].download /\ jobs[j].order = busy

HistoryTypes == decided \in SUBSET Queue!Orders /\ moved \in BOOLEAN /\ kept \in BOOLEAN

(* The inductive invariant of the order queue. *)
QueueInv ==
  /\ ServerTypes /\ ListTypes /\ DecisionTypes /\ DownloadsOK /\ HistoryTypes
  /\ Queue!DialogAwaitsItsAnswer /\ RemarksOK /\ DecidedOK /\ ListOK

LEMMA QueueInvSuffices ==
  QueueInv => /\ Queue!TypeOK /\ Queue!DialogAwaitsItsAnswer /\ Queue!BusyIsWaiting
              /\ Queue!RemarksFollowCancel /\ Queue!OwnDecisionsShow
<1> SUFFICES ASSUME QueueInv
             PROVE  /\ Queue!TypeOK /\ Queue!DialogAwaitsItsAnswer /\ Queue!BusyIsWaiting
                    /\ Queue!RemarksFollowCancel /\ Queue!OwnDecisionsShow
  OBVIOUS
<1> USE DEF QueueInv
<1>1. Queue!TypeOK
  BY SameCardinality DEF Queue!TypeOK, ServerTypes, ListTypes, DecisionTypes, DownloadsOK,
     HistoryTypes, Jobs
<1>2. Queue!BusyIsWaiting
  BY DEF Queue!BusyIsWaiting, DownloadsOK
<1>3. Queue!RemarksFollowCancel
  BY DEF Queue!RemarksFollowCancel, RemarksOK, HistoryTypes
<1>4. Queue!OwnDecisionsShow
  BY DEF Queue!OwnDecisionsShow, ListOK
<1> QED
  BY <1>1, <1>2, <1>3, <1>4

LEMMA InitQueue == Queue!Init => QueueInv
<1> SUFFICES ASSUME Queue!Init PROVE QueueInv
  OBVIOUS
<1>1. /\ status = [o \in Queue!Orders |-> "unplaced"] /\ remarkOf = [o \in Queue!Orders |-> None]
      /\ tab = "pending" /\ page = 1 /\ fetch = Queue!Asked("pending", 1, TRUE)
      /\ approve = Queue!NoCall /\ rejecting = None /\ remarks = None /\ reject = Queue!NoCall
      /\ jobs = <<>> /\ busy = None /\ decided = {} /\ moved = FALSE /\ kept = FALSE
  BY DEF Queue!Init
<1>2. data \in Queue!Lists /\ data.items = {}
  <2>1. 0 \in 0..MaxOrders /\ 1 \in Nat \ {0} /\ "pending" \in Tabs /\ {} \in SUBSET Queue!Orders
    BY QueueBounds
  <2>2. data = [tab |-> "pending", page |-> 1, items |-> {}, total |-> 0]
    BY DEF Queue!Init
  <2> QED
    BY <2>1, <2>2 DEF Queue!Lists
<1>3. /\ fetch \in Queue!Fetches /\ fetch.items = {} /\ fetch.at = "sent" /\ fetch.read = FALSE
  <2>1. "pending" \in Tabs /\ 1 \in Nat \ {0} /\ TRUE \in BOOLEAN
    BY QueueBounds
  <2>2. fetch = Queue!Asked("pending", 1, TRUE)
    BY <1>1
  <2>3. IsAsked(fetch, "pending", 1, TRUE)
    BY <2>1, <2>2, AskedIs, Zenon
  <2> QED
    BY <2>3 DEF IsAsked
<1>4. ServerTypes /\ HistoryTypes
  BY <1>1 DEF ServerTypes, HistoryTypes
<1>5. ListTypes
  <2>1. Cardinality(data.items) <= PageSize /\ Cardinality(fetch.items) <= PageSize
    BY <1>2, <1>3, NoItems, Zenon
  <2>2. tab \in Tabs /\ page = 1 /\ page \in Nat \ {0}
    BY <1>1, QueueBounds
  <2>3. page \in 1..(Queue!TotalPages(MaxOrders) + 1)
    BY <2>2, FirstPage, Zenon
  <2> QED
    BY <1>2, <1>3, <2>1, <2>2, <2>3, Zenon DEF ListTypes
<1>6. DecisionTypes
  BY <1>1, NoCallIs DEF DecisionTypes, Asking
<1>7. DownloadsOK
  BY <1>1 DEF DownloadsOK
<1>8. RemarksOK
  BY <1>1, NoCallIs DEF RemarksOK
<1>9. DecidedOK
  BY <1>1, NoCallIs DEF DecidedOK
<1>10. ListOK
  BY <1>1, <1>3 DEF ListOK
<1> QED
  BY <1>1, <1>4, <1>5, <1>6, <1>7, <1>8, <1>9, <1>10 DEF QueueInv, Queue!DialogAwaitsItsAnswer

-----------------------------------------------------------------------------
(* The server and other users. *)

LEMMA PlaceStep == ASSUME QueueInv, NEW o \in Queue!Orders, Queue!Place(o) PROVE QueueInv'
<1> USE DEF QueueInv
<1>1. /\ status[o] = "unplaced" /\ status' = [status EXCEPT ![o] = "pending"]
      /\ UNCHANGED <<remarkOf, tab, page, data, fetch, approve, rejecting, remarks, reject,
                     jobs, busy, decided, moved, kept>>
  BY DEF Queue!Place, Queue!list, Queue!decision, Queue!downloads, Queue!history
<1>2. ServerTypes' /\ \A a \in Queue!Orders : a # o => status'[a] = status[a]
  BY <1>1 DEF ServerTypes, Queue!Statuses
<1>3. ListTypes' /\ DecisionTypes' /\ DownloadsOK' /\ HistoryTypes'
  BY <1>1 DEF ListTypes, DecisionTypes, Asking, DownloadsOK, HistoryTypes
<1>4. RemarksOK' /\ ListOK' /\ Queue!DialogAwaitsItsAnswer'
  BY <1>1 DEF RemarksOK, ListOK, Queue!FirstFetch, Queue!Rows, Queue!DialogAwaitsItsAnswer
<1>5. DecidedOK'
  <2>1. \A a \in Queue!Orders : status[a] \in {"approved", "rejected"} => status'[a] = status[a]
    BY <1>1, <1>2
  <2>2. /\ decided \subseteq Queue!Orders
        /\ approve.at = "done" => approve.order \in Queue!Orders
        /\ reject.at = "done" => reject.order \in Queue!Orders
    BY NoCallIs DEF HistoryTypes, DecisionTypes, Asking
  <2> QED
    BY <1>1, <2>1, <2>2 DEF DecidedOK
<1> QED
  BY <1>2, <1>3, <1>4, <1>5

LEMMA OtherDecidesStep ==
  ASSUME QueueInv, NEW o \in Queue!Orders, Queue!OtherDecides(o)
  PROVE  QueueInv'
<1> USE DEF QueueInv
<1>1. /\ status[o] = "pending"
      /\ UNCHANGED <<remarkOf, tab, page, data, fetch, approve, rejecting, remarks, reject,
                     jobs, busy, decided, moved, kept>>
  BY DEF Queue!OtherDecides, Queue!list, Queue!decision, Queue!downloads, Queue!history
<1>2. PICK t \in {"approved", "rejected"} : status' = [status EXCEPT ![o] = t]
  BY DEF Queue!OtherDecides
<1>3. ServerTypes' /\ \A a \in Queue!Orders : a # o => status'[a] = status[a]
  BY <1>1, <1>2 DEF ServerTypes, Queue!Statuses
<1>4. ListTypes' /\ DecisionTypes' /\ DownloadsOK' /\ HistoryTypes'
  BY <1>1 DEF ListTypes, DecisionTypes, Asking, DownloadsOK, HistoryTypes
<1>5. RemarksOK' /\ ListOK' /\ Queue!DialogAwaitsItsAnswer'
  BY <1>1 DEF RemarksOK, ListOK, Queue!FirstFetch, Queue!Rows, Queue!DialogAwaitsItsAnswer
<1>6. DecidedOK'
  <2>1. \A a \in Queue!Orders : status[a] \in {"approved", "rejected"} => status'[a] = status[a]
    BY <1>1, <1>3
  <2>2. /\ decided \subseteq Queue!Orders
        /\ approve.at = "done" => approve.order \in Queue!Orders
        /\ reject.at = "done" => reject.order \in Queue!Orders
    BY NoCallIs DEF HistoryTypes, DecisionTypes, Asking
  <2> QED
    BY <1>1, <2>1, <2>2 DEF DecidedOK
<1> QED
  BY <1>3, <1>4, <1>5, <1>6

-----------------------------------------------------------------------------
(* The list. *)

LEMMA OpensStep ==
  ASSUME QueueInv, NEW t \in Tabs, NEW p \in 1..(Queue!TotalPages(MaxOrders) + 1), p \in Nat \ {0},
         Queue!Opens(t, p)
  PROVE  QueueInv'
<1> USE DEF QueueInv
<1>1. /\ tab' = t /\ page' = p /\ fetch' = Queue!Asked(t, p, TRUE)
      /\ moved' = (moved \/ approve # Queue!NoCall \/ reject # Queue!NoCall)
      /\ UNCHANGED <<status, remarkOf, data, approve, rejecting, remarks, reject, jobs, busy,
                     decided, kept>>
  BY DEF Queue!Opens, Queue!server, Queue!decision, Queue!downloads
<1>2. IsAsked(fetch', t, p, TRUE)
  BY <1>1, AskedIs, Zenon
<1>3. ServerTypes' /\ DecisionTypes' /\ DownloadsOK' /\ HistoryTypes'
  BY <1>1 DEF ServerTypes, DecisionTypes, Asking, DownloadsOK, HistoryTypes
<1>4. ListTypes'
  <2>1. Cardinality(fetch'.items) <= PageSize
    BY <1>2, NoItems DEF IsAsked
  <2> QED
    BY <1>1, <1>2, <2>1 DEF ListTypes, IsAsked
<1>5. RemarksOK' /\ DecidedOK' /\ Queue!DialogAwaitsItsAnswer'
  BY <1>1 DEF RemarksOK, DecidedOK, Queue!DialogAwaitsItsAnswer
<1>6. ListOK'
  BY <1>1, <1>2 DEF ListOK, IsAsked, HistoryTypes
<1> QED
  BY <1>3, <1>4, <1>5, <1>6

LEMMA SelectTabStep == ASSUME QueueInv, NEW t \in Tabs, Queue!SelectTab(t) PROVE QueueInv'
<1>1. 1 \in 1..(Queue!TotalPages(MaxOrders) + 1) /\ 1 \in Nat \ {0}
  BY FirstPage
<1>2. Queue!Opens(t, 1)
  BY DEF Queue!SelectTab
<1> QED
  BY <1>1, <1>2, OpensStep

LEMMA TurnStep == ASSUME QueueInv, Queue!Turn PROVE QueueInv'
<1>1. PICK p \in 1..Queue!TotalPages(data.total) : Queue!Opens(tab, p)
  BY DEF Queue!Turn
<1>2. data.total \in 0..MaxOrders /\ tab \in Tabs
  BY DEF QueueInv, ListTypes, Queue!Lists
<1>3. p \in 1..(Queue!TotalPages(MaxOrders) + 1) /\ p \in Nat \ {0}
  BY <1>2, PagesCounted
<1> QED
  BY <1>1, <1>2, <1>3, OpensStep

LEMMA ServeItemsStep == ASSUME QueueInv, Queue!ServeItems PROVE QueueInv'
<1> USE DEF QueueInv
<1>1. /\ fetch.at = "sent"
      /\ fetch' = [fetch EXCEPT !.read = TRUE,
                                !.items = Queue!PageOf(Queue!Matching(fetch.tab), fetch.page)]
      /\ UNCHANGED <<status, remarkOf, tab, page, data, approve, rejecting, remarks, reject,
                     jobs, busy, decided, moved, kept>>
  BY DEF Queue!ServeItems, Queue!server, Queue!decision, Queue!downloads, Queue!history
<1>2. PICK items : items = Queue!PageOf(Queue!Matching(fetch.tab), fetch.page)
  OBVIOUS
<1>3. fetch.page \in Nat \ {0} /\ fetch \in Queue!Fetches
  BY DEF ListTypes, Queue!Fetches
<1>4. /\ items \in SUBSET Queue!Matching(fetch.tab) /\ items \in SUBSET Queue!Orders
      /\ Cardinality(items) <= PageSize
  BY <1>2, <1>3, MatchingFinite, PageSmall
<1>5. /\ fetch' \in Queue!Fetches /\ fetch'.items = items /\ fetch'.at = fetch.at
      /\ fetch'.tab = fetch.tab /\ fetch'.first = fetch.first
  BY <1>1, <1>2, <1>3, <1>4 DEF Queue!Fetches
<1>6. ServerTypes' /\ DecisionTypes' /\ DownloadsOK' /\ HistoryTypes'
  BY <1>1 DEF ServerTypes, DecisionTypes, Asking, DownloadsOK, HistoryTypes
<1>7. ListTypes'
  BY <1>1, <1>4, <1>5 DEF ListTypes
<1>8. RemarksOK' /\ DecidedOK' /\ Queue!DialogAwaitsItsAnswer'
  BY <1>1 DEF RemarksOK, DecidedOK, Queue!DialogAwaitsItsAnswer
<1>9. ListOK'
  <2>1. fetch.tab = "pending" => \A o \in items : status[o] = "pending"
    BY <1>4 DEF Queue!Matching
  <2>2. fetch.tab = "pending" => decided \cap items = {}
    BY <2>1 DEF DecidedOK
  <2> QED
    BY <1>1, <1>5, <2>2 DEF ListOK, Queue!FirstFetch
<1> QED
  BY <1>6, <1>7, <1>8, <1>9

LEMMA ServeCountStep == ASSUME QueueInv, Queue!ServeCount PROVE QueueInv'
<1> USE DEF QueueInv
<1>1. /\ fetch.at = "sent"
      /\ fetch' = [fetch EXCEPT !.counted = TRUE,
                                !.total = Queue!Cardinality(Queue!Matching(fetch.tab))]
      /\ UNCHANGED <<status, remarkOf, tab, page, data, approve, rejecting, remarks, reject,
                     jobs, busy, decided, moved, kept>>
  BY DEF Queue!ServeCount, Queue!server, Queue!decision, Queue!downloads, Queue!history
<1>2. PICK total : total = Queue!Cardinality(Queue!Matching(fetch.tab))
  OBVIOUS
<1>3. total \in 0..MaxOrders
  BY <1>2, SameCardinality, MatchingFinite
<1>4. /\ fetch' \in Queue!Fetches /\ fetch'.items = fetch.items /\ fetch'.at = fetch.at
      /\ fetch'.tab = fetch.tab /\ fetch'.first = fetch.first /\ fetch'.read = fetch.read
  BY <1>1, <1>2, <1>3 DEF ListTypes, Queue!Fetches
<1>5. ServerTypes' /\ DecisionTypes' /\ DownloadsOK' /\ HistoryTypes'
  BY <1>1 DEF ServerTypes, DecisionTypes, Asking, DownloadsOK, HistoryTypes
<1>6. ListTypes'
  BY <1>1, <1>4 DEF ListTypes
<1>7. RemarksOK' /\ DecidedOK' /\ Queue!DialogAwaitsItsAnswer'
  BY <1>1 DEF RemarksOK, DecidedOK, Queue!DialogAwaitsItsAnswer
<1>8. ListOK'
  BY <1>1, <1>4 DEF ListOK, Queue!FirstFetch
<1> QED
  BY <1>5, <1>6, <1>7, <1>8

LEMMA ReceiveStep == ASSUME QueueInv, Queue!Receive PROVE QueueInv'
<1> USE DEF QueueInv
<1>1. /\ fetch.at = "sent" /\ fetch.read /\ fetch' = Queue!NoFetch
      /\ data' = [tab |-> fetch.tab, page |-> fetch.page, items |-> fetch.items,
                  total |-> fetch.total]
      /\ UNCHANGED <<status, remarkOf, tab, page, approve, rejecting, remarks, reject,
                     jobs, busy, decided, moved, kept>>
  BY DEF Queue!Receive, Queue!server, Queue!decision, Queue!downloads, Queue!history
<1>2. data' \in Queue!Lists /\ data'.items = fetch.items /\ data'.tab = fetch.tab
  BY <1>1 DEF ListTypes, Queue!Fetches, Queue!Lists
<1>3. fetch' \in Queue!Fetches /\ fetch'.items = {} /\ fetch'.at = "idle"
  BY <1>1, NoFetchIs
<1>4. ServerTypes' /\ DecisionTypes' /\ DownloadsOK' /\ HistoryTypes'
  BY <1>1 DEF ServerTypes, DecisionTypes, Asking, DownloadsOK, HistoryTypes
<1>5. ListTypes'
  <2>1. Cardinality(fetch'.items) <= PageSize
    BY <1>3, NoItems
  <2> QED
    BY <1>1, <1>2, <1>3, <2>1 DEF ListTypes
<1>6. RemarksOK' /\ DecidedOK' /\ Queue!DialogAwaitsItsAnswer'
  BY <1>1 DEF RemarksOK, DecidedOK, Queue!DialogAwaitsItsAnswer
<1>7. ListOK'
  BY <1>1, <1>2, <1>3 DEF ListOK, Queue!FirstFetch, Queue!Rows
<1> QED
  BY <1>4, <1>5, <1>6, <1>7

LEMMA ReloadStep == ASSUME QueueInv, Queue!Reload PROVE QueueInv'
<1> USE DEF QueueInv
<1>1. /\ fetch.at = "idle" /\ fetch' = Queue!Asked(tab, page, FALSE)
      /\ UNCHANGED <<status, remarkOf, tab, page, data, approve, rejecting, remarks, reject,
                     jobs, busy, decided, moved, kept>>
  BY DEF Queue!Reload, Queue!server, Queue!decision, Queue!downloads, Queue!history
<1>2. IsAsked(fetch', tab, page, FALSE)
  <2>1. tab \in Tabs /\ page \in Nat \ {0} /\ FALSE \in BOOLEAN
    BY DEF ListTypes
  <2> QED
    BY <1>1, <2>1, AskedIs, Zenon
<1>3. ServerTypes' /\ DecisionTypes' /\ DownloadsOK' /\ HistoryTypes'
  BY <1>1 DEF ServerTypes, DecisionTypes, Asking, DownloadsOK, HistoryTypes
<1>4. ListTypes'
  <2>1. Cardinality(fetch'.items) <= PageSize
    BY <1>2, NoItems DEF IsAsked
  <2> QED
    BY <1>1, <1>2, <2>1 DEF ListTypes, IsAsked
<1>5. RemarksOK' /\ DecidedOK' /\ Queue!DialogAwaitsItsAnswer'
  BY <1>1 DEF RemarksOK, DecidedOK, Queue!DialogAwaitsItsAnswer
<1>6. ListOK'
  BY <1>1, <1>2 DEF ListOK, IsAsked, Queue!FirstFetch
<1> QED
  BY <1>3, <1>4, <1>5, <1>6

(* What an answered decision asks for: nothing new during a first request,  *)
(* else the page anew.                                                      *)
IsRefetched(f) ==
  /\ f \in Queue!Fetches /\ Cardinality(f.items) <= PageSize /\ f.at = "sent"
  /\ ~Queue!FirstFetch => ~f.first /\ ~f.read

LEMMA RefetchedIs == ASSUME QueueInv PROVE IsRefetched(Queue!Refetched)
<1>1. CASE Queue!FirstFetch
  BY <1>1 DEF QueueInv, ListTypes, IsRefetched, Queue!Refetched, Queue!FirstFetch
<1>2. CASE ~Queue!FirstFetch
  <2>1. PICK f : f = Queue!Asked(tab, page, FALSE)
    OBVIOUS
  <2>2. tab \in Tabs /\ page \in Nat \ {0} /\ FALSE \in BOOLEAN
    BY DEF QueueInv, ListTypes
  <2>3. IsAsked(f, tab, page, FALSE)
    BY <2>1, <2>2, AskedIs, Zenon
  <2>4. Cardinality(f.items) <= PageSize
    BY <2>3, NoItems DEF IsAsked
  <2>5. Queue!Refetched = f
    BY <1>2, <2>1 DEF Queue!Refetched
  <2> QED
    BY <2>3, <2>4, <2>5 DEF IsAsked, IsRefetched
<1> QED
  BY <1>1, <1>2

(* One job more, and one job less. *)
IsAdded(r, q, job) ==
  /\ r \in Seq(Jobs) /\ \A j \in DOMAIN q : j \in DOMAIN r /\ r[j] = q[j]
  /\ \E j \in DOMAIN r : r[j] = job

LEMMA JobAdded ==
  ASSUME NEW q \in Seq(Jobs), NEW job \in Jobs, NEW r, r = Append(q, job)
  PROVE  IsAdded(r, q, job)
<1>1. r \in Seq(Jobs) /\ Len(r) = Len(q) + 1 /\ Len(q) \in Nat
  OBVIOUS
<1>2. r[Len(q) + 1] = job /\ \A j \in 1..Len(q) : r[j] = q[j]
  OBVIOUS
<1>3. DOMAIN r = 1..Len(r) /\ DOMAIN q = 1..Len(q)
  BY <1>1
<1> QED
  BY <1>1, <1>2, <1>3 DEF IsAdded

IsJoined(r, a, b) ==
  /\ r \in Seq(Jobs) /\ Len(r) = Len(a) + Len(b)
  /\ \A i \in 1..Len(a) : r[i] = a[i]
  /\ \A i \in 1..Len(b) : r[Len(a) + i] = b[i]

LEMMA Joined ==
  ASSUME NEW a \in Seq(Jobs), NEW b \in Seq(Jobs), NEW r, r = a \o b
  PROVE  IsJoined(r, a, b)
BY DEF IsJoined

IsRemoved(r, q, j) ==
  /\ r \in Seq(Jobs)
  /\ \A i \in DOMAIN q : i # j => \E k \in DOMAIN r : r[k] = q[i]

LEMMA JobRemoved ==
  ASSUME NEW q \in Seq(Jobs), NEW j \in DOMAIN q, NEW r, r = Queue!RemoveAt(q, j)
  PROVE  IsRemoved(r, q, j)
<1>1. PICK a, b : a = SubSeq(q, 1, j - 1) /\ b = SubSeq(q, j + 1, Len(q))
  OBVIOUS
<1>2. j \in 1..Len(q) /\ Len(q) \in Nat /\ DOMAIN q = 1..Len(q)
  OBVIOUS
<1>3. /\ a \in Seq(Jobs) /\ Len(a) = j - 1 /\ \A i \in 1..(j - 1) : a[i] = q[i]
  BY <1>1, <1>2
<1>4. /\ b \in Seq(Jobs) /\ Len(b) = Len(q) - j
      /\ \A i \in 1..(Len(q) - j) : b[i] = q[i + j]
  BY <1>1, <1>2
<1>5. r = a \o b
  BY <1>1 DEF Queue!RemoveAt
<1>6. /\ r \in Seq(Jobs) /\ Len(r) = Len(a) + Len(b)
      /\ \A i \in 1..Len(a) : r[i] = a[i]
      /\ \A i \in 1..Len(b) : r[Len(a) + i] = b[i]
  <2>1. IsJoined(r, a, b)
    BY <1>3, <1>4, <1>5, Joined, Zenon
  <2> QED
    BY <2>1 DEF IsJoined
<1>7. DOMAIN r = 1..Len(r)
  BY <1>6
<1>8. ASSUME NEW i \in DOMAIN q, i # j PROVE \E k \in DOMAIN r : r[k] = q[i]
  <2>0. i \in 1..Len(q)
    BY <1>2
  <2>1. CASE i < j
    <3>1. i \in 1..(j - 1) /\ i \in 1..Len(a) /\ i \in 1..(Len(a) + Len(b))
      BY <1>2, <1>3, <1>4, <2>0, <2>1
    <3>2. r[i] = q[i] /\ i \in DOMAIN r
      BY <1>3, <1>6, <1>7, <3>1
    <3> QED
      BY <3>2
  <2>2. CASE i > j
    <3>1. PICK k : k = i - j
      OBVIOUS
    <3>2. /\ k \in 1..(Len(q) - j) /\ k \in 1..Len(b) /\ k + j = i
          /\ Len(a) + k \in 1..(Len(a) + Len(b))
      BY <1>2, <1>3, <1>4, <2>0, <2>2, <3>1
    <3>3. r[Len(a) + k] = b[k] /\ b[k] = q[k + j] /\ Len(a) + k \in DOMAIN r
      BY <1>4, <1>6, <1>7, <3>2
    <3> QED
      BY <3>2, <3>3
  <2> QED
    BY <1>2, <1>8, <2>0, <2>1, <2>2
<1> QED
  BY <1>6, <1>8 DEF IsRemoved

-----------------------------------------------------------------------------
(* Approvals. *)

LEMMA ApproveStep == ASSUME QueueInv, NEW o \in Queue!Orders, Queue!Approve(o) PROVE QueueInv'
<1> USE DEF QueueInv
<1>1. /\ approve = Queue!NoCall /\ approve' = Queue!Call(o, None)
      /\ moved' = (moved \/ Queue!FirstFetch)
      /\ UNCHANGED <<status, remarkOf, tab, page, data, fetch, rejecting, remarks, reject,
                     jobs, busy, decided, kept>>
  BY DEF Queue!Approve, Queue!server, Queue!list, Queue!downloads
<1>2. IsCall(approve', o, None)
  BY <1>1, CallIs, Zenon
<1>3. ServerTypes' /\ ListTypes' /\ DownloadsOK' /\ HistoryTypes'
  BY <1>1 DEF ServerTypes, ListTypes, DownloadsOK, HistoryTypes, Queue!FirstFetch, Queue!Fetches
<1>4. DecisionTypes'
  BY <1>1, <1>2 DEF DecisionTypes, Asking, IsCall
<1>5. RemarksOK' /\ DecidedOK' /\ Queue!DialogAwaitsItsAnswer'
  BY <1>1, <1>2 DEF RemarksOK, DecidedOK, Queue!DialogAwaitsItsAnswer, IsCall
<1>6. ListOK'
  BY <1>1 DEF ListOK, Queue!FirstFetch, Queue!Rows
<1> QED
  BY <1>3, <1>4, <1>5, <1>6

LEMMA ServeApproveStep == ASSUME QueueInv, Queue!ServeApprove PROVE QueueInv'
<1> USE DEF QueueInv
<1>1. /\ approve.at = "sent"
      /\ UNCHANGED <<remarkOf, tab, page, data, fetch, rejecting, remarks, reject,
                     jobs, busy, decided, moved, kept>>
  BY DEF Queue!ServeApprove, Queue!list, Queue!downloads, Queue!history
<1>2. approve # Queue!NoCall /\ approve.order \in Queue!Orders /\ approve \in Queue!Calls
  BY <1>1, NoCallIs DEF DecisionTypes, Asking
<1>3. PICK at \in {"done", "failed"} :
        /\ approve' = [approve EXCEPT !.at = at]
        /\ \/ at = "failed" /\ status' = status
           \/ /\ status[approve.order] \in {"pending", "approved"}
              /\ status' = [status EXCEPT ![approve.order] = "approved"]
  BY DEF Queue!ServeApprove
<1>4. IsAnswered(approve', approve) /\ approve'.at = at
  <2>1. approve'.at = at
    BY <1>2, <1>3 DEF Queue!Calls
  <2> QED
    BY <1>2, <1>3, <2>1, CallAnswered
<1>5. /\ ServerTypes'
      /\ \A a \in Queue!Orders : status[a] \in {"approved", "rejected"} => status'[a] = status[a]
      /\ approve'.at = "done" => status'[approve.order] = "approved"
  <2>1. CASE status' = status /\ at = "failed"
    BY <1>1, <1>4, <2>1 DEF ServerTypes
  <2>2. CASE /\ status[approve.order] \in {"pending", "approved"}
             /\ status' = [status EXCEPT ![approve.order] = "approved"]
    <3>1. /\ status'[approve.order] = "approved"
          /\ \A a \in Queue!Orders : a # approve.order => status'[a] = status[a]
      BY <1>2, <2>2 DEF ServerTypes
    <3>2. ServerTypes'
      BY <1>1, <1>2, <2>2 DEF ServerTypes, Queue!Statuses
    <3> QED
      BY <2>2, <3>1, <3>2
  <2> QED
    BY <1>3, <2>1, <2>2
<1>6. ListTypes' /\ DownloadsOK' /\ HistoryTypes'
  BY <1>1 DEF ListTypes, DownloadsOK, HistoryTypes
<1>7. DecisionTypes'
  BY <1>1, <1>2, <1>4 DEF DecisionTypes, Asking, IsAnswered
<1>8. RemarksOK' /\ Queue!DialogAwaitsItsAnswer'
  BY <1>1 DEF RemarksOK, Queue!DialogAwaitsItsAnswer
<1>9. DecidedOK'
  <2>1. decided \subseteq Queue!Orders /\ (reject.at = "done" => reject.order \in Queue!Orders)
    BY NoCallIs DEF HistoryTypes, DecisionTypes, Asking
  <2>2. approve'.order = approve.order
    BY <1>4 DEF IsAnswered
  <2> QED
    BY <1>1, <1>5, <2>1, <2>2 DEF DecidedOK
<1>10. ListOK'
  BY <1>1, <1>2 DEF ListOK, Queue!FirstFetch, Queue!Rows
<1> QED
  BY <1>5, <1>6, <1>7, <1>8, <1>9, <1>10

LEMMA ApprovedStep == ASSUME QueueInv, Queue!Approved PROVE QueueInv'
<1> USE DEF QueueInv
<1>1. /\ approve.at = "done" /\ approve' = Queue!NoCall /\ fetch' = Queue!Refetched
      /\ decided' = decided \cup {approve.order}
      /\ UNCHANGED <<status, remarkOf, tab, page, data, rejecting, remarks, reject, busy,
                     moved, kept>>
  BY DEF Queue!Approved, Queue!server
<1>2. approve # Queue!NoCall /\ approve.order \in Queue!Orders
  BY <1>1, NoCallIs DEF DecisionTypes, Asking
<1>3. IsRefetched(fetch')
  BY <1>1, RefetchedIs
<1>4. ServerTypes' /\ HistoryTypes'
  BY <1>1, <1>2 DEF ServerTypes, HistoryTypes
<1>5. ListTypes'
  BY <1>1, <1>3 DEF ListTypes, IsRefetched
<1>6. DecisionTypes'
  BY <1>1, NoCallIs DEF DecisionTypes, Asking
<1>7. DownloadsOK'
  <2>1. CASE jobs' = jobs
    BY <1>1, <2>1 DEF DownloadsOK
  <2>2. CASE jobs' = Append(jobs, Queue!Job(approve.order, Attempts, FALSE))
    <3>1. PICK job : job = Queue!Job(approve.order, Attempts, FALSE)
      OBVIOUS
    <3>2. job \in Jobs
      <4>1. Attempts \in 1..(Attempts + 1)
        BY QueueBounds
      <4> QED
        BY <1>2, <3>1, <4>1 DEF Queue!Job, Jobs
    <3>3. /\ jobs' \in Seq(Jobs)
          /\ \A j \in DOMAIN jobs : j \in DOMAIN jobs' /\ jobs'[j] = jobs[j]
      <4>1. jobs \in Seq(Jobs) /\ jobs' = Append(jobs, job)
        BY <2>2, <3>1 DEF DownloadsOK
      <4>2. IsAdded(jobs', jobs, job)
        BY <3>2, <4>1, JobAdded, Zenon
      <4> QED
        BY <4>2 DEF IsAdded
    <3> QED
      BY <1>1, <3>3 DEF DownloadsOK
  <2> QED
    BY <2>1, <2>2 DEF Queue!Approved
<1>8. RemarksOK' /\ Queue!DialogAwaitsItsAnswer'
  BY <1>1 DEF RemarksOK, Queue!DialogAwaitsItsAnswer
<1>9. DecidedOK'
  BY <1>1, NoCallIs DEF DecidedOK
<1>10. ListOK'
  BY <1>1, <1>2, <1>3 DEF ListOK, IsRefetched, Queue!FirstFetch
<1> QED
  BY <1>4, <1>5, <1>6, <1>7, <1>8, <1>9, <1>10

LEMMA ApproveFailsStep == ASSUME QueueInv, Queue!ApproveFails PROVE QueueInv'
<1> USE DEF QueueInv
<1>1. /\ approve' = Queue!NoCall
      /\ UNCHANGED <<status, remarkOf, tab, page, data, fetch, rejecting, remarks, reject,
                     jobs, busy, decided, moved, kept>>
  BY DEF Queue!ApproveFails, Queue!server, Queue!list, Queue!downloads, Queue!history
<1>2. ServerTypes' /\ ListTypes' /\ DownloadsOK' /\ HistoryTypes'
  BY <1>1 DEF ServerTypes, ListTypes, DownloadsOK, HistoryTypes
<1>3. DecisionTypes'
  BY <1>1, NoCallIs DEF DecisionTypes, Asking
<1>4. RemarksOK' /\ DecidedOK' /\ Queue!DialogAwaitsItsAnswer'
  BY <1>1, NoCallIs DEF RemarksOK, DecidedOK, Queue!DialogAwaitsItsAnswer
<1>5. ListOK'
  BY <1>1 DEF ListOK, Queue!FirstFetch, Queue!Rows
<1> QED
  BY <1>2, <1>3, <1>4, <1>5

-----------------------------------------------------------------------------
(* Rejections. *)

LEMMA OpenRejectStep ==
  ASSUME QueueInv, NEW o \in Queue!Orders, Queue!OpenReject(o)
  PROVE  QueueInv'
<1> USE DEF QueueInv
<1>1. /\ rejecting = None /\ rejecting' = o
      /\ UNCHANGED <<status, remarkOf, tab, page, data, fetch, approve, remarks, reject,
                     jobs, busy, decided, moved, kept>>
  BY DEF Queue!OpenReject, Queue!server, Queue!list, Queue!downloads, Queue!history
<1>2. reject = Queue!NoCall
  BY <1>1, QueueBounds DEF DecisionTypes, Asking, Queue!DialogAwaitsItsAnswer
<1>3. ServerTypes' /\ ListTypes' /\ DownloadsOK' /\ HistoryTypes' /\ DecisionTypes'
  BY <1>1 DEF ServerTypes, ListTypes, DownloadsOK, HistoryTypes, DecisionTypes, Asking
<1>4. RemarksOK' /\ DecidedOK' /\ Queue!DialogAwaitsItsAnswer'
  BY <1>1, <1>2 DEF RemarksOK, DecidedOK, Queue!DialogAwaitsItsAnswer
<1>5. ListOK'
  BY <1>1 DEF ListOK, Queue!FirstFetch, Queue!Rows
<1> QED
  BY <1>3, <1>4, <1>5

LEMMA TypeRemarksStep == ASSUME QueueInv, Queue!TypeRemarks PROVE QueueInv'
<1> USE DEF QueueInv
<1>1. /\ remarks' = rejecting
      /\ UNCHANGED <<status, remarkOf, tab, page, data, fetch, approve, rejecting, reject,
                     jobs, busy, decided, moved, kept>>
  BY DEF Queue!TypeRemarks, Queue!server, Queue!list, Queue!downloads, Queue!history
<1>2. ServerTypes' /\ ListTypes' /\ DownloadsOK' /\ HistoryTypes' /\ DecisionTypes'
  BY <1>1 DEF ServerTypes, ListTypes, DownloadsOK, HistoryTypes, DecisionTypes, Asking
<1>3. RemarksOK' /\ DecidedOK' /\ Queue!DialogAwaitsItsAnswer'
  BY <1>1 DEF RemarksOK, DecidedOK, Queue!DialogAwaitsItsAnswer
<1>4. ListOK'
  BY <1>1 DEF ListOK, Queue!FirstFetch, Queue!Rows
<1> QED
  BY <1>2, <1>3, <1>4

LEMMA CancelRejectStep == ASSUME QueueInv, Queue!CancelReject PROVE QueueInv'
<1> USE DEF QueueInv
<1>1. /\ reject = Queue!NoCall /\ rejecting' = None /\ kept' = (kept \/ remarks # None)
      /\ UNCHANGED <<status, remarkOf, tab, page, data, fetch, approve, remarks, reject,
                     jobs, busy, decided, moved>>
  BY DEF Queue!CancelReject, Queue!Cancels, Queue!server, Queue!list, Queue!downloads
<1>2. ServerTypes' /\ ListTypes' /\ DownloadsOK' /\ HistoryTypes' /\ DecisionTypes'
  BY <1>1 DEF ServerTypes, ListTypes, DownloadsOK, HistoryTypes, DecisionTypes, Asking
<1>3. RemarksOK' /\ DecidedOK' /\ Queue!DialogAwaitsItsAnswer'
  BY <1>1 DEF RemarksOK, DecidedOK, Queue!DialogAwaitsItsAnswer, HistoryTypes
<1>4. ListOK'
  BY <1>1 DEF ListOK, Queue!FirstFetch, Queue!Rows
<1> QED
  BY <1>2, <1>3, <1>4

LEMMA ConfirmRejectStep == ASSUME QueueInv, Queue!ConfirmReject PROVE QueueInv'
<1> USE DEF QueueInv
<1>1. /\ rejecting # None /\ reject' = Queue!Call(rejecting, remarks)
      /\ moved' = (moved \/ Queue!FirstFetch)
      /\ UNCHANGED <<status, remarkOf, tab, page, data, fetch, approve, rejecting, remarks,
                     jobs, busy, decided, kept>>
  BY DEF Queue!ConfirmReject, Queue!server, Queue!list, Queue!downloads
<1>2. IsCall(reject', rejecting, remarks)
  <2>1. rejecting \in Queue!Orders /\ remarks \in Queue!Orders \cup {None}
    BY <1>1 DEF DecisionTypes
  <2> QED
    BY <1>1, <2>1, CallIs, Zenon
<1>3. ServerTypes' /\ ListTypes' /\ DownloadsOK' /\ HistoryTypes'
  BY <1>1 DEF ServerTypes, ListTypes, DownloadsOK, HistoryTypes, Queue!FirstFetch, Queue!Fetches
<1>4. DecisionTypes'
  BY <1>1, <1>2 DEF DecisionTypes, Asking, IsCall
<1>5. RemarksOK' /\ DecidedOK' /\ Queue!DialogAwaitsItsAnswer'
  BY <1>1, <1>2 DEF RemarksOK, DecidedOK, Queue!DialogAwaitsItsAnswer, IsCall
<1>6. ListOK'
  BY <1>1 DEF ListOK, Queue!FirstFetch, Queue!Rows
<1> QED
  BY <1>3, <1>4, <1>5, <1>6

LEMMA ServeRejectStep == ASSUME QueueInv, Queue!ServeReject PROVE QueueInv'
<1> USE DEF QueueInv
<1>1. /\ reject.at = "sent"
      /\ UNCHANGED <<tab, page, data, fetch, approve, rejecting, remarks,
                     jobs, busy, decided, moved, kept>>
  BY DEF Queue!ServeReject, Queue!list, Queue!downloads, Queue!history
<1>2. /\ reject # Queue!NoCall /\ reject.order \in Queue!Orders /\ reject \in Queue!Calls
      /\ reject.remarks \in Queue!Orders \cup {None}
  BY <1>1, NoCallIs DEF DecisionTypes, Asking, Queue!Calls
<1>3. PICK at \in {"done", "failed"} :
        /\ reject' = [reject EXCEPT !.at = at]
        /\ \/ at = "failed" /\ status' = status /\ remarkOf' = remarkOf
           \/ /\ status[reject.order] \in {"pending", "rejected"}
              /\ status' = [status EXCEPT ![reject.order] = "rejected"]
              /\ remarkOf' = IF status[reject.order] = "rejected" THEN remarkOf
                             ELSE [remarkOf EXCEPT ![reject.order] = reject.remarks]
  BY DEF Queue!ServeReject
<1>4. IsAnswered(reject', reject) /\ reject'.at = at
  <2>1. reject'.at = at
    BY <1>2, <1>3 DEF Queue!Calls
  <2> QED
    BY <1>2, <1>3, <2>1, CallAnswered
<1>5. /\ status' \in [Queue!Orders -> Queue!Statuses \cup {"unplaced"}]
      /\ \A a \in Queue!Orders : status[a] \in {"approved", "rejected"} => status'[a] = status[a]
      /\ reject'.at = "done" => status'[reject.order] = "rejected"
  <2>1. CASE status' = status /\ at = "failed"
    BY <1>1, <1>4, <2>1 DEF ServerTypes
  <2>2. CASE /\ status[reject.order] \in {"pending", "rejected"}
             /\ status' = [status EXCEPT ![reject.order] = "rejected"]
    <3>1. /\ status'[reject.order] = "rejected"
          /\ \A a \in Queue!Orders : a # reject.order => status'[a] = status[a]
      BY <1>2, <2>2 DEF ServerTypes
    <3>2. status' \in [Queue!Orders -> Queue!Statuses \cup {"unplaced"}]
      BY <1>2, <2>2 DEF ServerTypes, Queue!Statuses
    <3> QED
      BY <2>2, <3>1, <3>2
  <2> QED
    BY <1>3, <2>1, <2>2
<1>6. /\ remarkOf' \in [Queue!Orders -> Queue!Orders \cup {None}]
      /\ \A a \in Queue!Orders :
           remarkOf'[a] = remarkOf[a] \/ (a = reject.order /\ remarkOf'[a] = reject.remarks)
  <2>1. CASE remarkOf' = remarkOf
    BY <2>1 DEF ServerTypes
  <2>2. CASE remarkOf' = [remarkOf EXCEPT ![reject.order] = reject.remarks]
    BY <1>2, <2>2 DEF ServerTypes
  <2> QED
    BY <1>3, <2>1, <2>2
<1>7. ServerTypes' /\ ListTypes' /\ DownloadsOK' /\ HistoryTypes'
  BY <1>1, <1>5, <1>6 DEF ServerTypes, ListTypes, DownloadsOK, HistoryTypes
<1>8. DecisionTypes' /\ Queue!DialogAwaitsItsAnswer'
  BY <1>1, <1>2, <1>4 DEF DecisionTypes, Asking, IsAnswered, Queue!DialogAwaitsItsAnswer
<1>9. RemarksOK'
  BY <1>1, <1>4, <1>6 DEF RemarksOK, IsAnswered
<1>10. DecidedOK'
  <2>1. decided \subseteq Queue!Orders /\ (approve.at = "done" => approve.order \in Queue!Orders)
    BY NoCallIs DEF HistoryTypes, DecisionTypes, Asking
  <2>2. reject'.order = reject.order
    BY <1>4 DEF IsAnswered
  <2> QED
    BY <1>1, <1>5, <2>1, <2>2 DEF DecidedOK
<1>11. ListOK'
  BY <1>1, <1>2 DEF ListOK, Queue!FirstFetch, Queue!Rows
<1> QED
  BY <1>7, <1>8, <1>9, <1>10, <1>11

LEMMA RejectedStep == ASSUME QueueInv, Queue!Rejected PROVE QueueInv'
<1> USE DEF QueueInv
<1>1. /\ reject.at = "done" /\ reject' = Queue!NoCall /\ fetch' = Queue!Refetched
      /\ rejecting' = None /\ remarks' = None /\ decided' = decided \cup {reject.order}
      /\ UNCHANGED <<status, remarkOf, tab, page, data, approve, jobs, busy, moved, kept>>
  BY DEF Queue!Rejected, Queue!RemarksAfterReject, Queue!server, Queue!downloads
<1>2. reject # Queue!NoCall /\ reject.order \in Queue!Orders
  BY <1>1, NoCallIs DEF DecisionTypes, Asking
<1>3. IsRefetched(fetch')
  BY <1>1, RefetchedIs
<1>4. ServerTypes' /\ HistoryTypes' /\ DownloadsOK'
  BY <1>1, <1>2 DEF ServerTypes, HistoryTypes, DownloadsOK
<1>5. ListTypes'
  BY <1>1, <1>3 DEF ListTypes, IsRefetched
<1>6. DecisionTypes'
  BY <1>1, NoCallIs DEF DecisionTypes, Asking
<1>7. RemarksOK' /\ Queue!DialogAwaitsItsAnswer'
  BY <1>1, NoCallIs DEF RemarksOK, Queue!DialogAwaitsItsAnswer
<1>8. DecidedOK'
  BY <1>1, NoCallIs DEF DecidedOK
<1>9. ListOK'
  BY <1>1, <1>2, <1>3 DEF ListOK, IsRefetched, Queue!FirstFetch
<1> QED
  BY <1>4, <1>5, <1>6, <1>7, <1>8, <1>9

LEMMA RejectFailsStep == ASSUME QueueInv, Queue!RejectFails PROVE QueueInv'
<1> USE DEF QueueInv
<1>1. /\ reject' = Queue!NoCall
      /\ UNCHANGED <<status, remarkOf, tab, page, data, fetch, approve, rejecting, remarks,
                     jobs, busy, decided, moved, kept>>
  BY DEF Queue!RejectFails, Queue!server, Queue!list, Queue!downloads, Queue!history
<1>2. ServerTypes' /\ ListTypes' /\ DownloadsOK' /\ HistoryTypes'
  BY <1>1 DEF ServerTypes, ListTypes, DownloadsOK, HistoryTypes
<1>3. DecisionTypes'
  BY <1>1, NoCallIs DEF DecisionTypes, Asking
<1>4. RemarksOK' /\ DecidedOK' /\ Queue!DialogAwaitsItsAnswer'
  BY <1>1, NoCallIs DEF RemarksOK, DecidedOK, Queue!DialogAwaitsItsAnswer
<1>5. ListOK'
  BY <1>1 DEF ListOK, Queue!FirstFetch, Queue!Rows
<1> QED
  BY <1>2, <1>3, <1>4, <1>5

-----------------------------------------------------------------------------
(* Downloads. *)

LEMMA DownloadStep == ASSUME QueueInv, NEW o \in Queue!Orders, Queue!Download(o) PROVE QueueInv'
<1> USE DEF QueueInv
<1>1. /\ busy' = o /\ jobs' = Append(jobs, Queue!Job(o, Attempts + 1, TRUE))
      /\ UNCHANGED <<status, remarkOf, tab, page, data, fetch, approve, rejecting, remarks,
                     reject, decided, moved, kept>>
  BY DEF Queue!Download, Queue!server, Queue!list, Queue!decision, Queue!history
<1>2. PICK job : job = Queue!Job(o, Attempts + 1, TRUE)
  OBVIOUS
<1>3. job \in Jobs /\ job.download /\ job.order = o
  <2>1. Attempts + 1 \in 1..(Attempts + 1)
    BY QueueBounds
  <2> QED
    BY <1>2, <2>1 DEF Queue!Job, Jobs
<1>4. jobs' \in Seq(Jobs) /\ \E j \in DOMAIN jobs' : jobs'[j] = job
  <2>1. jobs \in Seq(Jobs) /\ jobs' = Append(jobs, job)
    BY <1>1, <1>2 DEF DownloadsOK
  <2>2. IsAdded(jobs', jobs, job)
    BY <1>3, <2>1, JobAdded, Zenon
  <2> QED
    BY <2>2 DEF IsAdded
<1>5. DownloadsOK'
  BY <1>1, <1>3, <1>4 DEF DownloadsOK
<1>6. ServerTypes' /\ ListTypes' /\ HistoryTypes' /\ DecisionTypes'
  BY <1>1 DEF ServerTypes, ListTypes, HistoryTypes, DecisionTypes, Asking
<1>7. RemarksOK' /\ DecidedOK' /\ ListOK' /\ Queue!DialogAwaitsItsAnswer'
  BY <1>1 DEF RemarksOK, DecidedOK, ListOK, Queue!FirstFetch, Queue!Rows,
     Queue!DialogAwaitsItsAnswer
<1> QED
  BY <1>5, <1>6, <1>7

LEMMA PollStep == ASSUME QueueInv, NEW j \in DOMAIN jobs, Queue!Poll(j) PROVE QueueInv'
<1> USE DEF QueueInv
<1>1. /\ UNCHANGED <<status, remarkOf, tab, page, data, fetch, approve, rejecting, remarks,
                     reject, decided, moved, kept>>
  BY DEF Queue!Poll, Queue!server, Queue!list, Queue!decision, Queue!history
<1>2. /\ jobs \in Seq(Jobs) /\ busy \in Queue!Orders \cup {None}
      /\ jobs[j] \in Jobs
  BY DEF DownloadsOK
<1>3. DownloadsOK'
  <2>1. CASE jobs[j].left > 1 /\ jobs' = [jobs EXCEPT ![j].left = @ - 1] /\ busy' = busy
    <3>1. PICK job : job = [jobs[j] EXCEPT !.left = @ - 1]
      OBVIOUS
    <3>2. job \in Jobs /\ job.order = jobs[j].order /\ job.download = jobs[j].download
      <4>1. PICK old \in Jobs : old = jobs[j]
        BY <1>2
      <4>2. old.left - 1 \in 1..(Attempts + 1) /\ job = [old EXCEPT !.left = old.left - 1]
        BY <2>1, <3>1, <4>1, QueueBounds DEF Jobs
      <4> QED
        BY <4>1, <4>2 DEF Jobs
    <3>3. jobs' = [jobs EXCEPT ![j] = job]
      BY <2>1, <3>1
    <3>4. /\ jobs' \in Seq(Jobs) /\ DOMAIN jobs' = DOMAIN jobs /\ jobs'[j] = job
          /\ \A i \in DOMAIN jobs : i # j => jobs'[i] = jobs[i]
      BY <1>2, <3>2, <3>3
    <3> QED
      BY <2>1, <3>2, <3>4 DEF DownloadsOK
  <2>2. CASE /\ jobs' = Queue!RemoveAt(jobs, j)
             /\ \E ready \in BOOLEAN :
                  busy' = IF jobs[j].download THEN Queue!BusyAfter(j, ready) ELSE busy
    <3>1. /\ jobs' \in Seq(Jobs)
          /\ \A i \in DOMAIN jobs : i # j => \E k \in DOMAIN jobs' : jobs'[k] = jobs[i]
      <4>1. IsRemoved(jobs', jobs, j)
        BY <1>2, <2>2, JobRemoved, Zenon
      <4> QED
        BY <4>1 DEF IsRemoved
    <3>2. \/ busy' = None
          \/ busy' = busy /\ (jobs[j].download => busy # jobs[j].order)
      BY <2>2 DEF Queue!BusyAfter
    <3>3. ASSUME busy' # None
          PROVE  \E k \in DOMAIN jobs' : jobs'[k].download /\ jobs'[k].order = busy'
      <4>1. PICK i \in DOMAIN jobs : jobs[i].download /\ jobs[i].order = busy
        BY <3>2, <3>3 DEF DownloadsOK
      <4>2. i # j /\ busy' = busy
        BY <3>2, <3>3, <4>1
      <4> QED
        BY <3>1, <4>1, <4>2
    <3> QED
      BY <1>2, <3>1, <3>2, <3>3 DEF DownloadsOK
  <2> QED
    BY <2>1, <2>2 DEF Queue!Poll
<1>4. ServerTypes' /\ ListTypes' /\ HistoryTypes' /\ DecisionTypes'
  BY <1>1 DEF ServerTypes, ListTypes, HistoryTypes, DecisionTypes, Asking
<1>5. RemarksOK' /\ DecidedOK' /\ ListOK' /\ Queue!DialogAwaitsItsAnswer'
  BY <1>1 DEF RemarksOK, DecidedOK, ListOK, Queue!FirstFetch, Queue!Rows,
     Queue!DialogAwaitsItsAnswer
<1> QED
  BY <1>3, <1>4, <1>5

LEMMA QueueInductive == QueueInv /\ [Queue!Next]_queueVars => QueueInv'
<1> SUFFICES ASSUME QueueInv, [Queue!Next]_queueVars PROVE QueueInv'
  OBVIOUS
<1>1. CASE UNCHANGED queueVars
  BY <1>1 DEF queueVars, QueueInv, ServerTypes, ListTypes, DecisionTypes, Asking, DownloadsOK,
     HistoryTypes, Queue!DialogAwaitsItsAnswer, RemarksOK, DecidedOK, ListOK, Queue!FirstFetch,
     Queue!Rows
<1>2. ASSUME NEW o \in Queue!Orders,
             \/ Queue!Place(o) \/ Queue!OtherDecides(o) \/ Queue!Approve(o)
             \/ Queue!OpenReject(o) \/ Queue!Download(o)
      PROVE  QueueInv'
  BY <1>2, PlaceStep, OtherDecidesStep, ApproveStep, OpenRejectStep, DownloadStep
<1>3. CASE Queue!Answered
  BY <1>3, ServeItemsStep, ServeCountStep, ReceiveStep, ServeApproveStep, ApprovedStep,
     ApproveFailsStep, ServeRejectStep, RejectedStep, RejectFailsStep DEF Queue!Answered
<1>4. ASSUME NEW t \in Tabs, Queue!SelectTab(t) PROVE QueueInv'
  BY <1>4, SelectTabStep
<1>5. CASE Queue!Turn \/ Queue!Reload \/ Queue!TypeRemarks \/ Queue!CancelReject
           \/ Queue!ConfirmReject
  BY <1>5, TurnStep, ReloadStep, TypeRemarksStep, CancelRejectStep, ConfirmRejectStep
<1>6. ASSUME NEW j \in DOMAIN jobs, Queue!Poll(j) PROVE QueueInv'
  BY <1>6, PollStep
<1> QED
  BY <1>1, <1>2, <1>3, <1>4, <1>5, <1>6, Zenon DEF Queue!Next

-----------------------------------------------------------------------------
(* The screens: one page acts at a time and leaves the others alone. *)

ScreensIInv == route \in Routes /\ MastersInv /\ CatalogInv /\ QueueInv

LEMMA InitScreens == ScreensInit => ScreensIInv
BY InitMastersInv, InitCatalog, InitQueue DEF ScreensInit, ScreensIInv

LEMMA ScreensInductive == ScreensIInv /\ [ScreensNext]_allVars => ScreensIInv'
<1> SUFFICES ASSUME ScreensIInv, [ScreensNext]_allVars PROVE ScreensIInv'
  OBVIOUS
<1>1. [Next]_vars /\ [Catalog!Next]_catalogVars /\ [Queue!Next]_queueVars /\ route' = route
  BY DEF ScreensNext, OnCatalog, OnOrders, OnMasters, allVars
<1> QED
  BY <1>1, Inductive, CatalogInductive, QueueInductive DEF ScreensIInv

(* The inductive invariants of the three pages hold beside each other. *)
THEOREM ScreensInvariance == ScreensSpec => []ScreensIInv
  BY InitScreens, ScreensInductive, PTL DEF ScreensSpec

(* What a page shows as under way is: handleSubmitOrder, the rejection's    *)
(* dialog, downloadingOrderId and openEditDialog, with every type.          *)
THEOREM PagesAreHonest == ScreensSpec => []PagesInv
<1>1. ScreensIInv => PagesInv
  <2> SUFFICES ASSUME ScreensIInv PROVE PagesInv
    OBVIOUS
  <2>1. TypeOK /\ DialogKeepsItsRecord
    BY DEF ScreensIInv, MastersInv, ShapeOK, FormOK, Forms, Saves, Records, TypeOK,
           DialogKeepsItsRecord
  <2>2. Catalog!TypeOK /\ Catalog!WaitsForAnswer
    BY DEF ScreensIInv, CatalogInv
  <2>3. Queue!TypeOK /\ Queue!DialogAwaitsItsAnswer /\ Queue!BusyIsWaiting
    BY QueueInvSuffices DEF ScreensIInv
  <2> QED
    BY <2>1, <2>2, <2>3 DEF ScreensIInv, PagesInv, ScreensTypeOK
<1> QED
  BY <1>1, ScreensInvariance, PTL

(* onMutate, onError and onSuccess of DealerCatalogPage.tsx: nothing in the *)
(* cart is multiplied, and left alone nothing is forgotten.                 *)
THEOREM CartConserved == ScreensSpec => []Conservation
<1>1. ScreensIInv => Conservation
  BY BalanceConserves DEF ScreensIInv, CatalogInv, Conservation
<1> QED
  BY <1>1, ScreensInvariance, PTL

(* DealerCatalogPage.tsx and the order service: more is ordered than the    *)
(* cart ever held only by a submission given up but not refused.            *)
THEOREM ExcessOnlyByLoss == ScreensSpec => []ExcessFollowsLoss
<1>1. ScreensIInv => ExcessFollowsLoss
  BY ExcessExplained DEF ScreensIInv, ExcessFollowsLoss
<1> QED
  BY <1>1, ScreensInvariance, PTL

(* HeadOfficeOrdersPage.tsx: remarks reach another order only after Cancel  *)
(* kept them.                                                               *)
THEOREM RemarksReachTheirOrder == ScreensSpec => []RemarksFollowCancel
<1>1. ScreensIInv => RemarksFollowCancel
  BY QueueInvSuffices DEF ScreensIInv, RemarksFollowCancel
<1> QED
  BY <1>1, ScreensInvariance, PTL

(* HeadOfficeOrdersPage.tsx: at rest the queue does not offer as pending    *)
(* what it was told it has decided.                                         *)
THEOREM DecisionsLeaveTheQueue == ScreensSpec => []OwnDecisionsShow
<1>1. ScreensIInv => OwnDecisionsShow
  BY QueueInvSuffices DEF ScreensIInv, OwnDecisionsShow
<1> QED
  BY <1>1, ScreensInvariance, PTL

(* The master data pages beside the others: what is typed into a dialog     *)
(* never ends in another's record, but for the records that saves held      *)
(* while offline and sent under a later dialog wrote.                       *)
THEOREM RecordsBesideScreens == ScreensSpec => []NoForeignValues
<1>1. ScreensIInv => NoForeignValues
  BY DEF ScreensIInv, MastersInv, ShapeOK, StoredOK, Belongs, NoForeignValues, Existing
<1> QED
  BY <1>1, ScreensInvariance, PTL

-----------------------------------------------------------------------------
(* The amounts of an order.                                                *)

(* Quotients are named, so that a step sees no division it need not see.    *)
Twentieth(n) == n \div 20
Tenth(n) == n \div 10

LEMMA TwentiethType ==
  ASSUME NEW n \in Nat
  PROVE  Twentieth(n) \in Nat /\ (n <= 200010 => Twentieth(n) <= 10000)
  BY DEF Twentieth

LEMMA TenthType ==
  ASSUME NEW n \in Nat
  PROVE  Tenth(n) \in Nat /\ (n <= 100000 => Tenth(n) <= 10000)
  BY DEF Tenth

LEMMA RoundIs == ASSUME NEW t \in Nat PROVE Round(t, 10) = Twentieth(2 * t + 10)
<1>1. 2 * 10 = 20
  OBVIOUS
<1> QED
  BY <1>1 DEF Round, Twentieth

Upto(n, m) == n \in 0..m
Pct(b) == Upto(b, Whole)

LEMMA WholeIs == Whole = 10000
  BY DEF Whole

LEMMA UptoIs == ASSUME NEW m \in Nat, NEW n PROVE Upto(n, m) <=> (n \in Nat /\ n <= m)
  BY DEF Upto

LEMMA PctIs == ASSUME NEW b PROVE Pct(b) <=> (b \in Nat /\ b <= 10000)
<1>1. Whole \in Nat /\ Whole = 10000
  BY WholeIs
<1> QED
  BY <1>1, UptoIs DEF Pct

LEMMA AcceptableIs == ASSUME NEW t PROVE Acceptable(t) <=> (t \in Nat /\ t <= 100000)
<1>1. 10 * Whole = 100000
  BY WholeIs
<1> QED
  BY <1>1 DEF Acceptable

LEMMA RoundOfHundreds ==
  ASSUME NEW t, Acceptable(t)
  PROVE  Pct(Round(t, 10)) /\ Pct(Tenth(t))
<1>1. t \in Nat /\ t <= 100000
  BY AcceptableIs
<1>2. 2 * t + 10 \in Nat /\ 2 * t + 10 <= 200010
  BY <1>1
<1> QED
  BY <1>1, <1>2, RoundIs, TwentiethType, TenthType, PctIs

LEMMA BasisPointsType == ASSUME NEW t, Acceptable(t) PROVE Pct(BasisPoints(t))
<1>1. BasisPoints(t) = Tenth(t) \/ BasisPoints(t) = Round(t, 10)
  BY DEF BasisPoints, Tenth
<1> QED
  BY <1>1, RoundOfHundreds

LEMMA ProductBounds ==
  ASSUME NEW n \in Nat, NEW k \in Nat, k <= 10000
  PROVE  n * k \in Nat /\ n * k <= n * 10000
OBVIOUS

LEMMA NetIs ==
  ASSUME NEW n \in Nat, NEW d, Pct(d)
  PROVE  /\ Upto(NetOf(n, d), n)
         /\ 20000 * NetOf(n, d) <= 2 * (n * (10000 - d)) + 10000
         /\ 2 * (n * (10000 - d)) <= 20000 * NetOf(n, d) + 10000
<1> DEFINE x == n * (10000 - d)
<1>0. 10000 - d \in Nat /\ 10000 - d <= 10000
  BY PctIs
<1>1. x \in Nat /\ x <= n * 10000
  BY <1>0, ProductBounds
<1>2. NetOf(n, d) = (2 * x + 10000) \div (2 * 10000)
  BY WholeIs DEF NetOf, Round
<1> HIDE DEF x
<1>3. NetOf(n, d) = (2 * x + 10000) \div 20000
  BY <1>2
<1>4. /\ NetOf(n, d) \in Nat /\ 20000 * NetOf(n, d) <= 2 * x + 10000
      /\ 2 * x <= 20000 * NetOf(n, d) + 10000
  BY <1>1, <1>3
<1>5. NetOf(n, d) <= n
  BY <1>1, <1>3
<1> QED
  BY <1>4, <1>5, UptoIs DEF x

(* Amounts of rows g and of lines f: each row within half a cent of its      *)
(* line's share, all of them within half a cent for each.                   *)
Share(f, g, k, x) ==
  20000 * g[x] <= 2 * (k * f[x]) + 10000 /\ 2 * (k * f[x]) <= 20000 * g[x] + 10000
Shares(f, g, k, T) ==
  LET F == SumFunctionOnSet(f, T)
      G == SumFunctionOnSet(g, T)
      n == Cardinality(T) IN
  20000 * G <= 2 * (k * F) + 10000 * n /\ 2 * (k * F) <= 20000 * G + 10000 * n

LEMMA Distribute ==
  ASSUME NEW k \in Int, NEW a \in Int, NEW b \in Int
  PROVE  k * (a + b) = k * a + k * b
OBVIOUS

LEMMA SharesAddUp ==
  ASSUME NEW S, IsFiniteSet(S), NEW f, NEW g, NEW k \in Int,
         \A x \in S : f[x] \in Int /\ g[x] \in Int /\ Share(f, g, k, x)
  PROVE  \A T \in SUBSET S : Shares(f, g, k, T)
<1> DEFINE C == {T \in SUBSET S : ~Shares(f, g, k, T)}
<1> SUFFICES ASSUME C # {} PROVE FALSE
  OBVIOUS
<1>0. C \in SUBSET SUBSET S
  OBVIOUS
<1>1. PICK T \in C : \A U \in C : U \subseteq T => U = T
  <2> HIDE DEF C
  <2> QED
    BY <1>0, Smallest
<1>2. IsFiniteSet(T) /\ T \in SUBSET S
  BY FS_Subset
<1>3. T # {}
  <2>1. Shares(f, g, k, {})
    <3>1. SumFunctionOnSet(f, {}) = 0 /\ SumFunctionOnSet(g, {}) = 0 /\ Cardinality({}) = 0
      BY SumOfEmpty, FS_EmptySet
    <3>2. k * 0 = 0
      OBVIOUS
    <3> QED
      BY <3>1, <3>2 DEF Shares
  <2> QED
    BY <2>1
<1> DEFINE x == First(T)
           U == T \ {x}
           F == SumFunctionOnSet(f, U)
           G == SumFunctionOnSet(g, U)
           n == Cardinality(U)
<1>4. /\ x \in T /\ IsFiniteSet(U)
      /\ SumFunctionOnSet(f, T) = f[x] + F /\ SumFunctionOnSet(g, T) = g[x] + G
  BY <1>2, <1>3, SumOfFirst
<1>5. Cardinality(T) = n + 1 /\ n \in Nat
  BY <1>2, <1>4, FS_RemoveElement, FS_CardinalityType
<1>6. F \in Int /\ G \in Int
  <2>1. U \in SUBSET S
    BY <1>2
  <2> HIDE DEF U
  <2> QED
    BY <2>1, SumType
<1>7. Shares(f, g, k, U)
  BY <1>1, <1>2, <1>4
<1>8. f[x] \in Int /\ g[x] \in Int /\ Share(f, g, k, x) /\ ~Shares(f, g, k, T)
  BY <1>1, <1>2, <1>4
<1> HIDE DEF x, U, C
<1>9. /\ 20000 * G <= 2 * (k * F) + 10000 * n /\ 2 * (k * F) <= 20000 * G + 10000 * n
      /\ 20000 * g[x] <= 2 * (k * f[x]) + 10000 /\ 2 * (k * f[x]) <= 20000 * g[x] + 10000
  BY <1>7, <1>8 DEF Shares, Share
<1>10. k * (f[x] + F) = k * f[x] + k * F
  BY <1>6, <1>8, Distribute
<1> DEFINE p == k * F
           q == k * f[x]
           r == k * (f[x] + F)
<1>11. p \in Int /\ q \in Int /\ r = q + p
  BY <1>6, <1>8, <1>10
<1>12. /\ 20000 * G <= 2 * p + 10000 * n /\ 2 * p <= 20000 * G + 10000 * n
       /\ 20000 * g[x] <= 2 * q + 10000 /\ 2 * q <= 20000 * g[x] + 10000
  BY <1>9
<1>13. ~(20000 * (g[x] + G) <= 2 * r + 10000 * (n + 1) /\ 2 * r <= 20000 * (g[x] + G) + 10000 * (n + 1))
  BY <1>4, <1>5, <1>8 DEF Shares
<1> HIDE DEF p, q, r, F, G, n
<1> QED
  BY <1>5, <1>6, <1>8, <1>11, <1>12, <1>13

LEMMA SumNat ==
  ASSUME NEW S, IsFiniteSet(S), NEW f, \A x \in S : f[x] \in Nat
  PROVE  \A T \in SUBSET S : SumFunctionOnSet(f, T) \in Nat
<1> DEFINE C == {T \in SUBSET S : SumFunctionOnSet(f, T) \notin Nat}
<1> SUFFICES ASSUME C # {} PROVE FALSE
  OBVIOUS
<1>0. C \in SUBSET SUBSET S
  OBVIOUS
<1>1. PICK T \in C : \A U \in C : U \subseteq T => U = T
  <2> HIDE DEF C
  <2> QED
    BY <1>0, Smallest
<1>2. IsFiniteSet(T) /\ T # {}
  <2>1. SumFunctionOnSet(f, {}) \in Nat
    BY SumOfEmpty
  <2> QED
    BY <2>1, FS_Subset
<1>3. First(T) \in T /\ SumFunctionOnSet(f, T) = f[First(T)] + SumFunctionOnSet(f, T \ {First(T)})
  BY <1>2, SumOfFirst
<1>4. SumFunctionOnSet(f, T \ {First(T)}) \in Nat
  BY <1>1, <1>3
<1> QED
  BY <1>3, <1>4

LEMMA ProductNat == ASSUME NEW a \in Nat, NEW b \in Nat PROVE a * b \in Nat
OBVIOUS

LEMMA SumIsOnDomain == ASSUME NEW f PROVE SumFunction(f) = SumFunctionOnSet(f, DOMAIN f)
  BY DEF SumFunction, SumFunctionOnSet, FoldFunction, FoldFunctionOnSet

(* The order's lines; while they stay, so does their total.                 *)
LinesInv ==
  DOMAIN lines \subseteq Items /\ \A s \in DOMAIN lines : lines[s].qty \in Nat /\ lines[s].rate \in Nat

LEMMA LineParts == \A q, r : Line(q, r).qty = q /\ Line(q, r).rate = r
  BY DEF Line

LEMMA ApprovalParts == \A t, n : Approval(t, n).discount = t /\ Approval(t, n).preview = n
  BY DEF Approval

LEMMA GrossType ==
  ASSUME LinesInv
  PROVE  /\ IsFiniteSet(DOMAIN lines) /\ DOMAIN LineTotals = DOMAIN lines
         /\ \A s \in DOMAIN lines : LineTotals[s] = LineTotal(s) /\ LineTotal(s) \in Nat
         /\ Gross = SumFunctionOnSet(LineTotals, DOMAIN lines) /\ Gross \in Nat
<1>1. IsFiniteSet(DOMAIN lines)
  BY FS_Subset, AmountsAssumption DEF LinesInv
<1>2. ASSUME NEW s \in DOMAIN lines PROVE LineTotal(s) \in Nat
  BY ProductNat DEF LinesInv, LineTotal
<1>3. DOMAIN LineTotals = DOMAIN lines /\ \A s \in DOMAIN lines : LineTotals[s] = LineTotal(s)
  BY DEF LineTotals
<1>4. Gross = SumFunctionOnSet(LineTotals, DOMAIN lines)
  BY <1>3, SumIsOnDomain DEF Gross
<1>5. Gross \in Nat
  BY <1>1, <1>2, <1>3, <1>4, SumNat
<1> QED
  BY <1>1, <1>2, <1>3, <1>4, <1>5

LEMMA GrossStays ==
  ASSUME lines' = lines
  PROVE  Gross' = Gross /\ (LinesInv => LinesInv')
  BY DEF Gross, LineTotals, LineTotal, LinesInv

(* What is sent, what was recorded, and the rows are all computed from the  *)
(* same lines and from the discount of the one approval.                    *)
NetFor(amount, t) == NetOf(amount, BasisPoints(t))

Sent(amount, a) == Acceptable(a.discount) /\ a.preview \in {NetFor(amount, a.discount), Null}

AllSent(amount, reached, all) ==
  /\ DOMAIN all = Users
  /\ \A u \in Users : all[u] # Null => reached # "none" /\ Sent(amount, all[u])

Recorded(amount, reached, a, n, d) ==
  reached = "approved" => /\ Sent(amount, a) /\ n = NetFor(amount, a.discount)
                         /\ d = StoredDiscount(a.discount)

RowsOf(order, d, all) ==
  all # Null => /\ DOMAIN all = DOMAIN order
                /\ \A s \in DOMAIN order : all[s] = NetOf(order[s].qty * order[s].rate, d)

Unapproved(reached, d, n, a, all) ==
  /\ reached \in {"none", "pending", "approved"}
  /\ reached # "approved" => d = Null /\ n = Null /\ a = Null /\ all = Null

SendingInv == AllSent(Gross, orderStatus, sending)
RecordedInv == Recorded(Gross, orderStatus, approval, net, discount)
RowsInv == RowsOf(lines, discount, rows)
StatusInv == Unapproved(orderStatus, discount, net, approval, rows)
RatesInv == rate \in [Items -> Nat \cup {Null}] /\ told \subseteq Users

AmountsIInv == LinesInv /\ SendingInv /\ RecordedInv /\ RowsInv /\ StatusInv /\ RatesInv

LEMMA NetForType ==
  ASSUME NEW amount \in Nat, NEW t, Acceptable(t)
  PROVE  Upto(NetFor(amount, t), amount)
  BY BasisPointsType, NetIs DEF NetFor

LEMMA AmountsStart == AmountsInit => AmountsIInv
  BY DEF AmountsInit, AmountsIInv, LinesInv, SendingInv, StatusInv, RecordedInv, RowsInv,
     RatesInv, AllSent, Recorded, RowsOf, Unapproved

LEMMA StoredRateType == ASSUME NEW t \in Nat PROVE StoredRate(t) \in Nat
<1>1. 2 * t + 10 \in Nat
  OBVIOUS
<1> QED
  BY <1>1, RoundIs, TwentiethType DEF StoredRate

LEMMA StepSaveRate ==
  ASSUME AmountsIInv, NEW s \in Items, NEW thousandths \in Rates, SaveRate(s, thousandths)
  PROVE  AmountsIInv'
<1>1. StoredRate(thousandths) \in Nat
  BY StoredRateType, AmountsAssumption
<1>2. UNCHANGED <<lines, orderStatus, discount, net, sending, told, approval, rows>>
  BY DEF SaveRate
<1>3. Gross' = Gross /\ LinesInv'
  BY <1>2, GrossStays DEF AmountsIInv
<1>4. RatesInv'
  BY <1>1, <1>2 DEF SaveRate, AmountsIInv, RatesInv
<1> QED
  BY <1>2, <1>3, <1>4 DEF AmountsIInv, SendingInv, StatusInv, RecordedInv, RowsInv

LEMMA StepSubmit ==
  ASSUME AmountsIInv, NEW chosen \in SUBSET Items, Submit(chosen)
  PROVE  AmountsIInv'
<1>1. /\ orderStatus = "none" /\ orderStatus' = "pending"
      /\ UNCHANGED <<rate, discount, net, sending, told, approval, rows>>
  BY DEF Submit
<1>2. LinesInv'
  <2>1. PICK qty \in [chosen -> Quantities] : lines' = [s \in chosen |-> Line(qty[s], rate[s])]
    BY DEF Submit
  <2>2. ASSUME NEW s \in chosen PROVE qty[s] \in Nat /\ rate[s] \in Nat
    BY <2>2, AmountsAssumption DEF Submit, AmountsIInv, RatesInv
  <2> QED
    BY <2>1, <2>2, LineParts DEF LinesInv
<1>3. DOMAIN sending = Users /\ \A u \in Users : sending[u] = Null
  BY <1>1 DEF AmountsIInv, SendingInv, AllSent
<1>4. SendingInv'
  BY <1>1, <1>3 DEF SendingInv, AllSent
<1>5. rows = Null
  BY <1>1 DEF AmountsIInv, StatusInv, Unapproved
<1>6. StatusInv' /\ RecordedInv' /\ RowsInv' /\ RatesInv'
  BY <1>1, <1>5 DEF AmountsIInv, StatusInv, Unapproved, RecordedInv, Recorded, RowsInv, RowsOf, RatesInv
<1> QED
  BY <1>2, <1>4, <1>6 DEF AmountsIInv

LEMMA StepPress ==
  ASSUME AmountsIInv, NEW u \in Users, Press(u)
  PROVE  AmountsIInv'
<1>1. orderStatus # "none" /\ UNCHANGED <<rate, lines, orderStatus, discount, net, told, approval, rows>>
  BY DEF Press
<1>2. Gross' = Gross /\ LinesInv'
  BY <1>1, GrossStays DEF AmountsIInv
<1>3. \E a : sending' = [sending EXCEPT ![u] = a] /\ Sent(Gross, a)
  <2>1. CASE \E t \in Discounts : Acceptable(t) /\ sending' = [sending EXCEPT ![u] = Approval(t, NetPreview(t))]
    <3>1. PICK t \in Discounts : Acceptable(t) /\ sending' = [sending EXCEPT ![u] = Approval(t, NetPreview(t))]
      BY <2>1
    <3>2. NetPreview(t) = NetFor(Gross, t)
      BY DEF NetPreview, NetFor, BasisPoints
    <3>3. Sent(Gross, Approval(t, NetPreview(t)))
      BY <3>1, <3>2, ApprovalParts DEF Sent
    <3> QED
      BY <3>1, <3>3
  <2>2. CASE sending' = [sending EXCEPT ![u] = Approval(0, Null)]
    <3>1. Sent(Gross, Approval(0, Null))
      BY ApprovalParts, AcceptableIs DEF Sent
    <3> QED
      BY <2>2, <3>1
  <2> QED
    BY <2>1, <2>2 DEF Press
<1>4. PICK a : sending' = [sending EXCEPT ![u] = a] /\ Sent(Gross, a)
  BY <1>3
<1>5. AllSent(Gross, orderStatus, sending')
  BY <1>1, <1>4 DEF AmountsIInv, SendingInv, AllSent
<1>6. SendingInv'
  BY <1>1, <1>2, <1>5 DEF SendingInv
<1> QED
  BY <1>1, <1>2, <1>6 DEF AmountsIInv, StatusInv, RecordedInv, RowsInv, RatesInv

LEMMA StepApprove ==
  ASSUME AmountsIInv, NEW u \in Users, Approve(u)
  PROVE  AmountsIInv'
<1>1. /\ sending[u] # Null /\ sending' = [sending EXCEPT ![u] = Null]
      /\ told' = told \cup {u} /\ UNCHANGED <<rate, lines, rows>>
  BY DEF Approve
<1>2. Gross' = Gross /\ LinesInv' /\ RatesInv'
  BY <1>1, GrossStays DEF AmountsIInv, RatesInv
<1>3. orderStatus # "none" /\ Sent(Gross, sending[u])
  BY <1>1 DEF AmountsIInv, SendingInv, AllSent
<1>4. orderStatus' # "none" => AllSent(Gross, orderStatus', sending')
  BY <1>1 DEF AmountsIInv, SendingInv, AllSent
<1>5. CASE orderStatus = "pending"
  <2>1. /\ orderStatus' = "approved" /\ discount' = StoredDiscount(sending[u].discount)
        /\ net' = NetFor(Gross, sending[u].discount) /\ approval' = sending[u]
    BY <1>5 DEF Approve, NetFor
  <2>2. rows' = Null
    BY <1>1, <1>5 DEF AmountsIInv, StatusInv, Unapproved
  <2>3. SendingInv'
    BY <1>2, <1>4, <2>1 DEF SendingInv
  <2>4. RecordedInv'
    BY <1>2, <1>3, <2>1 DEF RecordedInv, Recorded
  <2> QED
    BY <1>2, <2>1, <2>2, <2>3, <2>4 DEF AmountsIInv, StatusInv, Unapproved, RowsInv, RowsOf
<1>6. CASE orderStatus # "pending"
  <2>1. UNCHANGED <<orderStatus, discount, net, approval>>
    BY <1>6 DEF Approve
  <2>2. SendingInv'
    BY <1>2, <1>3, <1>4, <2>1 DEF SendingInv
  <2> QED
    BY <1>1, <1>2, <2>1, <2>2 DEF AmountsIInv, StatusInv, RecordedInv, RowsInv
<1> QED
  BY <1>5, <1>6

LEMMA StepExport ==
  ASSUME AmountsIInv, Export
  PROVE  AmountsIInv'
<1>1. /\ orderStatus = "approved" /\ rows' = [s \in DOMAIN lines |-> RowNet(s)]
      /\ UNCHANGED <<rate, lines, orderStatus, discount, net, sending, told, approval>>
  BY DEF Export
<1>2. Gross' = Gross /\ LinesInv'
  BY <1>1, GrossStays DEF AmountsIInv
<1>3. RowsOf(lines, discount, rows')
  BY <1>1 DEF RowsOf, RowNet, LineTotal
<1>4. RowsInv'
  BY <1>1, <1>3 DEF RowsInv
<1>5. StatusInv'
  BY <1>1 DEF StatusInv, Unapproved
<1> QED
  BY <1>1, <1>2, <1>4, <1>5 DEF AmountsIInv, SendingInv, RecordedInv, RatesInv

LEMMA AmountsSteps == AmountsIInv /\ [AmountsNext]_amountVars => AmountsIInv'
<1> SUFFICES ASSUME AmountsIInv, [AmountsNext]_amountVars PROVE AmountsIInv'
  OBVIOUS
<1>1. CASE UNCHANGED amountVars
  <2>1. UNCHANGED <<rate, lines, orderStatus, discount, net, sending, told, approval, rows>>
    BY <1>1 DEF amountVars
  <2>2. Gross' = Gross /\ LinesInv'
    BY <2>1, GrossStays DEF AmountsIInv
  <2> QED
    BY <2>1, <2>2 DEF AmountsIInv, SendingInv, StatusInv, RecordedInv, RowsInv, RatesInv
<1> QED
  BY <1>1, StepSaveRate, StepSubmit, StepPress, StepApprove, StepExport DEF AmountsNext

LEMMA AmountsAlways == AmountsSpec => []AmountsIInv
  BY AmountsStart, AmountsSteps, PTL DEF AmountsSpec

(* Every amount recorded or sent lies between nothing and the gross amount,  *)
(* and the net amount recorded is the one the approver's screen had shown.   *)
THEOREM AmountsHold == AmountsSpec => []AmountsInv
<1>1. AmountsIInv => AmountsInv
  <2> SUFFICES ASSUME AmountsIInv PROVE AmountsInv
    OBVIOUS
  <2>1. Gross \in Nat
    BY GrossType DEF AmountsIInv
  <2>2. ASSUME NEW t, Acceptable(t) PROVE Upto(NetFor(Gross, t), Gross)
    BY <2>1, <2>2, NetForType
  <2>3. Pct(discount) \/ discount = Null
    <3>1. CASE orderStatus # "approved"
      BY <3>1 DEF AmountsIInv, StatusInv, Unapproved
    <3>2. CASE orderStatus = "approved"
      <4>1. Acceptable(approval.discount) /\ discount = Round(approval.discount, 10)
        BY <3>2 DEF AmountsIInv, RecordedInv, Recorded, Sent, StoredDiscount
      <4> QED
        BY <4>1, RoundOfHundreds
    <3> QED
      BY <3>1, <3>2
  <2>4. Upto(net, Gross) \/ net = Null
    <3>1. (Acceptable(approval.discount) /\ net = NetFor(Gross, approval.discount)) \/ net = Null
      BY DEF AmountsIInv, StatusInv, Unapproved, RecordedInv, Recorded, Sent
    <3> QED
      BY <2>2, <3>1
  <2>5. ASSUME NEW u \in Users, sending[u] # Null
        PROVE  Acceptable(sending[u].discount) /\ (Upto(sending[u].preview, Gross) \/ sending[u].preview = Null)
    <3>1. Acceptable(sending[u].discount) /\ sending[u].preview \in {NetFor(Gross, sending[u].discount), Null}
      BY <2>5 DEF AmountsIInv, SendingInv, AllSent, Sent
    <3> QED
      BY <2>2, <3>1
  <2>7. AmountsTypeOK
    <3>1. /\ rate \in [Items -> Nat \cup {Null}] /\ DOMAIN lines \subseteq Items /\ told \subseteq Users
          /\ orderStatus \in {"none", "pending", "approved"} /\ (rows # Null => DOMAIN rows = DOMAIN lines)
      BY DEF AmountsIInv, LinesInv, StatusInv, Unapproved, RowsInv, RowsOf, RatesInv
    <3>2. discount \in 0..Whole \cup {Null} /\ net \in 0..Gross \cup {Null}
      BY <2>3, <2>4 DEF Pct, Upto
    <3>3. \A u \in Users : sending[u] # Null =>
            Acceptable(sending[u].discount) /\ sending[u].preview \in 0..Gross \cup {Null}
      BY <2>5 DEF Upto
    <3> QED
      BY <3>1, <3>2, <3>3 DEF AmountsTypeOK
  <2>6. PreviewHolds
    BY DEF PreviewHolds, AmountsIInv, StatusInv, Unapproved, RecordedInv, Recorded, Sent
  <2> QED
    BY <2>6, <2>7 DEF AmountsInv
<1> QED
  BY <1>1, AmountsAlways, PTL

(* The CSV's rows add up to the net amount within half a cent for each row   *)
(* and for the order, and exactly when there is one row.                     *)
THEOREM RowsAddUp == AmountsSpec => []CsvAddsUp
<1>1. AmountsIInv => CsvAddsUp
  <2> SUFFICES ASSUME AmountsIInv, rows # Null, approval.discount \notin RoundedDown
               PROVE  LET sum == SumFunction(rows)
                          off == IF sum > net THEN sum - net ELSE net - sum IN
                      IF Cardinality(DOMAIN rows) = 1 THEN off = 0
                      ELSE 2 * off <= Cardinality(DOMAIN rows) + 1
    BY DEF CsvAddsUp
  <2> DEFINE D == DOMAIN lines
             sum == SumFunction(rows)
             k == 10000 - discount
             n == Cardinality(D)
  <2>1. orderStatus = "approved"
    BY DEF AmountsIInv, StatusInv, Unapproved
  <2>2. net = NetOf(Gross, discount) /\ Pct(discount)
    <3>1. /\ Acceptable(approval.discount) /\ net = NetOf(Gross, BasisPoints(approval.discount))
          /\ discount = Round(approval.discount, 10)
      BY <2>1 DEF AmountsIInv, RecordedInv, Recorded, Sent, NetFor, StoredDiscount
    <3>2. BasisPoints(approval.discount) = Round(approval.discount, 10)
      BY DEF BasisPoints
    <3> QED
      BY <3>1, <3>2, RoundOfHundreds
  <2>3. DOMAIN rows = D /\ \A s \in D : rows[s] = NetOf(LineTotal(s), discount)
    BY DEF AmountsIInv, RowsInv, RowsOf, LineTotal
  <2>4. /\ IsFiniteSet(D) /\ Gross = SumFunctionOnSet(LineTotals, D) /\ Gross \in Nat
        /\ \A s \in D : LineTotals[s] = LineTotal(s) /\ LineTotal(s) \in Nat
    BY GrossType DEF AmountsIInv
  <2>5. sum = SumFunctionOnSet(rows, D)
    BY <2>3, SumIsOnDomain
  <2>6. k \in Nat /\ n \in Nat /\ discount \in Nat
    BY <2>2, <2>4, FS_CardinalityType, PctIs
  <2>7. ASSUME NEW a \in Nat
        PROVE  NetOf(a, discount) \in Nat /\ 20000 * NetOf(a, discount) <= 2 * (k * a) + 10000
               /\ 2 * (k * a) <= 20000 * NetOf(a, discount) + 10000
    <3>1. a * (10000 - discount) = k * a
      BY <2>6
    <3> HIDE DEF k
    <3>2. NetOf(a, discount) \in Nat
      BY <2>2, NetIs, UptoIs
    <3> QED
      BY <2>2, <3>1, <3>2, NetIs
  <2> HIDE DEF D, k, sum
  <2>8. ASSUME NEW s \in D PROVE LineTotals[s] \in Int /\ rows[s] \in Int /\ Share(LineTotals, rows, k, s)
    <3>1. LineTotals[s] \in Nat /\ rows[s] = NetOf(LineTotals[s], discount)
      BY <2>3, <2>4
    <3> QED
      BY <2>7, <3>1 DEF Share
  <2>9. Shares(LineTotals, rows, k, D)
    BY <2>4, <2>6, <2>8, SharesAddUp
  <2>10. sum \in Int /\ net \in Int
    BY <2>2, <2>4, <2>5, <2>7, <2>8, SumType
  <2>11. 20000 * sum <= 2 * (k * Gross) + 10000 * n /\ 2 * (k * Gross) <= 20000 * sum + 10000 * n
    BY <2>4, <2>5, <2>9 DEF Shares
  <2>12. 20000 * net <= 2 * (k * Gross) + 10000 /\ 2 * (k * Gross) <= 20000 * net + 10000
    BY <2>2, <2>4, <2>7
  <2>13. n = 1 => sum = net
    <3> SUFFICES ASSUME n = 1 PROVE sum = net
      OBVIOUS
    <3>1. PICK s : D = {s}
      BY <2>4, FS_Singleton
    <3>2. D # {} /\ First(D) = s /\ D \ {First(D)} = {}
      BY <3>1, FirstIn
    <3>3. Gross = LineTotals[s] + 0 /\ sum = rows[s] + 0
      BY <2>4, <2>5, <3>2, SumOfFirst, SumOfEmpty
    <3>4. s \in D
      BY <3>1
    <3>5. Gross = LineTotal(s) /\ sum = rows[s]
      BY <2>4, <2>8, <3>3, <3>4
    <3> QED
      BY <2>2, <2>3, <3>4, <3>5
  <2> DEFINE p == k * Gross
  <2>14. p \in Int
    BY <2>4, <2>6
  <2>15. 20000 * sum <= 2 * p + 10000 * n /\ 2 * p <= 20000 * sum + 10000 * n
         /\ 20000 * net <= 2 * p + 10000 /\ 2 * p <= 20000 * net + 10000
    BY <2>11, <2>12
  <2> HIDE DEF p, n
  <2>16. IF n = 1 THEN (IF sum > net THEN sum - net ELSE net - sum) = 0
         ELSE 2 * (IF sum > net THEN sum - net ELSE net - sum) <= n + 1
    BY <2>6, <2>10, <2>13, <2>14, <2>15
  <2> QED
    BY <2>3, <2>16 DEF sum, n
<1> QED
  BY <1>1, AmountsAlways, PTL
=============================================================================
