----------------------------- MODULE MasterDialog -----------------------------
(***************************************************************************)
(* The screens of Head Office's master data (HeadOfficeDealersPage.tsx and *)
(* HeadOfficeSkusPage.tsx, alike but for their fields): a list that may be *)
(* stale and one dialog, with one form, for creating and editing.  A save  *)
(* sends every field, and its answer may come when the dialog has been     *)
(* closed and opened for another record.  React Query holds a save made    *)
(* while the browser is offline, and then runs the newest render's         *)
(* mutationFn: the form is the one of the click, the record is the one     *)
(* that is edited when the connection is back.                             *)
(*                                                                         *)
(* A value is told by where it was typed: the number of the dialog in      *)
(* which it was, or 0 for what was there before.                           *)
(***************************************************************************)
EXTENDS Naturals, Sequences

CONSTANTS
  Ids, Fields,
  MaxDialogs,  \* bound: dialogs opened, by this user or others
  None

ASSUME DialogAssumption == MaxDialogs \in Nat /\ None \notin Ids \cup Nat

VARIABLES
  stored,   \* the records the server has
  list,     \* the rows last fetched
  dialog,   \* dialogOpen
  editing,  \* editingDealer, editingSku
  form,     \* its values
  pending,  \* the save under way
  purpose,  \* history: the records each dialog was opened for or has created
  current,  \* history: the number of the dialog that this user opened last
  shown,    \* history: the record it was opened for
  strayed   \* history: the records that saves held under one dialog and sent under
            \*          a later one have written

vars == <<stored, list, dialog, editing, form, pending, purpose, current, shown, strayed>>
history == <<purpose, current, shown, strayed>>

Values == 0..MaxDialogs
EmptyForm == [f \in Fields |-> None]

(* A save: the record it writes (None: it creates one), the form, and the   *)
(* dialogs that were the last when it was made and when it was sent.        *)
NoSave == [at |-> "none", id |-> None, values |-> EmptyForm, opened |-> 0, under |-> 0]

-----------------------------------------------------------------------------
Init ==
  /\ \E known \in SUBSET Ids :
       stored = [id \in Ids |-> IF id \in known THEN [f \in Fields |-> 0] ELSE EmptyForm]
  /\ list = stored
  /\ dialog = FALSE /\ editing = None /\ form = EmptyForm /\ pending = NoSave
  /\ purpose = <<>> /\ current = 0 /\ shown = None /\ strayed = {}

Existing(records) == {id \in Ids : records[id] # EmptyForm}

(* The query is answered: at first, after the cache goes stale, and after a *)
(* save that succeeded.                                                     *)
Fetch == list' = stored /\ UNCHANGED <<stored, dialog, editing, form, pending, history>>

Opens(id, values) ==
  /\ Len(purpose) < MaxDialogs
  /\ dialog' = TRUE /\ editing' = id /\ form' = values
  /\ purpose' = Append(purpose, {id} \ {None})
  /\ current' = Len(purpose') /\ shown' = id /\ UNCHANGED strayed

(* openCreateDialog: the button is behind the dialog. *)
OpenCreate ==
  /\ ~dialog /\ Opens(None, EmptyForm)
  /\ UNCHANGED <<stored, list, pending>>

(* Bug variant: a form that was edited keeps its values. *)
FormKept(id) == IF form = EmptyForm THEN list[id] ELSE form

FormOf(id) == list[id]

(* openEditDialog: with what the list shows. *)
OpenEdit(id) ==
  /\ ~dialog /\ id \in Existing(list)
  /\ Opens(id, FormOf(id))
  /\ UNCHANGED <<stored, list, pending>>

(* A field of the dialog. *)
Type(f) ==
  /\ dialog
  /\ form' = [form EXCEPT ![f] = current]
  /\ UNCHANGED <<stored, list, dialog, editing, pending, history>>

(* Cancel, or a click beside it: also while a save is pending. *)
Cancel ==
  /\ dialog /\ dialog' = FALSE
  /\ UNCHANGED <<stored, list, editing, form, pending, history>>

(* upsertDealerSchema, upsertSkuSchema. *)
Complete(values) == \A f \in Fields : values[f] # None

(* handleSubmit: the form is complete, and no other save is pending. *)
Save ==
  /\ dialog /\ pending = NoSave /\ Complete(form)
  /\ pending' = [NoSave EXCEPT !.at = "held", !.values = form, !.opened = current]
  /\ UNCHANGED <<stored, list, dialog, editing, form, history>>

(* mutationFn starts, at once or when the browser is online again: useMutation *)
(* gives each render's options to the pending mutation, so the record is the   *)
(* one edited now.                                                             *)
Send ==
  /\ pending.at = "held"
  /\ pending' = [pending EXCEPT !.at = "sent", !.id = editing, !.under = current]
  /\ UNCHANGED <<stored, list, dialog, editing, form, history>>

Strays == pending.under # pending.opened

(* The server creates or updates (MasterRecords), or refuses; the answer    *)
(* may be lost, and a repeated creation meets its own code.                 *)
Serve ==
  /\ pending.at = "sent"
  /\ \/ \E id \in Ids :
          /\ IF pending.id = None THEN id \notin Existing(stored) ELSE id = pending.id
          /\ stored' = [stored EXCEPT ![id] = pending.values]
          /\ \/ Strays /\ strayed' = strayed \cup {id} /\ UNCHANGED purpose
             \/ /\ ~Strays /\ UNCHANGED strayed
                /\ purpose' = [purpose EXCEPT ![pending.opened] = @ \cup {id}]
          /\ \E at \in {"done", "failed"} : pending' = [pending EXCEPT !.at = at]
     \/ pending' = [pending EXCEPT !.at = "failed"] /\ UNCHANGED <<stored, purpose, strayed>>
  /\ UNCHANGED <<list, dialog, editing, form, current, shown>>

(* onSuccess. *)
Succeed ==
  /\ pending.at = "done" /\ pending' = NoSave
  /\ dialog' = FALSE /\ editing' = None /\ form' = EmptyForm
  /\ UNCHANGED <<stored, list, history>>

(* onError: the dialog stays as it is. *)
Fail ==
  /\ pending.at = "failed" /\ pending' = NoSave
  /\ UNCHANGED <<stored, list, dialog, editing, form, history>>

(* Another user saves, with a dialog of their own. *)
OtherSaves(id) ==
  /\ id \in Existing(stored) /\ Len(purpose) < MaxDialogs
  /\ purpose' = Append(purpose, {id})
  /\ \E changed \in SUBSET Fields :
       stored' = [stored EXCEPT ![id] =
         [f \in Fields |-> IF f \in changed THEN Len(purpose') ELSE @[f]]]
  /\ UNCHANGED <<list, dialog, editing, form, pending, current, shown, strayed>>

Next ==
  \/ Fetch \/ OpenCreate \/ Cancel \/ Save \/ Send \/ Serve \/ Succeed \/ Fail
  \/ \E id \in Ids : OpenEdit(id) \/ OtherSaves(id)
  \/ \E f \in Fields : Type(f)

Spec == Init /\ [][Next]_vars

-----------------------------------------------------------------------------
Records == [Ids -> [Fields -> Values \cup {None}]]

TypeOK ==
  /\ stored \in Records /\ list \in Records
  /\ dialog \in BOOLEAN /\ editing \in Ids \cup {None}
  /\ form \in [Fields -> Values \cup {None}]
  /\ pending \in [at : {"none", "held", "sent", "done", "failed"}, id : Ids \cup {None},
                  values : [Fields -> Values \cup {None}], opened : Values, under : Values]
  /\ purpose \in Seq(SUBSET Ids) /\ current \in 0..Len(purpose) /\ shown \in Ids \cup {None}
  /\ strayed \subseteq Ids
  /\ \A id \in Existing(stored), f \in Fields : stored[id][f] # None

(* What is typed into a dialog ends in the record that the dialog was       *)
(* opened for, or created, and in no other: also when a late answer clears  *)
(* the form and the record under another dialog.  The exception is the      *)
(* code's: a save held while the browser is offline is sent to the record   *)
(* of a dialog opened meanwhile.  The values it wrote stay in that record:  *)
(* they reach others only by another such save.                             *)
NoForeignValues ==
  \A id \in Existing(stored) \ strayed, f \in Fields :
    stored[id][f] # 0 => id \in purpose[stored[id][f]]

(* While a dialog is open, its save would go to the record it was opened    *)
(* for.                                                                     *)
DialogKeepsItsRecord == dialog => editing = shown
=============================================================================
