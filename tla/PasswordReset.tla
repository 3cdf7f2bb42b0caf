---------------------------- MODULE PasswordReset ----------------------------
(***************************************************************************)
(* AuthService.requestPasswordReset and resetPassword for one account, with *)
(* logins beside them.  Nothing runs in a transaction and bcrypt takes its  *)
(* time, so codes, password and sessions are written in steps that          *)
(* interleave and may stop half-way.  The service has a test for them and a *)
(* controller, but no route leads there yet.                                *)
(***************************************************************************)
EXTENDS Naturals, Sequences

CONSTANTS Asks, Resets, Logins, None   \* calls of each kind, made at most once

Calls == Asks \cup Resets \cup Logins

ASSUME ResetAssumption ==
  /\ Asks \cap Resets = {} /\ Asks \cap Logins = {} /\ Resets \cap Logins = {}
  /\ None \notin Calls

VARIABLES
  tokens,    \* table PasswordResetToken in the order of createdAt
  password,  \* the reset that set passwordHash, None for the first one
  sessions,  \* live sessions: their login, the password it gave, and whether
             \* the password was another when the session was created
  pc,        \* where each call stands
  code,      \* the token whose code or secret a reset was given; 0 is wrong
  found,     \* the token a reset has read
  typed,     \* the password a login has read and compared
  issued,    \* history: the tokens there were, and those spent, when each call began
  spent,     \* history: tokens of resets that were answered with success
  stopped    \* history: resets that failed after they had set the password

vars == <<tokens, password, sessions, pc, code, found, typed, issued, spent, stopped>>
calls == <<pc, code, found, typed, issued>>
history == <<spent, stopped>>

Goto(c, to) == pc' = [pc EXCEPT ![c] = to]
Begins(c) ==
  pc[c] = "new" /\ issued' = [issued EXCEPT ![c] = [tokens |-> Len(tokens), spent |-> spent]]

Init ==
  /\ tokens = <<>> /\ password = None /\ sessions = {}
  /\ pc = [c \in Calls |-> "new"]
  /\ code = [r \in Resets |-> 0] /\ found = [r \in Resets |-> 0]
  /\ typed = [l \in Logins |-> None]
  /\ issued = [c \in Calls |-> [tokens |-> 0, spent |-> {}]]
  /\ spent = {} /\ stopped = {}

-----------------------------------------------------------------------------
(* invalidatePasswordResetTokens: consumedAt. *)
Invalidated(t) == [t EXCEPT !.used = TRUE]

(* requestPasswordReset, first statement. *)
AskInvalidates(a) ==
  /\ Begins(a) /\ Goto(a, "create")
  /\ tokens' = [i \in DOMAIN tokens |-> Invalidated(tokens[i])]
  /\ UNCHANGED <<password, sessions, code, found, typed, history>>

(* createPasswordResetToken; then the audit row and the answer. *)
AskCreates(a) ==
  /\ pc[a] = "create" /\ Goto(a, "done")
  /\ tokens' = Append(tokens, [by |-> a, used |-> FALSE, expired |-> FALSE])
  /\ UNCHANGED <<password, sessions, code, found, typed, issued, history>>

(* expiresAt passes. *)
Expires(i) ==
  /\ ~tokens[i].expired
  /\ tokens' = [tokens EXCEPT ![i].expired = TRUE]
  /\ UNCHANGED <<password, sessions, calls, history>>

Latest(i, open) == IF open = {} THEN i = 0 ELSE i \in open /\ \A j \in open : j <= i

(* Bug variant: consumedAt is not asked for. *)
LatestUnexpired(i) == Latest(i, {j \in DOMAIN tokens : ~tokens[j].expired})

(* findLatestActivePasswordResetToken; 0 when there is none. *)
LatestActive(i) ==
  Latest(i, {j \in DOMAIN tokens : ~tokens[j].used /\ ~tokens[j].expired})

(* matchesOtp, matchesResetToken. *)
Matches(r, i) == i # 0 /\ code'[r] = i

(* Bug variant: the sessions are ended first. *)
RevokesFirst(step) ==
  CASE step = "read" -> "revoke" [] step = "revoke" -> "update"
    [] step = "update" -> "consume" [] step = "consume" -> "done"

(* The statements of resetPassword, in their order. *)
StepAfter(step) ==
  CASE step = "read" -> "update" [] step = "update" -> "consume"
    [] step = "consume" -> "revoke" [] step = "revoke" -> "done"

(* resetPassword up to bcrypt.hash. *)
ResetReads(r) ==
  /\ Begins(r)
  /\ \E i \in {0} \cup DOMAIN tokens : code' = [code EXCEPT ![r] = i]
  /\ \E i \in {0} \cup DOMAIN tokens :
       /\ LatestActive(i)
       /\ found' = [found EXCEPT ![r] = i]
       /\ Goto(r, IF Matches(r, i) THEN StepAfter("read") ELSE "refused")
  /\ UNCHANGED <<tokens, password, sessions, typed, history>>

Completes(r, to) == spent' = IF to = "done" THEN spent \cup {found[r]} ELSE spent

ResetUpdates(r) ==
  /\ pc[r] = "update" /\ Goto(r, StepAfter("update"))
  /\ password' = r
  /\ UNCHANGED <<tokens, sessions, code, found, typed, issued, history>>

(* consumePasswordResetToken: an update by id, whatever the row says. *)
ResetConsumes(r) ==
  /\ pc[r] = "consume" /\ Goto(r, StepAfter("consume"))
  /\ tokens' = [tokens EXCEPT ![found[r]].used = TRUE]
  /\ Completes(r, StepAfter("consume"))
  /\ UNCHANGED <<password, sessions, code, found, typed, issued, stopped>>

(* revokeAllUserSessions; then the audit row and the answer. *)
ResetRevokes(r) ==
  /\ pc[r] = "revoke" /\ Goto(r, StepAfter("revoke"))
  /\ sessions' = {}
  /\ Completes(r, StepAfter("revoke"))
  /\ UNCHANGED <<tokens, password, code, found, typed, issued, stopped>>

(* A login reads the row, compares, and creates its session later.  Only    *)
(* the password of the moment is accepted.                                  *)
LoginFinds(l) ==
  /\ Begins(l) /\ Goto(l, "create")
  /\ typed' = [typed EXCEPT ![l] = password]
  /\ UNCHANGED <<tokens, password, sessions, code, found, history>>

LoginCreates(l) ==
  /\ pc[l] = "create" /\ Goto(l, "done")
  /\ sessions' = sessions \cup
       {[login |-> l, password |-> typed[l], late |-> typed[l] # password]}
  /\ UNCHANGED <<tokens, password, code, found, typed, issued, history>>

(* A statement rejects or the process dies: what was written stays. *)
Fails(c) ==
  /\ pc[c] \notin {"new", "done", "refused", "failed"} /\ Goto(c, "failed")
  /\ stopped' = IF pc[c] \in {"consume", "revoke"} THEN stopped \cup {c} ELSE stopped
  /\ UNCHANGED <<tokens, password, sessions, code, found, typed, issued, spent>>

Next ==
  \/ \E a \in Asks : AskInvalidates(a) \/ AskCreates(a)
  \/ \E r \in Resets : ResetReads(r) \/ ResetUpdates(r) \/ ResetConsumes(r) \/ ResetRevokes(r)
  \/ \E l \in Logins : LoginFinds(l) \/ LoginCreates(l)
  \/ \E i \in DOMAIN tokens : Expires(i)
  \/ \E c \in Calls : Fails(c)

Spec == Init /\ [][Next]_vars

-----------------------------------------------------------------------------
Tokens == [by : Asks, used : BOOLEAN, expired : BOOLEAN]
Steps == {"new", "create", "update", "consume", "revoke", "done", "refused", "failed"}

TypeOK ==
  /\ tokens \in Seq(Tokens)
  /\ password \in Resets \cup {None}
  /\ sessions \subseteq [login : Logins, password : Resets \cup {None}, late : BOOLEAN]
  /\ pc \in [Calls -> Steps]
  /\ \A r \in Resets :
       /\ code[r] \in 0..Len(tokens)
       /\ found[r] \in 0..Len(tokens)
       /\ pc[r] \in {"update", "consume", "revoke", "done"} => found[r] # 0
  /\ typed \in [Logins -> Resets \cup {None}]
  /\ \A c \in Calls : issued[c].tokens \in 0..Len(tokens) /\ issued[c].spent \subseteq spent
  /\ spent \subseteq DOMAIN tokens /\ stopped \subseteq Resets

Succeeded == {r \in Resets : pc[r] = "done"}

(* A code opens the account once: a reset that begins after another was     *)
(* answered with success does not succeed with the same code.               *)
CodesWorkOnce == \A r \in Succeeded : found[r] \notin issued[r].spent

(* Asking again makes the code there was useless: no reset succeeds with it *)
(* that begins once the newer one is there.                                 *)
OlderCodesDie ==
  \A r \in Succeeded : \A j \in DOMAIN tokens :
    found[r] <= issued[tokens[j].by].tokens => j > issued[r].tokens

(* A code that was used or replaced stays useless, however the statements   *)
(* of resets and of requests for codes interleave.                          *)
CodesDie == CodesWorkOnce /\ OlderCodesDie

(* A session of a password that was replaced was created by a login that    *)
(* overlapped the change, unless its reset is still to end the sessions or  *)
(* failed before it did.                                                    *)
OldSessionsOverlap ==
  \A s \in sessions :
    s.password # password =>
      s.late \/ stopped # {} \/ \E r \in Resets : pc[r] \in {"consume", "revoke"}
=============================================================================
