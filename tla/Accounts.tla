------------------------------- MODULE Accounts -----------------------------
(***************************************************************************)
(* Accounts, roles, sessions and tokens: auth.go, otp.go, reset.go,        *)
(* email.go and the user and role handlers of handler.go in                *)
(* internal/server/admin, over the tables of                               *)
(* internal/store/gormdb/gormdb.go.                                        *)
(*                                                                         *)
(* One account stands for all: only the deletion of a role touches several *)
(* users, and does so in one transaction.  It is the one called "admin" or *)
(* that of a user; administrators who manage it are others.  A call is     *)
(* what is left of the statements of a handler.  Passwords and codes match *)
(* when they are equal: a code is named by the secret it was made from.    *)
(* Tokens and secrets are numbers nobody has drawn before.                 *)
(*                                                                         *)
(* Operators named X_Fault are faulty variants of the operator X below     *)
(* them: no action uses them, they show that the properties can fail.      *)
(***************************************************************************)
EXTENDS Naturals, Sequences

CONSTANTS
  Callers,
  Passwords, Roles,
  NoRole,                 (* an empty role_name                            *)
  NoUser,                 (* no row                                        *)
  MaxDrawn,               (* bound on tokens and secrets                   *)
  MaxCalls, MaxOutages    (* bounds                                        *)

VARIABLES
  kind,       (* "admin" or "user"                                         *)
  user,       (* the row in users                                          *)
  roles,      (* the rows in roles, ...                                    *)
  granted,    (* ... and the roles that role_permissions has rows for      *)
  sessions,   (* tokens in the session store, ...                          *)
  pending,    (* ... in the store of half-finished logins, ...             *)
  resets,     (* ... and in the store of password resets                   *)
  drawn,      (* how many tokens and secrets there are                     *)
  call,       (* the call of each caller                                   *)
  calls, outages,
  confirmed,  (* history: secrets a code was checked against               *)
  overlapped, (* history: a row was written by a call that was not alone   *)
  strays,     (* history: roles given permissions without being there      *)
  uses        (* history: what each token was good for                     *)

stores == <<sessions, pending, resets>>
tables == <<user, roles, granted>>
ghosts == <<confirmed, overlapped, strays, uses>>
accountVars == <<kind, tables, stores, drawn, call, calls, outages, ghosts>>

ASSUME BoundAssumption ==
  /\ MaxDrawn \in Nat /\ 2 <= MaxDrawn
  /\ MaxCalls \in Nat /\ MaxOutages \in Nat

Users == [password : Passwords, role : Roles \cup {NoRole}, email : BOOLEAN, secret : 0..MaxDrawn, otp : BOOLEAN]

ASSUME NoUserAssumption == NoUser \notin Users

Quiet == [action |-> "none", todo |-> <<>>, token |-> 0, shown |-> 0,
          new |-> <<>>, image |-> NoUser, clean |-> FALSE]

(* There may be a session and a secret to begin with.                      *)
Session0 == 1
Secret0 == 2

InitAccounts ==
  /\ kind \in {"admin", "user"}
  /\ user \in {NoUser} \cup {u \in Users : u.secret \in {0, Secret0} /\ (u.otp => u.secret # 0)}
  /\ roles \in SUBSET Roles
  /\ user # NoUser => user.role \in (IF kind = "admin" THEN {} ELSE roles) \cup {NoRole}
  /\ granted \in SUBSET roles
  /\ sessions \in (IF user = NoUser THEN {{}} ELSE SUBSET {Session0})
  /\ pending = {} /\ resets = {}
  /\ drawn = 2
  /\ call = [c \in Callers |-> Quiet]
  /\ calls = 0
  /\ outages = 0
  /\ confirmed = IF user # NoUser /\ user.otp THEN {Secret0} ELSE {}
  /\ overlapped = FALSE
  /\ strays = {}
  /\ uses = [t \in 1..MaxDrawn |-> 0]

-----------------------------------------------------------------------------
(***************************************************************************)
(* The calls.  shown is the password or the code in the request, new the   *)
(* fields that are to be written.                                          *)
(***************************************************************************)
CountCall == calls < MaxCalls /\ calls' = calls + 1

Start(c, action, todo, token, shown, new) ==
  /\ call[c] = Quiet
  /\ CountCall
  /\ call' = [call EXCEPT ![c] = [action |-> action, todo |-> todo, token |-> token, shown |-> shown,
                                  new |-> new, image |-> NoUser, clean |-> TRUE]]
  /\ UNCHANGED <<kind, tables, stores, drawn, outages, ghosts>>

(* Public calls.                                                           *)
AuthInit(c) ==
  /\ kind = "admin"
  /\ \E p \in Passwords :
       Start(c, "init", <<"admins", "insert">>, 0, 0,
             [password |-> p, role |-> NoRole, email |-> FALSE, secret |-> 0, otp |-> FALSE])

AuthLogin(c) == \E p \in Passwords : Start(c, "login", <<"read">>, 0, p, <<>>)

(* Whether the account still asks for codes is not looked at: after a       *)
(* disable the code of the empty secret, 0, is the right one.              *)
OTPLoginStep(c) ==
  \E t \in 1..drawn, code \in 0..drawn :
    Start(c, "code", <<"pending", "read", "open">>, t, code, <<>>)

AuthLogout(c) == \E t \in sessions : Start(c, "logout", <<"close">>, t, 0, <<>>)

(* The mail with the token may get lost, which is only logged.             *)
ForgotPassword(c) == Start(c, "forgot", <<"read", "issue">>, 0, 0, <<>>)

ResetPassword(c) ==
  \E t \in 1..drawn, p \in Passwords :
    Start(c, "reset", <<"consume", "read", "save">>, t, 0, [password |-> p])

(* Calls of the user, who shows a session cookie (requireAuth).            *)
Own(c, action, shown, new) ==
  \E t \in sessions : Start(c, action, <<"session", "caller", "read", "save">>, t, shown, new)

AuthChangePassword(c) == \E old, p \in Passwords : Own(c, "change", old, [password |-> p])
OTPSetup(c) == Own(c, "setup", 0, [otp |-> FALSE])
OTPEnable(c) == \E code \in 1..drawn : Own(c, "enable", code, [otp |-> TRUE])
OTPDisable(c) == \E p \in Passwords : Own(c, "disable", p, [secret |-> 0, otp |-> FALSE])
SetMyEmail(c) == \E e \in BOOLEAN : Own(c, "email", 0, [email |-> e])

(* Calls of an administrator.  The account "admin" is not for them.        *)
Managed == kind = "user"

CreateUser(c) ==
  /\ Managed
  /\ \E p \in Passwords, r \in Roles \cup {NoRole} :
       Start(c, "create", IF r = NoRole THEN <<"read", "insert">> ELSE <<"read", "role", "insert">>, 0, 0,
             [password |-> p, role |-> r, email |-> FALSE, secret |-> 0, otp |-> FALSE])

DeleteUser(c) == Managed /\ Start(c, "delete", <<"drop">>, 0, 0, <<>>)

ResetUserPassword(c) ==
  /\ Managed
  /\ \E p \in Passwords : Start(c, "assign", <<"read", "save">>, 0, 0, [password |-> p])

AssignUserRole(c) ==
  /\ Managed
  /\ \E r \in Roles \cup {NoRole} :
       Start(c, "assign", IF r = NoRole THEN <<"read", "save">> ELSE <<"read", "role", "save">>, 0, 0, [role |-> r])

SetUserEmail(c) == \E e \in BOOLEAN : Start(c, "assign", <<"read", "save">>, 0, 0, [email |-> e])

CreateRole(c) ==
  \E r \in Roles : Start(c, "role", <<"findRole", "insertRole">>, 0, 0, [role |-> r])

DeleteRole(c) == \E r \in Roles : Start(c, "role", <<"dropRole">>, 0, 0, [role |-> r])

(* The permissions are replaced, by others or by none, of a role that need *)
(* not exist.                                                              *)
SetRolePermissions(c) ==
  \E r \in Roles, some \in BOOLEAN : Start(c, "role", <<"grant">>, 0, 0, [role |-> r, some |-> some])

-----------------------------------------------------------------------------
(***************************************************************************)
(* Their statements.                                                       *)
(***************************************************************************)
Doing(c, step) == call[c].todo # <<>> /\ Head(call[c].todo) = step

(* The call of c becomes o; others are no longer alone once a row of users *)
(* or roles has changed.                                                   *)
Yields(c, o) ==
  /\ UNCHANGED <<kind, calls>>
  /\ call' = [d \in Callers |-> IF d = c THEN o ELSE IF <<user, roles>>' = <<user, roles>> THEN call[d]
                                               ELSE [call[d] EXCEPT !.clean = FALSE]]

Onward(o) == IF Len(o.todo) = 1 THEN Quiet ELSE [o EXCEPT !.todo = Tail(@)]

Draw == drawn < MaxDrawn /\ drawn' = drawn + 1

(* What must hold of the row that was read.                                *)
Accepts(o, u) ==
  IF u = NoUser THEN o.action = "create"
  ELSE /\ o.action # "create"
       /\ o.action \in {"login", "change", "disable"} => o.shown = u.password
       /\ o.action = "setup" => ~u.otp
       /\ o.action = "enable" => ~u.otp /\ o.shown = u.secret
       /\ o.action = "code" => o.shown = u.secret
       /\ o.action = "forgot" => u.email

(* A login goes on with a code if the account wants one, and a new secret  *)
(* is drawn for setup.                                                     *)
Read(c) ==
  LET o == call[c] IN
  /\ Doing(c, "read")
  /\ UNCHANGED <<tables, stores, outages, overlapped, strays, uses>>
  /\ IF o.action = "setup" /\ Accepts(o, user)
     THEN Draw /\ Yields(c, [Onward(o) EXCEPT !.image = user, !.new = [secret |-> drawn', otp |-> FALSE]])
     ELSE /\ UNCHANGED drawn
          /\ Yields(c, IF ~Accepts(o, user) THEN Quiet
                       ELSE IF o.action = "login" THEN [o EXCEPT !.todo = <<IF user.otp THEN "pend" ELSE "open">>]
                       ELSE [Onward(o) EXCEPT !.image = user])
  /\ confirmed' = IF o.action = "enable" /\ Accepts(o, user) THEN confirmed \cup {o.shown} ELSE confirmed

(* Save writes the whole row as it was read, or inserts it again.          *)
Written(row, new) == [f \in DOMAIN row |-> IF f \in DOMAIN new THEN new[f] ELSE row[f]]

SaveUser_Columns(o) == IF user = NoUser THEN user ELSE Written(user, o.new)
SaveUser(o) == Written(o.image, o.new)

Save(c) ==
  /\ Doing(c, "save")
  /\ UNCHANGED <<roles, granted, stores, drawn, outages, confirmed, strays>>
  /\ user' = SaveUser(call[c])
  /\ overlapped' = (overlapped \/ ~call[c].clean)
  /\ uses' = IF call[c].action = "reset" THEN [uses EXCEPT ![call[c].token] = @ + 1] ELSE uses
  /\ Yields(c, Onward(call[c]))

(* AdminExists; then, as for any user, the key of the table decides.       *)
FindAdmin(c) ==
  /\ Doing(c, "admins")
  /\ UNCHANGED <<tables, stores, drawn, outages, ghosts>>
  /\ Yields(c, IF user = NoUser THEN Onward(call[c]) ELSE Quiet)

Insert(c) ==
  /\ Doing(c, "insert")
  /\ UNCHANGED <<roles, granted, stores, drawn, outages, confirmed, strays, uses>>
  /\ user' = IF user = NoUser THEN call[c].new ELSE user
  /\ overlapped' = (overlapped \/ (user = NoUser /\ ~call[c].clean))
  /\ Yields(c, Onward(call[c]))

(* Neither sessions nor tokens of the user are deleted.                    *)
Drop(c) ==
  /\ Doing(c, "drop")
  /\ UNCHANGED <<roles, granted, stores, drawn, outages, ghosts>>
  /\ user' = NoUser
  /\ Yields(c, Onward(call[c]))

(* Sessions: opened, looked up with the caller's row, closed.              *)
Open(c) ==
  /\ Doing(c, "open")
  /\ UNCHANGED <<tables, pending, resets, outages, confirmed, overlapped, strays>>
  /\ Draw
  /\ sessions' = sessions \cup {drawn'}
  /\ uses' = IF call[c].action = "code" THEN [uses EXCEPT ![call[c].token] = @ + 1] ELSE uses
  /\ Yields(c, Onward(call[c]))

Session(c) ==
  /\ Doing(c, "session")
  /\ UNCHANGED <<tables, stores, drawn, outages, ghosts>>
  /\ Yields(c, IF call[c].token \in sessions THEN Onward(call[c]) ELSE Quiet)

Caller(c) ==
  /\ Doing(c, "caller")
  /\ UNCHANGED <<tables, stores, drawn, outages, ghosts>>
  /\ Yields(c, IF user = NoUser THEN Quiet ELSE Onward(call[c]))

Close(c) ==
  /\ Doing(c, "close")
  /\ UNCHANGED <<tables, pending, resets, drawn, outages, ghosts>>
  /\ sessions' = sessions \ {call[c].token}
  /\ Yields(c, Onward(call[c]))

(* Tokens: issued, and consumed before anything else is done.              *)
IssuePending(c) ==
  /\ Doing(c, "pend")
  /\ UNCHANGED <<tables, sessions, resets, outages, ghosts>>
  /\ Draw
  /\ pending' = pending \cup {drawn'}
  /\ Yields(c, Onward(call[c]))

IssueReset(c) ==
  /\ Doing(c, "issue")
  /\ UNCHANGED <<tables, sessions, pending, outages, ghosts>>
  /\ Draw
  /\ resets' = resets \cup {drawn'}
  /\ Yields(c, Onward(call[c]))

Consumed_Kept(store, t) == store
Consumed(store, t) == store \ {t}

ConsumePending(c) ==
  /\ Doing(c, "pending")
  /\ UNCHANGED <<tables, sessions, resets, drawn, outages, ghosts>>
  /\ pending' = Consumed(pending, call[c].token)
  /\ Yields(c, IF call[c].token \in pending THEN Onward(call[c]) ELSE Quiet)

ConsumeReset(c) ==
  /\ Doing(c, "consume")
  /\ UNCHANGED <<tables, sessions, pending, drawn, outages, ghosts>>
  /\ resets' = Consumed(resets, call[c].token)
  /\ Yields(c, IF call[c].token \in resets THEN Onward(call[c]) ELSE Quiet)

(* Roles.  The deletion of one takes it from its users and deletes its     *)
(* permissions.                                                            *)
Role(c) ==
  /\ Doing(c, "role")
  /\ UNCHANGED <<tables, stores, drawn, outages, ghosts>>
  /\ Yields(c, IF call[c].new.role \in roles THEN Onward(call[c]) ELSE Quiet)

FindRole(c) ==
  /\ Doing(c, "findRole")
  /\ UNCHANGED <<tables, stores, drawn, outages, ghosts>>
  /\ Yields(c, IF call[c].new.role \in roles THEN Quiet ELSE Onward(call[c]))

InsertRole(c) ==
  /\ Doing(c, "insertRole")
  /\ UNCHANGED <<user, granted, stores, drawn, outages, ghosts>>
  /\ roles' = roles \cup {call[c].new.role}
  /\ Yields(c, Onward(call[c]))

Bereft_Kept(u, r) == u
Bereft(u, r) == IF u # NoUser /\ u.role = r THEN [u EXCEPT !.role = NoRole] ELSE u

DropRole(c) ==
  LET r == call[c].new.role IN
  /\ Doing(c, "dropRole")
  /\ UNCHANGED <<stores, drawn, outages, confirmed, overlapped, uses>>
  /\ strays' = strays \ {r}
  /\ user' = Bereft(user, r)
  /\ roles' = roles \ {r}
  /\ granted' = granted \ {r}
  /\ Yields(c, Onward(call[c]))

Grant(c) ==
  LET new == call[c].new IN
  /\ Doing(c, "grant")
  /\ UNCHANGED <<user, roles, stores, drawn, outages, confirmed, overlapped, uses>>
  /\ strays' = IF new.some /\ new.role \notin roles THEN strays \cup {new.role} ELSE strays
  /\ granted' = IF new.some THEN granted \cup {new.role} ELSE granted \ {new.role}
  /\ Yields(c, Onward(call[c]))

-----------------------------------------------------------------------------
(***************************************************************************)
(* A call fails or its process stops in the middle; tokens expire, or are  *)
(* lost by a process that keeps them in memory.                            *)
(***************************************************************************)
Break(c) ==
  /\ call[c] # Quiet
  /\ outages < MaxOutages /\ outages' = outages + 1
  /\ UNCHANGED <<tables, stores, drawn, ghosts>>
  /\ Yields(c, Quiet)

Expire(t) ==
  /\ t \in sessions \cup pending \cup resets
  /\ sessions' = sessions \ {t} /\ pending' = pending \ {t} /\ resets' = resets \ {t}
  /\ UNCHANGED <<kind, tables, drawn, call, calls, outages, ghosts>>

Call(c) ==
  \/ AuthInit(c) \/ AuthLogin(c) \/ OTPLoginStep(c) \/ AuthLogout(c) \/ ForgotPassword(c) \/ ResetPassword(c)
  \/ AuthChangePassword(c) \/ OTPSetup(c) \/ OTPEnable(c) \/ OTPDisable(c) \/ SetMyEmail(c)
  \/ CreateUser(c) \/ DeleteUser(c) \/ ResetUserPassword(c) \/ AssignUserRole(c) \/ SetUserEmail(c)
  \/ CreateRole(c) \/ DeleteRole(c) \/ SetRolePermissions(c)

Proceed(c) ==
  \/ Read(c) \/ Save(c) \/ FindAdmin(c) \/ Insert(c) \/ Drop(c)
  \/ Open(c) \/ Session(c) \/ Caller(c) \/ Close(c)
  \/ IssuePending(c) \/ IssueReset(c) \/ ConsumePending(c) \/ ConsumeReset(c)
  \/ Role(c) \/ FindRole(c) \/ InsertRole(c) \/ DropRole(c) \/ Grant(c)

NextAccounts ==
  \/ \E c \in Callers : Call(c) \/ Proceed(c) \/ Break(c)
  \/ \E t \in 1..MaxDrawn : Expire(t)

SpecAccounts == InitAccounts /\ [][NextAccounts]_accountVars

-----------------------------------------------------------------------------
(***************************************************************************)
(* Properties                                                              *)
(***************************************************************************)
AccountsTypeOK ==
  /\ user \in Users \cup {NoUser} /\ roles \subseteq Roles /\ granted \subseteq Roles
  /\ sessions \subseteq 1..drawn /\ pending \subseteq 1..drawn /\ resets \subseteq 1..drawn
  /\ drawn \in 0..MaxDrawn /\ calls \in 0..MaxCalls /\ outages \in 0..MaxOutages
  /\ kind = "admin" /\ user # NoUser => user.role = NoRole
  /\ \A c \in Callers :
       /\ call[c].image \in Users \cup {NoUser}
       /\ Doing(c, "save") => call[c].image # NoUser

(* A token is good for one password reset or one login, however often and  *)
(* by how many processes it is presented.                                  *)
TokensOnce == \A t \in 1..MaxDrawn : uses[t] <= 1

(* An account that asks for codes has a secret its user has shown a code   *)
(* of, whatever else was written at the same time.                         *)
EnabledIsConfirmed == user # NoUser /\ user.otp => user.secret \in confirmed

(* A role that was deleted leaves nothing to a role of the same name: no   *)
(* user has it and it has no permissions.  The exceptions are rows of      *)
(* users written by calls that were overtaken by another, and permissions  *)
(* that were set for a role that was not there.                            *)
RolesExist ==
  /\ user # NoUser /\ ~overlapped => user.role \in roles \cup {NoRole}
  /\ granted \subseteq roles \cup strays

(* Who may change which field of a row u: the user who shows the password  *)
(* or a code of the secret (AuthChangePassword, OTPEnable, OTPDisable; for *)
(* OTPSetup, when no codes are asked for yet), the holder of a token that  *)
(* was mailed, an administrator.                                           *)
Authorised(o, f, u) ==
  \/ f = "password" /\ (o.action \in {"reset", "assign"} \/ (o.action = "change" /\ o.shown = u.password))
  \/ f = "secret" /\ ((o.action = "setup" /\ ~u.otp) \/ (o.action = "disable" /\ o.shown = u.password))
  \/ f = "otp" /\ ((o.action = "enable" /\ o.shown = u.secret) \/ (o.action = "disable" /\ o.shown = u.password))
  \/ f = "email" /\ o.action \in {"email", "assign"}
  \/ f = "role" /\ o.action = "assign"

(* What a handler has checked about the row it has read still holds of the *)
(* row it changes, statements later, and no other field changes with it:   *)
(* unless another call changed the row in between, or the deletion of a    *)
(* role took it from the user.                                             *)
FieldsGuarded ==
  [][user # NoUser /\ user' # NoUser =>
       \A f \in DOMAIN user :
         user'[f] # user[f] =>
           \E c \in Callers :
             \/ Doing(c, "dropRole") /\ f = "role" /\ user'.role = NoRole
             \/ Doing(c, "save") /\ (call[c].clean => Authorised(call[c], f, user))]_accountVars
=============================================================================
