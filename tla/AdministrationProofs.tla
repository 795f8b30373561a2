------------------------- MODULE AdministrationProofs -----------------------
(* Proofs about Accounts (the first two parts) and GroupAdmin (the other    *)
(* two), which MC_Administration brings together: types of both, tokens     *)
(* that work once, one-time passwords that were confirmed, roles that       *)
(* exist; rollbacks that undo, edits that stay, commands that can be put    *)
(* back.                                                                    *)
EXTENDS MC_Administration, TLAPS

-----------------------------------------------------------------------------
(***************************************************************************)
(* ACCOUNTS: what calls are.                                               *)
(***************************************************************************)
(* What a call writes into a row, and a call.                               *)
NewRows ==
  [password : Passwords, role : Roles \cup {NoRole}, email : {FALSE}, secret : {0}, otp : {FALSE}]
NewRoles == [role : Roles \cup {NoRole}]
NewCodes == [otp : BOOLEAN] \cup [secret : 0..MaxDrawn, otp : {FALSE}]
Changes ==
  {<<>>} \cup [password : Passwords] \cup [email : BOOLEAN] \cup NewRoles \cup NewCodes
  \cup [role : Roles] \cup [role : Roles, some : BOOLEAN] \cup NewRows

Actions ==
  {"none", "init", "login", "code", "logout", "forgot", "reset", "change", "setup", "enable", "disable",
   "email", "create", "delete", "assign", "role"}
Steps ==
  {"admins", "insert", "read", "pend", "open", "pending", "close", "issue", "consume", "save", "session",
   "caller", "role", "drop", "findRole", "insertRole", "dropRole", "grant"}

Calls ==
  [action : Actions, todo : Seq(Steps), token : Nat, shown : Passwords \cup Nat,
   new : Changes, image : Users \cup {NoUser}, clean : BOOLEAN]

(* The statements a call may have before it.                                *)
Is(t, a) == Len(t) = 1 /\ t[1] = a
Are2(t, a, b) == Len(t) = 2 /\ t[1] = a /\ t[2] = b
Are3(t, a, b, c) == Len(t) = 3 /\ t[1] = a /\ t[2] = b /\ t[3] = c
Are4(t, a, b, c, d) == Len(t) = 4 /\ t[1] = a /\ t[2] = b /\ t[3] = c /\ t[4] = d

OnPlan(o) ==
  \/ o.action = "none" /\ o.todo = <<>>
  \/ o.action = "init" /\ (Are2(o.todo, "admins", "insert") \/ Is(o.todo, "insert"))
  \/ o.action = "login" /\ (Is(o.todo, "read") \/ Is(o.todo, "pend") \/ Is(o.todo, "open"))
  \/ /\ o.action = "code"
     /\ \/ Are3(o.todo, "pending", "read", "open") \/ Are2(o.todo, "read", "open") \/ Is(o.todo, "open")
  \/ o.action = "logout" /\ Is(o.todo, "close")
  \/ o.action = "forgot" /\ (Are2(o.todo, "read", "issue") \/ Is(o.todo, "issue"))
  \/ /\ o.action = "reset"
     /\ \/ Are3(o.todo, "consume", "read", "save") \/ Are2(o.todo, "read", "save") \/ Is(o.todo, "save")
  \/ /\ o.action \in {"change", "setup", "enable", "disable", "email"}
     /\ \/ Are4(o.todo, "session", "caller", "read", "save") \/ Are3(o.todo, "caller", "read", "save")
        \/ Are2(o.todo, "read", "save") \/ Is(o.todo, "save")
  \/ /\ o.action = "create"
     /\ \/ Are2(o.todo, "read", "insert") \/ Are3(o.todo, "read", "role", "insert")
        \/ Are2(o.todo, "role", "insert") \/ Is(o.todo, "insert")
  \/ o.action = "delete" /\ Is(o.todo, "drop")
  \/ /\ o.action = "assign"
     /\ \/ Are2(o.todo, "read", "save") \/ Are3(o.todo, "read", "role", "save")
        \/ Are2(o.todo, "role", "save") \/ Is(o.todo, "save")
  \/ /\ o.action = "role"
     /\ \/ Are2(o.todo, "findRole", "insertRole") \/ Is(o.todo, "insertRole")
        \/ Is(o.todo, "dropRole") \/ Is(o.todo, "grant")

(* What it writes fits its action, and an administrator is not managed.     *)
Fits(o) ==
  /\ o.action \in {"reset", "change"} => o.new \in [password : Passwords]
  /\ o.action = "email" => o.new \in [email : BOOLEAN]
  /\ o.action = "setup" => o.new \in [otp : {FALSE}] \cup [secret : 0..MaxDrawn, otp : {FALSE}]
  /\ o.action = "enable" => o.new \in [otp : {TRUE}]
  /\ o.action = "disable" => o.new \in [secret : 0..MaxDrawn, otp : {FALSE}]
  /\ o.action = "assign" => o.new \in [password : Passwords] \cup [email : BOOLEAN] \cup NewRoles
  /\ o.action \in {"init", "create"} => o.new \in NewRows
  /\ o.action = "role" => o.new \in [role : Roles] \cup [role : Roles, some : BOOLEAN]
  /\ kind = "admin" /\ o.action \in {"init", "create"} => o.new.role = NoRole
  /\ kind = "admin" /\ o.action = "assign" => o.new \in [email : BOOLEAN]

(* The row has been read before it is saved.                                *)
Saving(o) == Is(o.todo, "save")
HasRead(o) == Saving(o) \/ Are2(o.todo, "role", "save")

CallsOK ==
  /\ call \in [Callers -> Calls]
  /\ \A c \in Callers :
       /\ OnPlan(call[c]) /\ Fits(call[c])
       /\ HasRead(call[c]) => call[c].image # NoUser
       /\ kind = "admin" /\ call[c].image # NoUser => call[c].image.role = NoRole

-----------------------------------------------------------------------------
LEMMA QuietCall == Quiet \in Calls /\ OnPlan(Quiet) /\ Fits(Quiet) /\ ~HasRead(Quiet) /\ Quiet.image = NoUser
  <1>1. <<>> \in Changes /\ <<>> \in Seq(Steps)
    BY DEF Changes
  <1>2. Quiet \in Calls
    BY <1>1 DEF Quiet, Calls, Actions
  <1>3. OnPlan(Quiet) /\ ~HasRead(Quiet) /\ Quiet.image = NoUser
    BY DEF Quiet, OnPlan, HasRead, Saving, Is, Are2
  <1>4. Fits(Quiet)
    BY DEF Quiet, Fits
  <1> QED
    BY <1>2, <1>3, <1>4

(* A call that goes on stays on its plan.                                   *)
LEMMA OnwardCall ==
  ASSUME NEW o \in Calls, OnPlan(o), Fits(o), o.todo # <<>>
  PROVE  /\ Onward(o) \in Calls
         /\ \/ Onward(o) = Quiet
            \/ /\ Onward(o).todo = Tail(o.todo) /\ Len(o.todo) # 1
               /\ Onward(o).action = o.action /\ Onward(o).token = o.token /\ Onward(o).new = o.new
               /\ Onward(o).image = o.image /\ Onward(o).clean = o.clean /\ Onward(o).shown = o.shown
         /\ Fits(Onward(o))
         /\ OnPlan(Onward(o))
  <1>1. CASE Len(o.todo) = 1
    BY <1>1, QuietCall DEF Onward
  <1>2. CASE Len(o.todo) # 1
    <2>1. Onward(o) = [o EXCEPT !.todo = Tail(@)]
      BY <1>2 DEF Onward
    <2>2. Tail(o.todo) \in Seq(Steps)
      BY DEF Calls
    <2>3. Onward(o) \in Calls
      BY <2>1, <2>2 DEF Calls
    <2>4. /\ Onward(o).todo = Tail(o.todo)
          /\ Onward(o).action = o.action /\ Onward(o).token = o.token /\ Onward(o).new = o.new
          /\ Onward(o).image = o.image /\ Onward(o).clean = o.clean /\ Onward(o).shown = o.shown
      BY <2>1 DEF Calls
    <2>5. Fits(Onward(o))
      BY <2>4 DEF Fits
    <2>6. OnPlan(Onward(o))
      BY <1>2, <2>4 DEF OnPlan, Is, Are2, Are3, Are4, Calls, Steps
    <2> QED
      BY <1>2, <2>3, <2>4, <2>5, <2>6
  <1> QED
    BY <1>1, <1>2

(* The fields of the row that a request writes.                             *)
LEMMA SavedRow ==
  ASSUME NEW o \in Calls, o.image # NoUser, OnPlan(o), Fits(o), Saving(o)
  PROVE  /\ SaveUser(o) \in Users
         /\ kind = "admin" /\ o.image.role = NoRole => SaveUser(o).role = NoRole
         /\ SaveUser(o).role = o.image.role
            \/ (o.action = "assign" /\ o.new \in NewRoles /\ SaveUser(o).role = o.new.role)
         /\ SaveUser(o).secret = o.image.secret \/ SaveUser(o).otp = FALSE
         /\ o.action = "enable" \/ SaveUser(o).otp = o.image.otp \/ SaveUser(o).otp = FALSE
  <1> DEFINE v(f) == IF f \in DOMAIN o.new THEN o.new[f] ELSE o.image[f]
             new == o.new
             u == o.image
  <1>1. u \in Users
    BY DEF Calls
  <1>0. SaveUser(o) = [password |-> v("password"), role |-> v("role"), email |-> v("email"),
                       secret |-> v("secret"), otp |-> v("otp")]
    BY <1>1 DEF SaveUser, Written, Users
  <1>2. CASE new \in [password : Passwords]
    <2>1. /\ new.password \in Passwords
          /\ SaveUser(o) = [password |-> new.password, role |-> u.role, email |-> u.email,
                            secret |-> u.secret, otp |-> u.otp]
      BY <1>0, <1>2
    <2>2. SaveUser(o) \in Users
      BY <1>1, <2>1 DEF Users
    <2>3. SaveUser(o).role = u.role /\ SaveUser(o).secret = u.secret /\ SaveUser(o).otp = u.otp
      BY <2>1
    <2> QED
      BY <1>2, <2>2, <2>3
  <1>3. CASE new \in [email : BOOLEAN]
    <2>1. /\ new.email \in BOOLEAN
          /\ SaveUser(o) = [password |-> u.password, role |-> u.role, email |-> new.email,
                            secret |-> u.secret, otp |-> u.otp]
      BY <1>0, <1>3
    <2>2. SaveUser(o) \in Users
      BY <1>1, <2>1 DEF Users
    <2>3. SaveUser(o).role = u.role /\ SaveUser(o).secret = u.secret /\ SaveUser(o).otp = u.otp
      BY <2>1
    <2> QED
      BY <1>3, <2>2, <2>3
  <1>4. CASE o.action = "assign" /\ new \in NewRoles /\ kind # "admin"
    <2>1. /\ new.role \in Roles \cup {NoRole}
          /\ SaveUser(o) = [password |-> u.password, role |-> new.role, email |-> u.email,
                            secret |-> u.secret, otp |-> u.otp]
      BY <1>0, <1>4 DEF NewRoles
    <2>2. SaveUser(o) \in Users
      BY <1>1, <2>1 DEF Users
    <2>3. SaveUser(o).role = new.role /\ SaveUser(o).secret = u.secret /\ SaveUser(o).otp = u.otp
      BY <2>1
    <2> QED
      BY <1>4, <2>2, <2>3
  <1>5. CASE o.action \in {"setup", "disable"} /\ new \in [secret : 0..MaxDrawn, otp : {FALSE}]
    <2>1. /\ new.secret \in 0..MaxDrawn
          /\ SaveUser(o) = [password |-> u.password, role |-> u.role, email |-> u.email,
                            secret |-> new.secret, otp |-> FALSE]
      BY <1>0, <1>5
    <2>2. SaveUser(o) \in Users
      BY <1>1, <2>1 DEF Users
    <2>3. SaveUser(o).role = u.role /\ SaveUser(o).secret = new.secret /\ SaveUser(o).otp = FALSE
      BY <2>1
    <2> QED
      BY <1>5, <2>2, <2>3
  <1>6. CASE o.action = "setup" /\ new \in [otp : {FALSE}]
    <2>1. SaveUser(o) = [password |-> u.password, role |-> u.role, email |-> u.email,
                         secret |-> u.secret, otp |-> FALSE]
      BY <1>0, <1>6
    <2>2. SaveUser(o) \in Users
      BY <1>1, <2>1 DEF Users
    <2>3. SaveUser(o).role = u.role /\ SaveUser(o).secret = u.secret /\ SaveUser(o).otp = FALSE
      BY <2>1
    <2> QED
      BY <1>6, <2>2, <2>3
  <1>7. CASE o.action = "enable" /\ new \in [otp : {TRUE}]
    <2>1. SaveUser(o) = [password |-> u.password, role |-> u.role, email |-> u.email,
                         secret |-> u.secret, otp |-> TRUE]
      BY <1>0, <1>7
    <2>2. SaveUser(o) \in Users
      BY <1>1, <2>1 DEF Users
    <2>3. SaveUser(o).role = u.role /\ SaveUser(o).secret = u.secret /\ SaveUser(o).otp = TRUE
      BY <2>1
    <2> QED
      BY <1>7, <2>2, <2>3
  <1>8. o.action \in {"reset", "change", "email", "setup", "enable", "disable", "assign"}
    BY DEF OnPlan, Saving, Is, Are2, Are3, Are4
  <1>9. o.action = "assign" => \/ new \in [password : Passwords] \cup [email : BOOLEAN]
                                \/ (kind # "admin" /\ new \in NewRoles)
    BY DEF Fits
  <1> HIDE DEF u, new, v
  <1>10. CASE o.action = "assign"
    BY <1>2, <1>3, <1>4, <1>9, <1>10 DEF new, u
  <1>11. CASE o.action \in {"reset", "change", "email"}
    BY <1>2, <1>3, <1>11 DEF Fits, new, u
  <1>12. CASE o.action \in {"setup", "disable", "enable"}
    BY <1>5, <1>6, <1>7, <1>12 DEF Fits, new, u
  <1> QED
    BY <1>8, <1>10, <1>11, <1>12

-----------------------------------------------------------------------------
(***************************************************************************)
(* What the steps do to the calls.                                         *)
(***************************************************************************)
(* A call that has consumed its token.                                      *)
Holding(o) ==
  \/ o.action = "code" /\ (Are2(o.todo, "read", "open") \/ Is(o.todo, "open"))
  \/ o.action = "reset" /\ (Are2(o.todo, "read", "save") \/ Is(o.todo, "save"))

(* A call that will look up the role it names.                              *)
Unchecked(o) ==
  \/ Are3(o.todo, "read", "role", "insert") \/ Are2(o.todo, "role", "insert")
  \/ Are3(o.todo, "read", "role", "save") \/ Are2(o.todo, "role", "save")

RoleNamed(o) ==
  IF o.action \in {"init", "create"} \/ (o.action = "assign" /\ o.new \in NewRoles) THEN o.new.role ELSE NoRole

(* A call that begins.                                                      *)
Fresh(o) ==
  /\ o.image = NoUser /\ ~HasRead(o) /\ ~Holding(o)
  /\ o.action \in {"code", "reset"} => o.token \in 1..drawn
  /\ Unchecked(o) \/ RoleNamed(o) = NoRole

Begun(c, o) ==
  /\ o \in Calls /\ OnPlan(o) /\ Fits(o) /\ Fresh(o)
  /\ call' = [call EXCEPT ![c] = o]
  /\ calls' \in 0..MaxCalls
  /\ UNCHANGED <<kind, tables, stores, drawn, outages, ghosts>>

LEMMA Begins ==
  ASSUME AccountsTypeOK, NEW c \in Callers, NEW action \in Actions, NEW todo \in Seq(Steps), NEW token \in Nat,
         NEW shown \in Passwords \cup Nat, NEW new \in Changes, NEW o,
         o = [action |-> action, todo |-> todo, token |-> token, shown |-> shown,
              new |-> new, image |-> NoUser, clean |-> TRUE],
         Start(c, action, todo, token, shown, new),
         OnPlan(o), Fits(o), Fresh(o)
  PROVE  Begun(c, o)
  <1>1. o \in Calls
    BY DEF Calls
  <1>2. calls' \in 0..MaxCalls
    BY BoundAssumption DEF Start, CountCall, AccountsTypeOK
  <1>3. call' = [call EXCEPT ![c] = o]
    BY DEF Start
  <1>4. UNCHANGED <<kind, tables, stores, drawn, outages, ghosts>>
    BY DEF Start
  <1> QED
    BY <1>1, <1>2, <1>3, <1>4 DEF Begun

LEMMA CallBegins ==
  ASSUME AccountsTypeOK, NEW c \in Callers, Call(c)
  PROVE  \E o \in Calls : Begun(c, o)
  <1>1. sessions \subseteq Nat /\ 1..drawn \subseteq Nat
    BY BoundAssumption DEF AccountsTypeOK
  <1>2. ASSUME NEW p \in Passwords, Start(c, "init", <<"admins", "insert">>, 0, 0, [password |-> p, role |-> NoRole, email |-> FALSE, secret |-> 0, otp |-> FALSE])
        PROVE  \E o \in Calls : Begun(c, o)
    <2> DEFINE todo == <<"admins", "insert">>
               new == [password |-> p, role |-> NoRole, email |-> FALSE, secret |-> 0, otp |-> FALSE]
               o == [action |-> "init", todo |-> todo, token |-> 0, shown |-> 0,
                     new |-> new, image |-> NoUser, clean |-> TRUE]
    <2>1. new \in Changes /\ Fits(o)
      BY <1>2 DEF Changes, Fits, NewRows, NewRoles, NewCodes, Managed
    <2>2. OnPlan(o) /\ Fresh(o)
      BY <1>2 DEF OnPlan, Is, Are2, Are3, Are4, Fresh, HasRead, Saving, Holding, Unchecked, RoleNamed, NewRoles
    <2>3. todo \in Seq(Steps) /\ "init" \in Actions /\ 0 \in Nat /\ 0 \in Passwords \cup Nat
      BY <1>1, <1>2 DEF Actions, Steps
    <2> HIDE DEF todo, new
    <2>4. Start(c, "init", todo, 0, 0, new)
      BY <1>2 DEF todo, new
    <2>5. Begun(c, o)
      BY <2>1, <2>2, <2>3, <2>4, Begins
    <2> QED
      BY <2>5 DEF Begun
  <1>3. ASSUME NEW p \in Passwords, Start(c, "login", <<"read">>, 0, p, <<>>)
        PROVE  \E o \in Calls : Begun(c, o)
    <2> DEFINE todo == <<"read">>
               new == <<>>
               o == [action |-> "login", todo |-> todo, token |-> 0, shown |-> p,
                     new |-> new, image |-> NoUser, clean |-> TRUE]
    <2>1. new \in Changes /\ Fits(o)
      BY <1>3 DEF Changes, Fits, NewRows, NewRoles, NewCodes, Managed
    <2>2. OnPlan(o) /\ Fresh(o)
      BY <1>3 DEF OnPlan, Is, Are2, Are3, Are4, Fresh, HasRead, Saving, Holding, Unchecked, RoleNamed, NewRoles
    <2>3. todo \in Seq(Steps) /\ "login" \in Actions /\ 0 \in Nat /\ p \in Passwords \cup Nat
      BY <1>1, <1>3 DEF Actions, Steps
    <2> HIDE DEF todo, new
    <2>4. Start(c, "login", todo, 0, p, new)
      BY <1>3 DEF todo, new
    <2>5. Begun(c, o)
      BY <2>1, <2>2, <2>3, <2>4, Begins
    <2> QED
      BY <2>5 DEF Begun
  <1>4. ASSUME NEW t \in 1..drawn, NEW code \in 0..drawn, Start(c, "code", <<"pending", "read", "open">>, t, code, <<>>)
        PROVE  \E o \in Calls : Begun(c, o)
    <2> DEFINE todo == <<"pending", "read", "open">>
               new == <<>>
               o == [action |-> "code", todo |-> todo, token |-> t, shown |-> code,
                     new |-> new, image |-> NoUser, clean |-> TRUE]
    <2>1. new \in Changes /\ Fits(o)
      BY <1>4 DEF Changes, Fits, NewRows, NewRoles, NewCodes, Managed
    <2>2. OnPlan(o) /\ Fresh(o)
      BY <1>4 DEF OnPlan, Is, Are2, Are3, Are4, Fresh, HasRead, Saving, Holding, Unchecked, RoleNamed, NewRoles
    <2>3. todo \in Seq(Steps) /\ "code" \in Actions /\ t \in Nat /\ code \in Passwords \cup Nat
      BY <1>1, <1>4 DEF Actions, Steps
    <2> HIDE DEF todo, new
    <2>4. Start(c, "code", todo, t, code, new)
      BY <1>4 DEF todo, new
    <2>5. Begun(c, o)
      BY <2>1, <2>2, <2>3, <2>4, Begins
    <2> QED
      BY <2>5 DEF Begun
  <1>5. ASSUME NEW t \in sessions, Start(c, "logout", <<"close">>, t, 0, <<>>)
        PROVE  \E o \in Calls : Begun(c, o)
    <2> DEFINE todo == <<"close">>
               new == <<>>
               o == [action |-> "logout", todo |-> todo, token |-> t, shown |-> 0,
                     new |-> new, image |-> NoUser, clean |-> TRUE]
    <2>1. new \in Changes /\ Fits(o)
      BY <1>5 DEF Changes, Fits, NewRows, NewRoles, NewCodes, Managed
    <2>2. OnPlan(o) /\ Fresh(o)
      BY <1>5 DEF OnPlan, Is, Are2, Are3, Are4, Fresh, HasRead, Saving, Holding, Unchecked, RoleNamed, NewRoles
    <2>3. todo \in Seq(Steps) /\ "logout" \in Actions /\ t \in Nat /\ 0 \in Passwords \cup Nat
      BY <1>1, <1>5 DEF Actions, Steps
    <2> HIDE DEF todo, new
    <2>4. Start(c, "logout", todo, t, 0, new)
      BY <1>5 DEF todo, new
    <2>5. Begun(c, o)
      BY <2>1, <2>2, <2>3, <2>4, Begins
    <2> QED
      BY <2>5 DEF Begun
  <1>6. ASSUME Start(c, "forgot", <<"read", "issue">>, 0, 0, <<>>)
        PROVE  \E o \in Calls : Begun(c, o)
    <2> DEFINE todo == <<"read", "issue">>
               new == <<>>
               o == [action |-> "forgot", todo |-> todo, token |-> 0, shown |-> 0,
                     new |-> new, image |-> NoUser, clean |-> TRUE]
    <2>1. new \in Changes /\ Fits(o)
      BY <1>6 DEF Changes, Fits, NewRows, NewRoles, NewCodes, Managed
    <2>2. OnPlan(o) /\ Fresh(o)
      BY <1>6 DEF OnPlan, Is, Are2, Are3, Are4, Fresh, HasRead, Saving, Holding, Unchecked, RoleNamed, NewRoles
    <2>3. todo \in Seq(Steps) /\ "forgot" \in Actions /\ 0 \in Nat /\ 0 \in Passwords \cup Nat
      BY <1>1, <1>6 DEF Actions, Steps
    <2> HIDE DEF todo, new
    <2>4. Start(c, "forgot", todo, 0, 0, new)
      BY <1>6 DEF todo, new
    <2>5. Begun(c, o)
      BY <2>1, <2>2, <2>3, <2>4, Begins
    <2> QED
      BY <2>5 DEF Begun
  <1>7. ASSUME NEW t \in 1..drawn, NEW p \in Passwords, Start(c, "reset", <<"consume", "read", "save">>, t, 0, [password |-> p])
        PROVE  \E o \in Calls : Begun(c, o)
    <2> DEFINE todo == <<"consume", "read", "save">>
               new == [password |-> p]
               o == [action |-> "reset", todo |-> todo, token |-> t, shown |-> 0,
                     new |-> new, image |-> NoUser, clean |-> TRUE]
    <2>1. new \in Changes /\ Fits(o)
      BY <1>7 DEF Changes, Fits, NewRows, NewRoles, NewCodes, Managed
    <2>2. OnPlan(o) /\ Fresh(o)
      BY <1>7 DEF OnPlan, Is, Are2, Are3, Are4, Fresh, HasRead, Saving, Holding, Unchecked, RoleNamed, NewRoles
    <2>3. todo \in Seq(Steps) /\ "reset" \in Actions /\ t \in Nat /\ 0 \in Passwords \cup Nat
      BY <1>1, <1>7 DEF Actions, Steps
    <2> HIDE DEF todo, new
    <2>4. Start(c, "reset", todo, t, 0, new)
      BY <1>7 DEF todo, new
    <2>5. Begun(c, o)
      BY <2>1, <2>2, <2>3, <2>4, Begins
    <2> QED
      BY <2>5 DEF Begun
  <1>8. ASSUME NEW t \in sessions, NEW old \in Passwords, NEW p \in Passwords, Start(c, "change", <<"session", "caller", "read", "save">>, t, old, [password |-> p])
        PROVE  \E o \in Calls : Begun(c, o)
    <2> DEFINE todo == <<"session", "caller", "read", "save">>
               new == [password |-> p]
               o == [action |-> "change", todo |-> todo, token |-> t, shown |-> old,
                     new |-> new, image |-> NoUser, clean |-> TRUE]
    <2>1. new \in Changes /\ Fits(o)
      BY <1>8 DEF Changes, Fits, NewRows, NewRoles, NewCodes, Managed
    <2>2. OnPlan(o) /\ Fresh(o)
      BY <1>8 DEF OnPlan, Is, Are2, Are3, Are4, Fresh, HasRead, Saving, Holding, Unchecked, RoleNamed, NewRoles
    <2>3. todo \in Seq(Steps) /\ "change" \in Actions /\ t \in Nat /\ old \in Passwords \cup Nat
      BY <1>1, <1>8 DEF Actions, Steps
    <2> HIDE DEF todo, new
    <2>4. Start(c, "change", todo, t, old, new)
      BY <1>8 DEF todo, new
    <2>5. Begun(c, o)
      BY <2>1, <2>2, <2>3, <2>4, Begins
    <2> QED
      BY <2>5 DEF Begun
  <1>9. ASSUME NEW t \in sessions, Start(c, "setup", <<"session", "caller", "read", "save">>, t, 0, [otp |-> FALSE])
        PROVE  \E o \in Calls : Begun(c, o)
    <2> DEFINE todo == <<"session", "caller", "read", "save">>
               new == [otp |-> FALSE]
               o == [action |-> "setup", todo |-> todo, token |-> t, shown |-> 0,
                     new |-> new, image |-> NoUser, clean |-> TRUE]
    <2>1. new \in Changes /\ Fits(o)
      BY <1>9 DEF Changes, Fits, NewRows, NewRoles, NewCodes, Managed
    <2>2. OnPlan(o) /\ Fresh(o)
      BY <1>9 DEF OnPlan, Is, Are2, Are3, Are4, Fresh, HasRead, Saving, Holding, Unchecked, RoleNamed, NewRoles
    <2>3. todo \in Seq(Steps) /\ "setup" \in Actions /\ t \in Nat /\ 0 \in Passwords \cup Nat
      BY <1>1, <1>9 DEF Actions, Steps
    <2> HIDE DEF todo, new
    <2>4. Start(c, "setup", todo, t, 0, new)
      BY <1>9 DEF todo, new
    <2>5. Begun(c, o)
      BY <2>1, <2>2, <2>3, <2>4, Begins
    <2> QED
      BY <2>5 DEF Begun
  <1>10. ASSUME NEW t \in sessions, NEW code \in 1..drawn, Start(c, "enable", <<"session", "caller", "read", "save">>, t, code, [otp |-> TRUE])
        PROVE  \E o \in Calls : Begun(c, o)
    <2> DEFINE todo == <<"session", "caller", "read", "save">>
               new == [otp |-> TRUE]
               o == [action |-> "enable", todo |-> todo, token |-> t, shown |-> code,
                     new |-> new, image |-> NoUser, clean |-> TRUE]
    <2>1. new \in Changes /\ Fits(o)
      BY <1>10 DEF Changes, Fits, NewRows, NewRoles, NewCodes, Managed
    <2>2. OnPlan(o) /\ Fresh(o)
      BY <1>10 DEF OnPlan, Is, Are2, Are3, Are4, Fresh, HasRead, Saving, Holding, Unchecked, RoleNamed, NewRoles
    <2>3. todo \in Seq(Steps) /\ "enable" \in Actions /\ t \in Nat /\ code \in Passwords \cup Nat
      BY <1>1, <1>10 DEF Actions, Steps
    <2> HIDE DEF todo, new
    <2>4. Start(c, "enable", todo, t, code, new)
      BY <1>10 DEF todo, new
    <2>5. Begun(c, o)
      BY <2>1, <2>2, <2>3, <2>4, Begins
    <2> QED
      BY <2>5 DEF Begun
  <1>11. ASSUME NEW t \in sessions, NEW p \in Passwords, Start(c, "disable", <<"session", "caller", "read", "save">>, t, p, [secret |-> 0, otp |-> FALSE])
        PROVE  \E o \in Calls : Begun(c, o)
    <2> DEFINE todo == <<"session", "caller", "read", "save">>
               new == [secret |-> 0, otp |-> FALSE]
               o == [action |-> "disable", todo |-> todo, token |-> t, shown |-> p,
                     new |-> new, image |-> NoUser, clean |-> TRUE]
    <2>0. 0 \in 0..MaxDrawn
      BY BoundAssumption
    <2>1. new \in [secret : 0..MaxDrawn, otp : {FALSE}]
      BY <2>0
    <2>6. new \in Changes /\ Fits(o)
      BY <2>1 DEF Changes, Fits, NewCodes
    <2>2. OnPlan(o) /\ Fresh(o)
      BY <1>11 DEF OnPlan, Is, Are2, Are3, Are4, Fresh, HasRead, Saving, Holding, Unchecked, RoleNamed, NewRoles
    <2>3. todo \in Seq(Steps) /\ "disable" \in Actions /\ t \in Nat /\ p \in Passwords \cup Nat
      BY <1>1, <1>11 DEF Actions, Steps
    <2> HIDE DEF todo, new
    <2>4. Start(c, "disable", todo, t, p, new)
      BY <1>11 DEF todo, new
    <2>5. Begun(c, o)
      BY <2>6, <2>2, <2>3, <2>4, Begins
    <2> QED
      BY <2>5 DEF Begun
  <1>12. ASSUME NEW t \in sessions, NEW e \in BOOLEAN, Start(c, "email", <<"session", "caller", "read", "save">>, t, 0, [email |-> e])
        PROVE  \E o \in Calls : Begun(c, o)
    <2> DEFINE todo == <<"session", "caller", "read", "save">>
               new == [email |-> e]
               o == [action |-> "email", todo |-> todo, token |-> t, shown |-> 0,
                     new |-> new, image |-> NoUser, clean |-> TRUE]
    <2>1. new \in Changes /\ Fits(o)
      BY <1>12 DEF Changes, Fits, NewRows, NewRoles, NewCodes, Managed
    <2>2. OnPlan(o) /\ Fresh(o)
      BY <1>12 DEF OnPlan, Is, Are2, Are3, Are4, Fresh, HasRead, Saving, Holding, Unchecked, RoleNamed, NewRoles
    <2>3. todo \in Seq(Steps) /\ "email" \in Actions /\ t \in Nat /\ 0 \in Passwords \cup Nat
      BY <1>1, <1>12 DEF Actions, Steps
    <2> HIDE DEF todo, new
    <2>4. Start(c, "email", todo, t, 0, new)
      BY <1>12 DEF todo, new
    <2>5. Begun(c, o)
      BY <2>1, <2>2, <2>3, <2>4, Begins
    <2> QED
      BY <2>5 DEF Begun
  <1>13. ASSUME Managed, NEW p \in Passwords, NEW r \in Roles \cup {NoRole}, Start(c, "create", IF r = NoRole THEN <<"read", "insert">> ELSE <<"read", "role", "insert">>, 0, 0, [password |-> p, role |-> r, email |-> FALSE, secret |-> 0, otp |-> FALSE])
        PROVE  \E o \in Calls : Begun(c, o)
    <2> DEFINE todo == IF r = NoRole THEN <<"read", "insert">> ELSE <<"read", "role", "insert">>
               new == [password |-> p, role |-> r, email |-> FALSE, secret |-> 0, otp |-> FALSE]
               o == [action |-> "create", todo |-> todo, token |-> 0, shown |-> 0,
                     new |-> new, image |-> NoUser, clean |-> TRUE]
    <2>1. new \in Changes /\ Fits(o)
      BY <1>13 DEF Changes, Fits, NewRows, NewRoles, NewCodes, Managed
    <2>2. OnPlan(o) /\ Fresh(o)
      BY <1>13 DEF OnPlan, Is, Are2, Are3, Are4, Fresh, HasRead, Saving, Holding, Unchecked, RoleNamed, NewRoles
    <2>0. <<"read", "insert">> \in Seq(Steps) /\ <<"read", "role", "insert">> \in Seq(Steps)
      BY DEF Steps
    <2>3. todo \in Seq(Steps) /\ "create" \in Actions /\ 0 \in Nat /\ 0 \in Passwords \cup Nat
      BY <1>1, <1>13, <2>0 DEF Actions
    <2> HIDE DEF todo, new
    <2>4. Start(c, "create", todo, 0, 0, new)
      BY <1>13 DEF todo, new
    <2>5. Begun(c, o)
      BY <2>1, <2>2, <2>3, <2>4, Begins
    <2> QED
      BY <2>5 DEF Begun
  <1>14. ASSUME Start(c, "delete", <<"drop">>, 0, 0, <<>>)
        PROVE  \E o \in Calls : Begun(c, o)
    <2> DEFINE todo == <<"drop">>
               new == <<>>
               o == [action |-> "delete", todo |-> todo, token |-> 0, shown |-> 0,
                     new |-> new, image |-> NoUser, clean |-> TRUE]
    <2>1. new \in Changes /\ Fits(o)
      BY <1>14 DEF Changes, Fits, NewRows, NewRoles, NewCodes, Managed
    <2>2. OnPlan(o) /\ Fresh(o)
      BY <1>14 DEF OnPlan, Is, Are2, Are3, Are4, Fresh, HasRead, Saving, Holding, Unchecked, RoleNamed, NewRoles
    <2>3. todo \in Seq(Steps) /\ "delete" \in Actions /\ 0 \in Nat /\ 0 \in Passwords \cup Nat
      BY <1>1, <1>14 DEF Actions, Steps
    <2> HIDE DEF todo, new
    <2>4. Start(c, "delete", todo, 0, 0, new)
      BY <1>14 DEF todo, new
    <2>5. Begun(c, o)
      BY <2>1, <2>2, <2>3, <2>4, Begins
    <2> QED
      BY <2>5 DEF Begun
  <1>15. ASSUME Managed, NEW p \in Passwords, Start(c, "assign", <<"read", "save">>, 0, 0, [password |-> p])
        PROVE  \E o \in Calls : Begun(c, o)
    <2> DEFINE todo == <<"read", "save">>
               new == [password |-> p]
               o == [action |-> "assign", todo |-> todo, token |-> 0, shown |-> 0,
                     new |-> new, image |-> NoUser, clean |-> TRUE]
    <2>1. new \in Changes /\ Fits(o)
      BY <1>15 DEF Changes, Fits, NewRows, NewRoles, NewCodes, Managed
    <2>2. OnPlan(o) /\ Fresh(o)
      BY <1>15 DEF OnPlan, Is, Are2, Are3, Are4, Fresh, HasRead, Saving, Holding, Unchecked, RoleNamed, NewRoles
    <2>3. todo \in Seq(Steps) /\ "assign" \in Actions /\ 0 \in Nat /\ 0 \in Passwords \cup Nat
      BY <1>1, <1>15 DEF Actions, Steps
    <2> HIDE DEF todo, new
    <2>4. Start(c, "assign", todo, 0, 0, new)
      BY <1>15 DEF todo, new
    <2>5. Begun(c, o)
      BY <2>1, <2>2, <2>3, <2>4, Begins
    <2> QED
      BY <2>5 DEF Begun
  <1>16. ASSUME Managed, NEW r \in Roles \cup {NoRole}, Start(c, "assign", IF r = NoRole THEN <<"read", "save">> ELSE <<"read", "role", "save">>, 0, 0, [role |-> r])
        PROVE  \E o \in Calls : Begun(c, o)
    <2> DEFINE todo == IF r = NoRole THEN <<"read", "save">> ELSE <<"read", "role", "save">>
               new == [role |-> r]
               o == [action |-> "assign", todo |-> todo, token |-> 0, shown |-> 0,
                     new |-> new, image |-> NoUser, clean |-> TRUE]
    <2>1. new \in Changes /\ Fits(o)
      BY <1>16 DEF Changes, Fits, NewRows, NewRoles, NewCodes, Managed
    <2>2. OnPlan(o) /\ Fresh(o)
      BY <1>16 DEF OnPlan, Is, Are2, Are3, Are4, Fresh, HasRead, Saving, Holding, Unchecked, RoleNamed, NewRoles
    <2>0. <<"read", "save">> \in Seq(Steps) /\ <<"read", "role", "save">> \in Seq(Steps)
      BY DEF Steps
    <2>3. todo \in Seq(Steps) /\ "assign" \in Actions /\ 0 \in Nat /\ 0 \in Passwords \cup Nat
      BY <1>1, <1>16, <2>0 DEF Actions
    <2> HIDE DEF todo, new
    <2>4. Start(c, "assign", todo, 0, 0, new)
      BY <1>16 DEF todo, new
    <2>5. Begun(c, o)
      BY <2>1, <2>2, <2>3, <2>4, Begins
    <2> QED
      BY <2>5 DEF Begun
  <1>17. ASSUME NEW e \in BOOLEAN, Start(c, "assign", <<"read", "save">>, 0, 0, [email |-> e])
        PROVE  \E o \in Calls : Begun(c, o)
    <2> DEFINE todo == <<"read", "save">>
               new == [email |-> e]
               o == [action |-> "assign", todo |-> todo, token |-> 0, shown |-> 0,
                     new |-> new, image |-> NoUser, clean |-> TRUE]
    <2>1. new \in Changes /\ Fits(o)
      BY <1>17 DEF Changes, Fits, NewRows, NewRoles, NewCodes, Managed
    <2>2. OnPlan(o) /\ Fresh(o)
      BY <1>17 DEF OnPlan, Is, Are2, Are3, Are4, Fresh, HasRead, Saving, Holding, Unchecked, RoleNamed, NewRoles
    <2>3. todo \in Seq(Steps) /\ "assign" \in Actions /\ 0 \in Nat /\ 0 \in Passwords \cup Nat
      BY <1>1, <1>17 DEF Actions, Steps
    <2> HIDE DEF todo, new
    <2>4. Start(c, "assign", todo, 0, 0, new)
      BY <1>17 DEF todo, new
    <2>5. Begun(c, o)
      BY <2>1, <2>2, <2>3, <2>4, Begins
    <2> QED
      BY <2>5 DEF Begun
  <1>18. ASSUME NEW r \in Roles, Start(c, "role", <<"findRole", "insertRole">>, 0, 0, [role |-> r])
        PROVE  \E o \in Calls : Begun(c, o)
    <2> DEFINE todo == <<"findRole", "insertRole">>
               new == [role |-> r]
               o == [action |-> "role", todo |-> todo, token |-> 0, shown |-> 0,
                     new |-> new, image |-> NoUser, clean |-> TRUE]
    <2>1. new \in Changes /\ Fits(o)
      BY <1>18 DEF Changes, Fits, NewRows, NewRoles, NewCodes, Managed
    <2>2. OnPlan(o) /\ Fresh(o)
      BY <1>18 DEF OnPlan, Is, Are2, Are3, Are4, Fresh, HasRead, Saving, Holding, Unchecked, RoleNamed, NewRoles
    <2>3. todo \in Seq(Steps) /\ "role" \in Actions /\ 0 \in Nat /\ 0 \in Passwords \cup Nat
      BY <1>1, <1>18 DEF Actions, Steps
    <2> HIDE DEF todo, new
    <2>4. Start(c, "role", todo, 0, 0, new)
      BY <1>18 DEF todo, new
    <2>5. Begun(c, o)
      BY <2>1, <2>2, <2>3, <2>4, Begins
    <2> QED
      BY <2>5 DEF Begun
  <1>19. ASSUME NEW r \in Roles, Start(c, "role", <<"dropRole">>, 0, 0, [role |-> r])
        PROVE  \E o \in Calls : Begun(c, o)
    <2> DEFINE todo == <<"dropRole">>
               new == [role |-> r]
               o == [action |-> "role", todo |-> todo, token |-> 0, shown |-> 0,
                     new |-> new, image |-> NoUser, clean |-> TRUE]
    <2>1. new \in Changes /\ Fits(o)
      BY <1>19 DEF Changes, Fits, NewRows, NewRoles, NewCodes, Managed
    <2>2. OnPlan(o) /\ Fresh(o)
      BY <1>19 DEF OnPlan, Is, Are2, Are3, Are4, Fresh, HasRead, Saving, Holding, Unchecked, RoleNamed, NewRoles
    <2>3. todo \in Seq(Steps) /\ "role" \in Actions /\ 0 \in Nat /\ 0 \in Passwords \cup Nat
      BY <1>1, <1>19 DEF Actions, Steps
    <2> HIDE DEF todo, new
    <2>4. Start(c, "role", todo, 0, 0, new)
      BY <1>19 DEF todo, new
    <2>5. Begun(c, o)
      BY <2>1, <2>2, <2>3, <2>4, Begins
    <2> QED
      BY <2>5 DEF Begun
  <1>20. ASSUME NEW r \in Roles, NEW some \in BOOLEAN, Start(c, "role", <<"grant">>, 0, 0, [role |-> r, some |-> some])
        PROVE  \E o \in Calls : Begun(c, o)
    <2> DEFINE todo == <<"grant">>
               new == [role |-> r, some |-> some]
               o == [action |-> "role", todo |-> todo, token |-> 0, shown |-> 0,
                     new |-> new, image |-> NoUser, clean |-> TRUE]
    <2>1. new \in Changes /\ Fits(o)
      BY <1>20 DEF Changes, Fits, NewRows, NewRoles, NewCodes, Managed
    <2>2. OnPlan(o) /\ Fresh(o)
      BY <1>20 DEF OnPlan, Is, Are2, Are3, Are4, Fresh, HasRead, Saving, Holding, Unchecked, RoleNamed, NewRoles
    <2>3. todo \in Seq(Steps) /\ "role" \in Actions /\ 0 \in Nat /\ 0 \in Passwords \cup Nat
      BY <1>1, <1>20 DEF Actions, Steps
    <2> HIDE DEF todo, new
    <2>4. Start(c, "role", todo, 0, 0, new)
      BY <1>20 DEF todo, new
    <2>5. Begun(c, o)
      BY <2>1, <2>2, <2>3, <2>4, Begins
    <2> QED
      BY <2>5 DEF Begun
  <1> QED
    BY <1>2, <1>3, <1>4, <1>5, <1>6, <1>7, <1>8, <1>9, <1>10, <1>11, <1>12, <1>13, <1>14, <1>15, <1>16, <1>17, <1>18, <1>19, <1>20
    DEF Call, Own, AuthInit, AuthLogin, OTPLoginStep, AuthLogout, ForgotPassword, ResetPassword, AuthChangePassword, OTPSetup, OTPEnable, OTPDisable, SetMyEmail, CreateUser, DeleteUser, ResetUserPassword, AssignUserRole, SetUserEmail, CreateRole, DeleteRole, SetRolePermissions

-----------------------------------------------------------------------------
(* The call of c becomes o, those of others are as before.                  *)
SameCall(n, o) ==
  /\ n.action = o.action /\ n.todo = o.todo /\ n.token = o.token /\ n.new = o.new /\ n.image = o.image
  /\ n.shown = o.shown
  /\ n.clean => o.clean

GoodCall(o) ==
  /\ o \in Calls /\ OnPlan(o) /\ Fits(o)
  /\ HasRead(o) => o.image # NoUser
  /\ kind = "admin" /\ o.image # NoUser => o.image.role = NoRole

LEMMA SameIsGood ==
  ASSUME NEW o, GoodCall(o), NEW n \in Calls, SameCall(n, o), kind' = kind
  PROVE  OnPlan(n) /\ Fits(n)' /\ (HasRead(n) => n.image # NoUser)
         /\ (kind' = "admin" /\ n.image # NoUser => n.image.role = NoRole)
  <1>1. OnPlan(n)
    BY DEF GoodCall, SameCall, OnPlan
  <1>2. Fits(n)'
    BY DEF GoodCall, SameCall, Fits
  <1> QED
    BY <1>1, <1>2 DEF GoodCall, SameCall, HasRead, Saving

LEMMA Yielded ==
  ASSUME CallsOK, NEW c \in Callers, NEW o, GoodCall(o), Yields(c, o)
  PROVE  /\ CallsOK'
         /\ call'[c] = o
         /\ \A d \in Callers \ {c} :
              SameCall(call'[d], call[d]) /\ (call'[d].clean => user' = user /\ roles' = roles)
         /\ kind' = kind /\ calls' = calls
  <1>1. kind' = kind /\ calls' = calls
    BY DEF Yields
  <1>2. /\ call' \in [Callers -> Calls] /\ call'[c] = o
        /\ \A d \in Callers \ {c} :
              SameCall(call'[d], call[d]) /\ (call'[d].clean => user' = user /\ roles' = roles)
    <2> DEFINE other(d) == IF <<user, roles>>' = <<user, roles>> THEN call[d] ELSE [call[d] EXCEPT !.clean = FALSE]
    <2>1. ASSUME NEW d \in Callers
          PROVE  /\ other(d) \in Calls /\ SameCall(other(d), call[d])
                 /\ other(d).clean => user' = user /\ roles' = roles
      <3>1. CASE <<user, roles>>' = <<user, roles>>
        BY <3>1 DEF CallsOK, SameCall
      <3>2. CASE <<user, roles>>' # <<user, roles>>
        <4>1. call[d] \in Calls
          BY DEF CallsOK
        <4>2. other(d) = [call[d] EXCEPT !.clean = FALSE]
          BY <3>2
        <4>3. other(d) \in Calls /\ other(d).clean = FALSE
          BY <4>1, <4>2 DEF Calls
        <4>4. SameCall(other(d), call[d])
          BY <4>1, <4>2 DEF SameCall, Calls
        <4> QED
          BY <4>3, <4>4
      <3> QED
        BY <3>1, <3>2
    <2>2. call' = [d \in Callers |-> IF d = c THEN o ELSE other(d)]
      BY DEF Yields
    <2> HIDE DEF other
    <2> QED
      BY <2>1, <2>2 DEF GoodCall
  <1>3. ASSUME NEW d \in Callers
        PROVE  /\ OnPlan(call'[d]) /\ Fits(call[d])'
               /\ HasRead(call'[d]) => call'[d].image # NoUser
               /\ kind' = "admin" /\ call'[d].image # NoUser => call'[d].image.role = NoRole
    <2>1. CASE d = c
      <3>1. Fits(o)' <=> Fits(o)
        BY <1>1 DEF Fits
      <3> QED
        BY <1>1, <1>2, <2>1, <3>1 DEF GoodCall
    <2>2. CASE d # c
      <3>1. GoodCall(call[d])
        BY DEF CallsOK, GoodCall
      <3>2. call'[d] \in Calls /\ SameCall(call'[d], call[d])
        BY <1>2, <2>2
      <3> QED
        BY <1>1, <3>1, <3>2, SameIsGood
    <2> QED
      BY <2>1, <2>2
  <1>4. CallsOK'
    BY <1>2, <1>3 DEF CallsOK
  <1> QED
    BY <1>1, <1>2, <1>4

(* A call that ends, or goes on to its next statement.                      *)
LEMMA GoesOn ==
  ASSUME CallsOK, NEW c \in Callers, call[c].todo # <<>>, Head(call[c].todo) # "read",
         NEW o, o = Quiet \/ o = Onward(call[c])
  PROVE  GoodCall(o)
  <1> DEFINE old == call[c]
  <1>1. GoodCall(old)
    BY DEF CallsOK, GoodCall
  <1>2. GoodCall(Quiet)
    BY QuietCall DEF GoodCall
  <1>3. CASE o = Onward(old) /\ o # Quiet
    <2>1. /\ o \in Calls /\ OnPlan(o) /\ Fits(o)
          /\ o.todo = Tail(old.todo) /\ Len(old.todo) # 1 /\ o.action = old.action /\ o.image = old.image
      BY <1>1, <1>3, OnwardCall DEF GoodCall
    <2>2. HasRead(o) => HasRead(old)
      BY <1>1, <2>1 DEF GoodCall, OnPlan, HasRead, Saving, Is, Are2, Are3, Are4, Calls, Steps
    <2> QED
      BY <1>1, <2>1, <2>2 DEF GoodCall
  <1> QED
    BY <1>2, <1>3

(* Which statements are the last of a call.                                 *)
LEMMA LastStatement ==
  ASSUME CallsOK, NEW c \in Callers, NEW step \in {"save", "insert", "open", "drop", "dropRole", "grant", "insertRole"},
         Doing(c, step)
  PROVE  Is(call[c].todo, step) /\ Onward(call[c]) = Quiet
  BY DEF CallsOK, OnPlan, Doing, Onward, Is, Are2, Are3, Are4, Calls, Steps

BaseInv == AccountsTypeOK /\ CallsOK

LEMMA TypesOfCalls ==
  ASSUME CallsOK'
  PROVE  \A d \in Callers :
           call'[d].image \in Users \cup {NoUser} /\ (Doing(d, "save")' => call'[d].image # NoUser)
  <1>1. \A d \in Callers : Doing(d, "save")' => call'[d].image # NoUser
    BY DEF CallsOK, Doing, HasRead, Saving, Is, OnPlan, Are2, Are3, Are4, Calls, Steps
  <1>2. \A d \in Callers : call'[d].image \in Users \cup {NoUser}
    BY DEF CallsOK, Calls
  <1> QED
    BY <1>1, <1>2

LEMMA BaseOfCalls ==
  ASSUME BaseInv, NEW c \in Callers, Call(c)
  PROVE  BaseInv'
  <1>1. PICK o \in Calls : Begun(c, o)
    BY CallBegins DEF BaseInv
  <1>2. kind' = kind /\ user' = user
    BY <1>1 DEF Begun, tables
  <1>3. CallsOK'
    <2>1. call' \in [Callers -> Calls]
      BY <1>1 DEF Begun, BaseInv, CallsOK
    <2>2. ASSUME NEW d \in Callers
          PROVE  /\ OnPlan(call'[d]) /\ Fits(call[d])'
                 /\ HasRead(call'[d]) => call'[d].image # NoUser
                 /\ kind' = "admin" /\ call'[d].image # NoUser => call'[d].image.role = NoRole
      <3>1. CASE d = c
        <4>1. call'[d] = o /\ o.image = NoUser /\ ~HasRead(o) /\ OnPlan(o) /\ Fits(o)
          BY <1>1, <3>1 DEF Begun, BaseInv, CallsOK, Fresh
        <4> QED
          BY <1>2, <4>1 DEF Fits
      <3>2. CASE d # c
        <4>1. call'[d] = call[d]
          BY <1>1, <3>2 DEF Begun, BaseInv, CallsOK
        <4> QED
          BY <1>2, <4>1 DEF Fits, BaseInv, CallsOK
      <3> QED
        BY <3>1, <3>2
    <2> QED
      BY <2>1, <2>2 DEF CallsOK
  <1>4. AccountsTypeOK'
    <2>1. UNCHANGED <<kind, user, roles, granted, sessions, pending, resets, drawn, outages>> /\ calls' \in 0..MaxCalls
      BY <1>1 DEF Begun, tables, stores
    <2> QED
      BY <1>3, <2>1, TypesOfCalls DEF BaseInv, AccountsTypeOK
  <1> QED
    BY <1>3, <1>4 DEF BaseInv

LEMMA BaseYielded ==
  ASSUME BaseInv, NEW c \in Callers, NEW o, GoodCall(o), Yields(c, o),
         user' \in Users \cup {NoUser}, roles' \subseteq Roles, granted' \subseteq Roles,
         sessions' \subseteq 1..drawn', pending' \subseteq 1..drawn', resets' \subseteq 1..drawn',
         drawn' \in 0..MaxDrawn, outages' \in 0..MaxOutages,
         kind = "admin" /\ user' # NoUser => user'.role = NoRole
  PROVE  BaseInv'
  <1>1. CallsOK' /\ kind' = kind /\ calls' = calls
    BY Yielded DEF BaseInv
  <1>2. AccountsTypeOK'
    BY <1>1, TypesOfCalls DEF BaseInv, AccountsTypeOK
  <1> QED
    BY <1>1, <1>2 DEF BaseInv

LEMMA Drawn ==
  ASSUME AccountsTypeOK, Draw
  PROVE  /\ drawn' \in 1..MaxDrawn /\ drawn' = drawn + 1
         /\ 1..drawn \subseteq 1..drawn' /\ drawn' \in 1..drawn'
  BY BoundAssumption DEF AccountsTypeOK, Draw

(* What has been read is kept: a call ends, goes on to a login, or takes    *)
(* the row along, and setup draws a secret.                                 *)
ReadInto(old, o) ==
  \/ o = Quiet
  \/ /\ old.action = "login" /\ o.action = "login" /\ ~HasRead(o) /\ ~Holding(o)
     /\ o.image = old.image /\ o.clean = old.clean /\ o.token = old.token
  \/ /\ o.todo = Tail(old.todo) /\ o.action = old.action /\ o.token = old.token /\ o.clean = old.clean
     /\ o.image = user /\ (user = NoUser => old.action = "create")
     /\ o.shown = old.shown /\ Accepts(old, user)
     /\ old.action = "setup" \/ o.new = old.new

LEMMA ReadCall ==
  ASSUME BaseInv, NEW c \in Callers, Read(c)
  PROVE  /\ \E o : GoodCall(o) /\ Yields(c, o) /\ ReadInto(call[c], o)
                    /\ (o.action = "enable" /\ o # Quiet => user.secret \in confirmed')
         /\ drawn' = drawn \/ Draw
         /\ confirmed \subseteq confirmed'
  <1> DEFINE old == call[c]
             on == Onward(old)
  <1>1. /\ old \in Calls /\ OnPlan(old) /\ Fits(old) /\ old.todo # <<>> /\ Head(old.todo) = "read"
        /\ GoodCall(old)
    BY DEF BaseInv, CallsOK, Read, Doing, GoodCall
  <1>2. user \in Users \cup {NoUser} /\ (kind = "admin" /\ user # NoUser => user.role = NoRole)
    BY DEF BaseInv, AccountsTypeOK
  <1>3. drawn' = drawn \/ Draw
    BY DEF Read
  <1>4. confirmed \subseteq confirmed'
    BY DEF Read
  <1>5. CASE ~Accepts(old, user)
    <2>1. Yields(c, Quiet)
      BY <1>5 DEF Read
    <2>2. GoodCall(Quiet) /\ ReadInto(old, Quiet)
      BY QuietCall DEF GoodCall, ReadInto
    <2> QED
      BY <1>3, <1>4, <2>1, <2>2
  <1>6. CASE Accepts(old, user) /\ old.action = "login"
    <2> DEFINE t == <<IF user.otp THEN "pend" ELSE "open">>
               o == [old EXCEPT !.todo = t]
    <2>1. Yields(c, o)
      BY <1>6 DEF Read
    <2>2. t \in Seq(Steps) /\ (Is(t, "pend") \/ Is(t, "open"))
      BY DEF Steps, Is
    <2> HIDE DEF t
    <2>3. /\ o \in Calls /\ o.todo = t /\ o.action = old.action /\ o.image = old.image /\ o.clean = old.clean
          /\ o.new = old.new /\ o.token = old.token
      BY <1>1, <2>2 DEF Calls
    <2> HIDE DEF o
    <2>4. OnPlan(o) /\ ~HasRead(o) /\ ~Holding(o)
      BY <1>6, <2>2, <2>3 DEF OnPlan, HasRead, Saving, Holding, Is, Are2
    <2>5. Fits(o)
      BY <1>1, <1>6, <2>3 DEF Fits
    <2>6. GoodCall(o)
      BY <1>1, <2>3, <2>4, <2>5 DEF GoodCall
    <2>7. ReadInto(old, o)
      BY <1>6, <2>3, <2>4 DEF ReadInto
    <2>8. o.action # "enable"
      BY <1>6, <2>3
    <2> QED
      BY <1>3, <1>4, <2>1, <2>6, <2>7, <2>8
  <1>7. CASE Accepts(old, user) /\ old.action # "login"
    <2>1. /\ on \in Calls /\ OnPlan(on) /\ Fits(on) /\ on # Quiet /\ on.todo = Tail(old.todo)
          /\ on.action = old.action /\ on.token = old.token /\ on.new = old.new /\ on.clean = old.clean
          /\ on.shown = old.shown
      <3>1. Len(old.todo) # 1
        BY <1>1, <1>7 DEF OnPlan, Is, Are2, Are3, Are4, Calls, Steps
      <3>2. on = [old EXCEPT !.todo = Tail(@)]
        BY <3>1 DEF Onward
      <3>3. on.action = old.action /\ old.action # "none"
        BY <1>1, <3>2 DEF Calls, OnPlan
      <3>4. on # Quiet
        BY <3>3 DEF Quiet
      <3> QED
        BY <1>1, <3>4, OnwardCall
    <2>2. user = NoUser => old.action = "create"
      BY <1>7 DEF Accepts
    <2>3. old.action = "create" => ~HasRead(on)
      BY <2>1 DEF OnPlan, HasRead, Saving, Is, Are2, Are3
    <2>4. old.action = "enable" => user.secret \in confirmed'
      BY <1>7, <2>2 DEF Accepts, Read
    <2> HIDE DEF on
    <2>5. CASE old.action # "setup"
      <3> DEFINE o == [on EXCEPT !.image = user]
      <3>1. Yields(c, o)
        BY <1>7, <2>5 DEF Read, on
      <3>2. /\ o \in Calls /\ o.todo = on.todo /\ o.action = on.action /\ o.token = on.token /\ o.clean = on.clean
            /\ o.new = on.new /\ o.image = user /\ o.shown = on.shown
        BY <1>2, <2>1 DEF Calls
      <3> HIDE DEF o
      <3>3. OnPlan(o) /\ Fits(o) /\ (HasRead(o) <=> HasRead(on))
        BY <2>1, <3>2 DEF OnPlan, Fits, HasRead, Saving
      <3>4. GoodCall(o)
        BY <1>2, <2>1, <2>2, <2>3, <3>2, <3>3 DEF GoodCall
      <3>5. ReadInto(old, o)
        BY <1>7, <2>1, <2>2, <3>2 DEF ReadInto
      <3> QED
        BY <1>3, <1>4, <2>1, <2>4, <3>1, <3>2, <3>4, <3>5
    <2>6. CASE old.action = "setup"
      <3> DEFINE new == [secret |-> drawn', otp |-> FALSE]
                 o == [[on EXCEPT !.image = user] EXCEPT !.new = new]
      <3>1. Yields(c, o) /\ Draw
        BY <1>7, <2>6 DEF Read, on
      <3>2. drawn' \in 0..MaxDrawn
        BY <3>1, Drawn DEF BaseInv, AccountsTypeOK
      <3>3. new \in [secret : 0..MaxDrawn, otp : {FALSE}] /\ new \in Changes
        BY <3>2 DEF Changes, NewCodes
      <3> HIDE DEF new
      <3>4. /\ o \in Calls /\ o.todo = on.todo /\ o.action = on.action /\ o.token = on.token /\ o.clean = on.clean
            /\ o.new = new /\ o.image = user /\ o.shown = on.shown
        BY <1>2, <2>1, <3>3 DEF Calls
      <3> HIDE DEF o
      <3>5. OnPlan(o) /\ (HasRead(o) <=> HasRead(on))
        BY <2>1, <3>4 DEF OnPlan, HasRead, Saving
      <3>6. Fits(o)
        BY <2>1, <2>6, <3>3, <3>4 DEF Fits
      <3>7. GoodCall(o)
        BY <1>2, <2>1, <2>2, <2>6, <3>4, <3>5, <3>6 DEF GoodCall
      <3>8. ReadInto(old, o)
        BY <1>7, <2>1, <2>2, <2>6, <3>4 DEF ReadInto
      <3> QED
        BY <1>3, <1>4, <2>1, <2>6, <3>1, <3>4, <3>7, <3>8
    <2> QED
      BY <2>5, <2>6
  <1> QED
    BY <1>5, <1>6, <1>7
(* Every other statement ends the call or goes on to the next one.          *)
LEMMA ProceedYields ==
  ASSUME BaseInv, NEW c \in Callers, Proceed(c), ~Read(c)
  PROVE  /\ \E o \in {Quiet, Onward(call[c])} : GoodCall(o) /\ Yields(c, o)
         /\ kind' = kind /\ calls' = calls /\ outages' = outages
  <1>1. /\ \E o \in {Quiet, Onward(call[c])} : Yields(c, o)
        /\ call[c].todo # <<>> /\ Head(call[c].todo) # "read" /\ outages' = outages
    BY DEF Proceed, Doing, Save, FindAdmin, Insert, Drop, Open, Session, Caller, Close, IssuePending, IssueReset,
           ConsumePending, ConsumeReset, Role, FindRole, InsertRole, DropRole, Grant
  <1>2. kind' = kind /\ calls' = calls
    BY <1>1 DEF Yields
  <1>3. \A o \in {Quiet, Onward(call[c])} : GoodCall(o)
    BY <1>1, GoesOn DEF BaseInv
  <1> QED
    BY <1>1, <1>2, <1>3


LEMMA BaseOfProceed ==
  ASSUME BaseInv, NEW c \in Callers, Proceed(c)
  PROVE  BaseInv'
  <1> DEFINE old == call[c]
  <1>1. /\ user \in Users \cup {NoUser} /\ roles \subseteq Roles /\ granted \subseteq Roles
        /\ sessions \subseteq 1..drawn /\ pending \subseteq 1..drawn /\ resets \subseteq 1..drawn
        /\ drawn \in 0..MaxDrawn /\ outages \in 0..MaxOutages
        /\ kind = "admin" /\ user # NoUser => user.role = NoRole
    BY DEF BaseInv, AccountsTypeOK
  <1>2. /\ old \in Calls /\ OnPlan(old) /\ Fits(old)
        /\ HasRead(old) => old.image # NoUser
        /\ kind = "admin" /\ old.image # NoUser => old.image.role = NoRole
    BY DEF BaseInv, CallsOK
  <1>3. CASE Read(c)
    <2>1. PICK o : GoodCall(o) /\ Yields(c, o)
      BY <1>3, ReadCall
    <2>2. UNCHANGED <<user, roles, granted, sessions, pending, resets, outages>> /\ (drawn' = drawn \/ Draw)
      BY <1>3 DEF Read, tables, stores
    <2>3. drawn' \in 0..MaxDrawn /\ 1..drawn \subseteq 1..drawn'
      BY <1>1, <2>2, Drawn DEF BaseInv
    <2> QED
      BY <1>1, <2>1, <2>2, <2>3, BaseYielded
  <1>4. ASSUME ~Read(c)
        PROVE  (\E o : GoodCall(o) /\ Yields(c, o)) /\ kind' = kind /\ outages' = outages
    BY <1>4, ProceedYields
  <1>5. ASSUME ~Read(c), user' \in Users \cup {NoUser}, roles' \subseteq Roles, granted' \subseteq Roles,
               UNCHANGED <<stores, drawn>>, kind = "admin" /\ user' # NoUser => user'.role = NoRole
        PROVE  BaseInv'
    <2>1. PICK o : GoodCall(o) /\ Yields(c, o)
      BY <1>4, <1>5
    <2>2. sessions' = sessions /\ pending' = pending /\ resets' = resets /\ drawn' = drawn /\ outages' = outages
      BY <1>4, <1>5 DEF stores
    <2> QED
      BY <1>1, <1>5, <2>1, <2>2, BaseYielded
  <1>6. ASSUME ~Read(c), UNCHANGED tables, drawn' = drawn \/ Draw,
               sessions' \subseteq sessions \cup {drawn'} /\ pending' \subseteq pending \cup {drawn'}
               /\ resets' \subseteq resets \cup {drawn'},
               drawn' = drawn => sessions' \subseteq sessions /\ pending' \subseteq pending /\ resets' \subseteq resets
        PROVE  BaseInv'
    <2>1. PICK o : GoodCall(o) /\ Yields(c, o)
      BY <1>4, <1>6
    <2>2. UNCHANGED <<user, roles, granted, outages>>
      BY <1>4, <1>6 DEF tables
    <2>3. CASE drawn' = drawn
      BY <1>1, <1>6, <2>1, <2>2, <2>3, BaseYielded
    <2>4. CASE Draw
      <3>1. drawn' \in 0..MaxDrawn /\ 1..drawn \subseteq 1..drawn' /\ drawn' \in 1..drawn'
        BY <2>4, Drawn DEF BaseInv
      <3>2. sessions' \subseteq 1..drawn' /\ pending' \subseteq 1..drawn' /\ resets' \subseteq 1..drawn'
        BY <1>1, <1>6, <3>1
      <3> QED
        BY <1>1, <2>1, <2>2, <3>1, <3>2, BaseYielded
    <2> QED
      BY <1>6, <2>3, <2>4
  <1>7. CASE FindAdmin(c) \/ Session(c) \/ Caller(c) \/ Role(c) \/ FindRole(c)
    <2>1. Read(c) \/ (UNCHANGED <<tables, stores, drawn>>)
      BY <1>7 DEF FindAdmin, Session, Caller, Role, FindRole
    <2> QED
      BY <1>1, <1>3, <1>5, <2>1 DEF tables
  <1>8. CASE Save(c)
    <2>1. Is(old.todo, "save") /\ Saving(old)
      BY <1>8, LastStatement DEF BaseInv, Save, Saving
    <2>2. old.image # NoUser
      BY <1>2, <2>1 DEF HasRead
    <2>3. user' = SaveUser(old) /\ roles' = roles /\ granted' = granted /\ UNCHANGED <<stores, drawn>>
      BY <1>8 DEF Save, stores
    <2>4. SaveUser(old) \in Users /\ (kind = "admin" => SaveUser(old).role = NoRole)
      BY <1>2, <2>1, <2>2, SavedRow
    <2> QED
      BY <1>1, <1>3, <1>5, <2>3, <2>4
  <1>9. CASE Insert(c)
    <2>1. Is(old.todo, "insert")
      BY <1>9, LastStatement DEF BaseInv, Insert
    <2>2. old.action \in {"init", "create"}
      BY <1>2, <2>1 DEF OnPlan, Is, Are2, Are3, Are4
    <2>3. old.new \in NewRows /\ (kind = "admin" => old.new.role = NoRole)
      BY <1>2, <2>2 DEF Fits
    <2>4. old.new \in Users
      <3>1. PICK p \in Passwords, r \in Roles \cup {NoRole} :
              old.new = [password |-> p, role |-> r, email |-> FALSE, secret |-> 0, otp |-> FALSE]
        BY <2>3 DEF NewRows
      <3>2. 0 \in 0..MaxDrawn
        BY BoundAssumption
      <3> QED
        BY <3>1, <3>2 DEF Users
    <2>5. /\ user' = user \/ user' = old.new
          /\ roles' = roles /\ granted' = granted /\ UNCHANGED <<stores, drawn>>
      BY <1>9 DEF Insert
    <2> QED
      BY <1>1, <1>3, <1>5, <2>3, <2>4, <2>5
  <1>10. CASE Drop(c)
    <2>1. user' = NoUser /\ roles' = roles /\ granted' = granted /\ UNCHANGED <<stores, drawn>>
      BY <1>10 DEF Drop
    <2> QED
      BY <1>1, <1>3, <1>5, <2>1
  <1>11. CASE Open(c) \/ IssuePending(c) \/ IssueReset(c)
    <2>1. /\ UNCHANGED tables /\ Draw
          /\ sessions' \subseteq sessions \cup {drawn'} /\ pending' \subseteq pending \cup {drawn'}
          /\ resets' \subseteq resets \cup {drawn'}
      BY <1>11 DEF Open, IssuePending, IssueReset
    <2>2. drawn' # drawn
      BY <1>1, <2>1 DEF Draw
    <2> QED
      BY <1>3, <1>6, <2>1, <2>2
  <1>12. CASE Close(c) \/ ConsumePending(c) \/ ConsumeReset(c)
    <2>1. /\ UNCHANGED tables /\ drawn' = drawn
          /\ sessions' \subseteq sessions /\ pending' \subseteq pending /\ resets' \subseteq resets
      BY <1>12 DEF Close, ConsumePending, ConsumeReset, Consumed
    <2> QED
      BY <1>3, <1>6, <2>1
  <1>13. CASE InsertRole(c) \/ DropRole(c) \/ Grant(c)
    <2>1. old.action = "role"
      <3>1. Doing(c, "insertRole") \/ Doing(c, "dropRole") \/ Doing(c, "grant")
        BY <1>13 DEF InsertRole, DropRole, Grant
      <3>2. Is(old.todo, "insertRole") \/ Is(old.todo, "dropRole") \/ Is(old.todo, "grant")
        BY <3>1, LastStatement DEF BaseInv
      <3> QED
        BY <1>2, <3>2 DEF OnPlan, Is, Are2, Are3, Are4
    <2>2. old.new.role \in Roles
      BY <1>2, <2>1 DEF Fits
    <2>3. UNCHANGED <<stores, drawn>> /\ roles' \subseteq Roles /\ granted' \subseteq Roles
      BY <1>1, <1>13, <2>2 DEF InsertRole, DropRole, Grant
    <2>4. user' = user \/ user' = Bereft(user, old.new.role)
      BY <1>13 DEF InsertRole, DropRole, Grant
    <2>5. user' \in Users \cup {NoUser} /\ (kind = "admin" /\ user' # NoUser => user'.role = NoRole)
      <3>1. CASE user' = user
        BY <1>1, <3>1
      <3>2. CASE user' = [user EXCEPT !.role = NoRole] /\ user # NoUser
        <4>1. user \in Users
          BY <1>1, <3>2
        <4> QED
          BY <3>2, <4>1 DEF Users
      <3> QED
        BY <2>4, <3>1, <3>2 DEF Bereft
    <2> QED
      BY <1>3, <1>5, <2>3, <2>5
  <1> QED
    BY <1>3, <1>7, <1>8, <1>9, <1>10, <1>11, <1>12, <1>13 DEF Proceed

LEMMA InitBase == InitAccounts => BaseInv
  <1> SUFFICES ASSUME InitAccounts PROVE BaseInv
    OBVIOUS
  <1>1. \A c \in Callers : call[c] = Quiet
    BY DEF InitAccounts
  <1>2. call \in [Callers -> Calls]
    BY QuietCall DEF InitAccounts
  <1>3. CallsOK
    BY <1>1, <1>2, QuietCall DEF CallsOK
  <1>4. user \in Users \cup {NoUser} /\ (kind = "admin" /\ user # NoUser => user.role = NoRole)
    BY DEF InitAccounts
  <1>5. \A c \in Callers : call[c].image = NoUser /\ ~Doing(c, "save")
    <2>1. Quiet.image = NoUser /\ Quiet.todo = <<>>
      BY DEF Quiet
    <2> QED
      BY <1>1, <2>1 DEF Doing
  <1>6. /\ roles \subseteq Roles /\ granted \subseteq Roles
        /\ sessions \subseteq 1..drawn /\ pending \subseteq 1..drawn /\ resets \subseteq 1..drawn
        /\ drawn \in 0..MaxDrawn /\ calls \in 0..MaxCalls /\ outages \in 0..MaxOutages
    <2>1. drawn = 2 /\ sessions \subseteq {1} /\ pending = {} /\ resets = {} /\ calls = 0 /\ outages = 0
      BY DEF InitAccounts, Session0
    <2>2. roles \subseteq Roles /\ granted \subseteq Roles
      BY DEF InitAccounts
    <2> QED
      BY <2>1, <2>2, BoundAssumption
  <1> QED
    BY <1>3, <1>4, <1>5, <1>6 DEF BaseInv, AccountsTypeOK

LEMMA NextBase == BaseInv /\ [NextAccounts]_accountVars => BaseInv'
  <1> SUFFICES ASSUME BaseInv, [NextAccounts]_accountVars PROVE BaseInv'
    OBVIOUS
  <1>1. ASSUME NEW c \in Callers, Call(c) PROVE BaseInv'
    BY <1>1, BaseOfCalls
  <1>2. ASSUME NEW c \in Callers, Proceed(c) PROVE BaseInv'
    BY <1>2, BaseOfProceed
  <1>3. ASSUME NEW c \in Callers, Break(c) PROVE BaseInv'
    <2>1. GoodCall(Quiet) /\ Yields(c, Quiet)
      BY <1>3, QuietCall DEF Break, GoodCall
    <2>2. UNCHANGED <<user, roles, granted, sessions, pending, resets, drawn>> /\ outages' \in 0..MaxOutages
      BY <1>3, BoundAssumption DEF Break, tables, stores, BaseInv, AccountsTypeOK
    <2> QED
      BY <2>1, <2>2, BaseYielded DEF BaseInv, AccountsTypeOK
  <1>4. ASSUME NEW t \in 1..MaxDrawn, Expire(t) PROVE BaseInv'
    <2>1. UNCHANGED <<kind, user, roles, granted, drawn, call, calls, outages>>
      BY <1>4 DEF Expire, tables
    <2>2. sessions' \subseteq sessions /\ pending' \subseteq pending /\ resets' \subseteq resets
      BY <1>4 DEF Expire
    <2> QED
      BY <2>1, <2>2 DEF BaseInv, AccountsTypeOK, CallsOK, Fits, Doing
  <1>5. CASE UNCHANGED accountVars
    BY <1>5 DEF accountVars, tables, stores, BaseInv, AccountsTypeOK, CallsOK, Fits, Doing
  <1> QED
    BY <1>1, <1>2, <1>3, <1>4, <1>5 DEF NextAccounts

(* The rows of users and roles and the tokens stay within their types, and  *)
(* no call saves a row it has not read.                                     *)
THEOREM TypeCorrect == SpecAccounts => []AccountsTypeOK
  <1>1. BaseInv => AccountsTypeOK
    BY DEF BaseInv
  <1> QED
    BY <1>1, InitBase, NextBase, PTL DEF SpecAccounts

-----------------------------------------------------------------------------
(***************************************************************************)
(* ACCOUNTS: safety.  The calls of all callers keep the shape given above  *)
(* (BaseInv); each property has a strengthening of its own on top.         *)
(***************************************************************************)
(* How a statement may change a call other than by consuming a token: it    *)
(* holds no token any more, or none that it did not hold.                   *)
Follows(d) ==
  call'[d].action \in {"code", "reset"} =>
    /\ call'[d].action = call[d].action /\ call'[d].token = call[d].token
    /\ Holding(call'[d]) => Holding(call[d])

LEMMA HoldsOn ==
  ASSUME NEW old \in Calls, OnPlan(old), old.todo # <<>>, Head(old.todo) \notin {"pending", "consume"},
         NEW o, o.todo = Tail(old.todo), o.action = old.action, Holding(o)
  PROVE  Holding(old)
  BY DEF OnPlan, Holding, Is, Are2, Are3, Are4, Calls, Steps

LEMMA OthersFollow ==
  ASSUME BaseInv, NEW c \in Callers, NEW o, GoodCall(o), Yields(c, o)
  PROVE  call'[c] = o /\ \A d \in Callers \ {c} : Follows(d)
  <1>1. call'[c] = o /\ \A d \in Callers \ {c} : SameCall(call'[d], call[d])
    BY Yielded DEF BaseInv
  <1> QED
    BY <1>1 DEF Follows, SameCall, Holding

(* Quiet calls hold nothing.                                                *)
LEMMA QuietFollows ==
  ASSUME NEW d \in Callers, call'[d] = Quiet
  PROVE  Follows(d)
  BY DEF Follows, Quiet

LEMMA ProceedFollows ==
  ASSUME BaseInv, NEW c \in Callers, Proceed(c), ~ConsumePending(c), ~ConsumeReset(c)
  PROVE  \A d \in Callers : Follows(d)
  <1> DEFINE old == call[c]
  <1>1. old \in Calls /\ OnPlan(old) /\ Fits(old)
    BY DEF BaseInv, CallsOK
  <1>2. old.todo # <<>> /\ Head(old.todo) \notin {"pending", "consume"}
    BY DEF Proceed, Doing, Read, Save, FindAdmin, Insert, Drop, Open, Session, Caller, Close, IssuePending,
           IssueReset, Role, FindRole, InsertRole, DropRole, Grant
  <1>3. CASE Read(c)
    <2>1. PICK o : GoodCall(o) /\ Yields(c, o) /\ ReadInto(old, o)
      BY <1>3, ReadCall
    <2>2. call'[c] = o /\ \A d \in Callers \ {c} : Follows(d)
      BY <2>1, OthersFollow
    <2>3. Follows(c)
      <3>1. CASE o = Quiet
        BY <2>2, <3>1, QuietFollows
      <3>2. CASE o.action = "login"
        BY <2>2, <3>2 DEF Follows
      <3>3. CASE o.todo = Tail(old.todo) /\ o.action = old.action /\ o.token = old.token
        BY <1>1, <1>2, <2>2, <3>3, HoldsOn DEF Follows
      <3> QED
        BY <2>1, <3>1, <3>2, <3>3 DEF ReadInto
    <2> QED
      BY <2>2, <2>3
  <1>4. CASE ~Read(c)
    <2>1. PICK o \in {Quiet, Onward(old)} : GoodCall(o) /\ Yields(c, o)
      BY <1>4, ProceedYields
    <2>2. call'[c] = o /\ \A d \in Callers \ {c} : Follows(d)
      BY <2>1, OthersFollow
    <2>3. Follows(c)
      <3>1. CASE o = Quiet
        BY <2>2, <3>1, QuietFollows
      <3>2. CASE o # Quiet
        <4>1. o.todo = Tail(old.todo) /\ o.action = old.action /\ o.token = old.token
          BY <1>1, <1>2, <2>1, <3>2, OnwardCall
        <4> QED
          BY <1>1, <1>2, <2>2, <4>1, HoldsOn DEF Follows
      <3> QED
        BY <3>1, <3>2
    <2> QED
      BY <2>2, <2>3
  <1> QED
    BY <1>3, <1>4

-----------------------------------------------------------------------------
(***************************************************************************)
(* Tokens.  A token that is in a store, or consumed by a call that has not *)
(* got to its end, has not been used; no two calls have consumed the same. *)
(***************************************************************************)
TokenInv ==
  /\ uses \in [1..MaxDrawn -> {0, 1}]
  /\ pending \cap resets = {}
  /\ \A t \in 1..MaxDrawn : t \in pending \cup resets \/ drawn < t => uses[t] = 0
  /\ \A c \in Callers :
       /\ call[c].action \in {"code", "reset"} => call[c].token \in 1..drawn
       /\ Holding(call[c]) => uses[call[c].token] = 0 /\ call[c].token \notin pending \cup resets
       /\ \A d \in Callers \ {c} : Holding(call[c]) /\ Holding(call[d]) => call[c].token # call[d].token

(* Calls that follow keep the invariant while the stores only lose tokens   *)
(* or one of them gets a new one.                                           *)
LEMMA TokensOfFollowers ==
  ASSUME BaseInv, TokenInv, \A d \in Callers : Follows(d), uses' = uses,
         \/ drawn' = drawn /\ pending' \subseteq pending /\ resets' \subseteq resets
         \/ /\ Draw
            /\ \/ pending' \subseteq pending \cup {drawn'} /\ resets' = resets
               \/ pending' = pending /\ resets' \subseteq resets \cup {drawn'}
  PROVE  TokenInv'
  <1>1. drawn \in 0..MaxDrawn /\ pending \subseteq 1..drawn /\ resets \subseteq 1..drawn
    BY DEF BaseInv, AccountsTypeOK
  <1>2. drawn' = drawn \/ (drawn' = drawn + 1 /\ drawn' \in 1..MaxDrawn)
    BY <1>1, BoundAssumption DEF Draw
  <1>3. /\ pending' \cap resets' = {}
        /\ \A t \in 1..MaxDrawn : t \in pending' \cup resets' \/ drawn' < t => uses[t] = 0
        /\ \A t \in 1..drawn : t \notin pending \cup resets => t \notin pending' \cup resets'
    <2>1. /\ \A t \in 1..drawn : t \in pending' => t \in pending
          /\ \A t \in 1..drawn : t \in resets' => t \in resets
      BY <1>1, <1>2 DEF Draw
    <2>2. ~(drawn' \in pending' /\ drawn' \in resets') \/ drawn' = drawn
      BY <1>1, <1>2 DEF Draw
    <2>3. \A t \in pending' \cup resets' : t \in 1..drawn \/ (t = drawn' /\ drawn' = drawn + 1)
      BY <1>1, <1>2 DEF Draw
    <2>4. pending' \cap resets' = {}
      BY <1>1, <1>2, <2>1, <2>2, <2>3 DEF TokenInv
    <2>5. ASSUME NEW t \in 1..MaxDrawn, t \in pending' \cup resets' \/ drawn' < t
          PROVE  uses[t] = 0
      <3>1. t \in pending \cup resets \/ drawn < t
        BY <1>1, <1>2, <2>1, <2>3, <2>5
      <3> QED
        BY <3>1 DEF TokenInv
    <2> QED
      BY <2>1, <2>4, <2>5
  <1>4. \A d \in Callers : Holding(call'[d]) => call'[d].action \in {"code", "reset"}
    BY DEF Holding
  <1>5. ASSUME NEW d \in Callers
        PROVE  /\ call'[d].action \in {"code", "reset"} => call'[d].token \in 1..drawn /\ call'[d].token \in 1..drawn'
               /\ Holding(call'[d]) => Holding(call[d]) /\ call'[d].token = call[d].token
    BY <1>1, <1>2, <1>4 DEF TokenInv, Follows
  <1>6. ASSUME NEW d \in Callers, Holding(call'[d])
        PROVE  uses[call'[d].token] = 0 /\ call'[d].token \notin pending' \cup resets'
    BY <1>3, <1>4, <1>5, <1>6 DEF TokenInv
  <1>7. ASSUME NEW d \in Callers, NEW e \in Callers \ {d}, Holding(call'[d]), Holding(call'[e])
        PROVE  call'[d].token # call'[e].token
    BY <1>5, <1>7 DEF TokenInv
  <1> QED
    BY <1>3, <1>5, <1>6, <1>7 DEF TokenInv

(* The call of c consumes t, which then belongs to nobody else.             *)
LEMMA TokensOfConsumer ==
  ASSUME BaseInv, TokenInv, NEW c \in Callers, \A d \in Callers \ {c} : Follows(d), uses' = uses, drawn' = drawn,
         call'[c].action = call[c].action, call'[c].token = call[c].token, call[c].action \in {"code", "reset"},
         call[c].token \in pending \cup resets,
         pending' \subseteq pending, resets' \subseteq resets, call[c].token \notin pending' \cup resets'
  PROVE  TokenInv'
  <1> DEFINE t == call[c].token
  <1>1. t \in 1..drawn /\ drawn \in 0..MaxDrawn
    BY DEF TokenInv, BaseInv, AccountsTypeOK
  <1>2. uses[t] = 0
    BY <1>1, BoundAssumption DEF TokenInv
  <1>3. /\ pending' \cap resets' = {}
        /\ \A s \in 1..MaxDrawn : s \in pending' \cup resets' \/ drawn' < s => uses[s] = 0
    BY DEF TokenInv
  <1>4. \A d \in Callers \ {c} : Holding(call'[d]) => call'[d].action \in {"code", "reset"}
    BY DEF Holding
  <1>5. ASSUME NEW d \in Callers \ {c}
        PROVE  /\ call'[d].action \in {"code", "reset"} => call'[d].token \in 1..drawn
               /\ Holding(call'[d]) => Holding(call[d]) /\ call'[d].token = call[d].token
    BY <1>4 DEF TokenInv, Follows
  <1>6. ASSUME NEW d \in Callers, Holding(call'[d])
        PROVE  uses[call'[d].token] = 0 /\ call'[d].token \notin pending' \cup resets'
    BY <1>2, <1>5, <1>6 DEF TokenInv
  <1>7. ASSUME NEW d \in Callers \ {c}, Holding(call'[d])
        PROVE  call'[d].token # t
    BY <1>5, <1>7 DEF TokenInv
  <1>8. ASSUME NEW d \in Callers, NEW e \in Callers \ {d}, Holding(call'[d]), Holding(call'[e])
        PROVE  call'[d].token # call'[e].token
    BY <1>5, <1>7, <1>8 DEF TokenInv
  <1> QED
    BY <1>1, <1>3, <1>5, <1>6, <1>8 DEF TokenInv

(* The call of c uses the token it holds, and ends.                         *)
LEMMA TokensOfUser ==
  ASSUME BaseInv, TokenInv, NEW c \in Callers, \A d \in Callers : Follows(d), Holding(call[c]),
         call'[c] = Quiet, uses' = [uses EXCEPT ![call[c].token] = @ + 1],
         pending' = pending, resets' = resets, drawn' = drawn \/ Draw
  PROVE  TokenInv'
  <1> DEFINE t == call[c].token
  <1>1. drawn \in 0..MaxDrawn /\ (drawn' = drawn \/ (drawn' = drawn + 1 /\ drawn' \in 1..MaxDrawn))
    BY BoundAssumption DEF BaseInv, AccountsTypeOK, Draw
  <1>2. call[c].action \in {"code", "reset"}
    BY DEF Holding
  <1>3. t \in 1..drawn /\ t \in 1..MaxDrawn /\ uses[t] = 0 /\ t \notin pending \cup resets
    BY <1>1, <1>2, BoundAssumption DEF TokenInv
  <1>4. uses' \in [1..MaxDrawn -> {0, 1}] /\ \A s \in 1..MaxDrawn \ {t} : uses'[s] = uses[s]
    BY <1>3 DEF TokenInv
  <1>5. \A s \in 1..MaxDrawn : s \in pending \cup resets \/ drawn' < s => uses'[s] = 0
    <2>1. SUFFICES ASSUME NEW s \in 1..MaxDrawn, s \in pending \cup resets \/ drawn' < s PROVE uses'[s] = 0
      OBVIOUS
    <2>2. s # t
      BY <1>1, <1>3, <2>1
    <2>3. uses[s] = 0
      BY <1>1, <2>1 DEF TokenInv
    <2> QED
      BY <1>4, <2>2, <2>3
  <1>6. ~Holding(call'[c]) /\ call'[c].action = "none"
    BY DEF Quiet, Holding
  <1>7. \A d \in Callers : Holding(call'[d]) => call'[d].action \in {"code", "reset"}
    BY DEF Holding
  <1>8. ASSUME NEW d \in Callers
        PROVE  /\ call'[d].action \in {"code", "reset"} => call'[d].token \in 1..drawn /\ call'[d].token \in 1..drawn'
               /\ Holding(call'[d]) => Holding(call[d]) /\ call'[d].token = call[d].token
    BY <1>1, <1>7 DEF TokenInv, Follows
  <1>9. ASSUME NEW d \in Callers, Holding(call'[d])
        PROVE  uses'[call'[d].token] = 0 /\ call'[d].token \notin pending \cup resets
    <2>1. d # c /\ Holding(call[d]) /\ call'[d].token = call[d].token
      BY <1>6, <1>8, <1>9
    <2>2. call[d].token # t /\ uses[call[d].token] = 0 /\ call[d].token \notin pending \cup resets
      BY <2>1 DEF TokenInv
    <2>3. call[d].token \in 1..MaxDrawn
      BY <1>1, <1>7, <1>8, <1>9, <2>1, BoundAssumption
    <2> QED
      BY <1>4, <2>1, <2>2, <2>3
  <1>10. ASSUME NEW d \in Callers, NEW e \in Callers \ {d}, Holding(call'[d]), Holding(call'[e])
        PROVE  call'[d].token # call'[e].token
    BY <1>8, <1>10 DEF TokenInv
  <1> QED
    BY <1>4, <1>5, <1>8, <1>9, <1>10 DEF TokenInv

LEMMA InitTokens == InitAccounts => TokenInv
  <1> SUFFICES ASSUME InitAccounts PROVE TokenInv
    OBVIOUS
  <1>1. /\ uses = [t \in 1..MaxDrawn |-> 0] /\ pending = {} /\ resets = {}
        /\ \A c \in Callers : call[c] = Quiet
    BY DEF InitAccounts
  <1>2. ~Holding(Quiet) /\ Quiet.action = "none"
    BY DEF Quiet, Holding
  <1> QED
    BY <1>1, <1>2 DEF TokenInv

LEMMA NextTokens == BaseInv /\ TokenInv /\ [NextAccounts]_accountVars => TokenInv'
  <1> SUFFICES ASSUME BaseInv, TokenInv, [NextAccounts]_accountVars PROVE TokenInv'
    OBVIOUS
  <1>1. ASSUME NEW c \in Callers, Call(c) PROVE TokenInv'
    <2>1. PICK o \in Calls : Begun(c, o)
      BY <1>1, CallBegins DEF BaseInv
    <2>2. UNCHANGED <<uses, pending, resets, drawn>>
      BY <2>1 DEF Begun, stores, ghosts
    <2>3. /\ call'[c] = o /\ ~Holding(o) /\ (o.action \in {"code", "reset"} => o.token \in 1..drawn)
          /\ \A d \in Callers \ {c} : call'[d] = call[d]
      BY <2>1 DEF Begun, Fresh, BaseInv, CallsOK
    <2> QED
      BY <2>2, <2>3 DEF TokenInv
  <1>2. ASSUME NEW c \in Callers, Proceed(c) PROVE TokenInv'
    <2> DEFINE old == call[c]
    <2>1. old \in Calls /\ OnPlan(old)
      BY DEF BaseInv, CallsOK
    <2>2. CASE ConsumePending(c) \/ ConsumeReset(c)
      <3>1. PICK o \in {Quiet, Onward(old)} : GoodCall(o) /\ Yields(c, o)
        BY <1>2, <2>2, ProceedYields DEF ConsumePending, ConsumeReset, Read, Doing
      <3>2. call'[c] = o /\ \A d \in Callers \ {c} : Follows(d)
        BY <3>1, OthersFollow
      <3>3. uses' = uses /\ drawn' = drawn /\ pending' \subseteq pending /\ resets' \subseteq resets
        BY <2>2 DEF ConsumePending, ConsumeReset, ghosts, Consumed
      <3>4. CASE o = Quiet
        <4>1. \A d \in Callers : Follows(d)
          BY <3>2, <3>4, QuietFollows
        <4> QED
          BY <3>3, <4>1, TokensOfFollowers
      <3>5. CASE o # Quiet
        <4>1. call'[c].action = old.action /\ call'[c].token = old.token
          BY <2>1, <2>2, <3>1, <3>2, <3>5, OnwardCall DEF ConsumePending, ConsumeReset, Doing, GoodCall, BaseInv, CallsOK
        <4>2. call'[c] # Quiet
          BY <3>2, <3>5
        <4>3. CASE ConsumePending(c)
          <5>1. old.action = "code"
            BY <2>1, <4>3 DEF ConsumePending, Doing, OnPlan, Is, Are2, Are3, Are4, Calls, Steps
          <5>2. old.token \in pending
            BY <4>2, <4>3, <3>1, <3>2 DEF ConsumePending, Yields
          <5>3. old.token \notin pending' /\ old.token \notin resets'
            BY <4>3, <5>2, <3>3 DEF ConsumePending, Consumed, TokenInv
          <5> QED
            BY <3>2, <3>3, <4>1, <5>1, <5>2, <5>3, TokensOfConsumer
        <4>4. CASE ConsumeReset(c)
          <5>1. old.action = "reset"
            BY <2>1, <4>4 DEF ConsumeReset, Doing, OnPlan, Is, Are2, Are3, Are4, Calls, Steps
          <5>2. old.token \in resets
            BY <4>2, <4>4, <3>1, <3>2 DEF ConsumeReset, Yields
          <5>3. old.token \notin pending' /\ old.token \notin resets'
            BY <4>4, <5>2, <3>3 DEF ConsumeReset, Consumed, TokenInv
          <5> QED
            BY <3>2, <3>3, <4>1, <5>1, <5>2, <5>3, TokensOfConsumer
        <4> QED
          BY <2>2, <4>3, <4>4
      <3> QED
        BY <3>4, <3>5
    <2>3. CASE ~ConsumePending(c) /\ ~ConsumeReset(c)
      <3>1. \A d \in Callers : Follows(d)
        BY <1>2, <2>3, ProceedFollows
      <3>2. CASE (Open(c) /\ old.action = "code") \/ (Save(c) /\ old.action = "reset")
        <4>1. Is(old.todo, "open") \/ Is(old.todo, "save")
          BY <3>2, LastStatement DEF Open, Save, BaseInv
        <4>2. Holding(old)
          BY <2>1, <3>2, <4>1 DEF Holding, OnPlan, Is, Are2, Are3
        <4>3. Onward(old) = Quiet
          BY <3>2, LastStatement DEF Open, Save, BaseInv
        <4>4. call'[c] = Quiet
          BY <3>2, <4>3 DEF Open, Save, Yields
        <4>5. /\ uses' = [uses EXCEPT ![old.token] = @ + 1]
              /\ pending' = pending /\ resets' = resets /\ (drawn' = drawn \/ Draw)
          BY <3>2 DEF Open, Save, stores
        <4> QED
          BY <3>1, <4>2, <4>4, <4>5, TokensOfUser
      <3>3. CASE ~((Open(c) /\ old.action = "code") \/ (Save(c) /\ old.action = "reset"))
        <4>1. uses' = uses
          BY <1>2, <2>3, <3>3 DEF Proceed, Read, Save, FindAdmin, Insert, Drop, Open, Session, Caller, Close,
                IssuePending, IssueReset, Role, FindRole, InsertRole, DropRole, Grant, ghosts
        <4>2. \/ drawn' = drawn /\ pending' \subseteq pending /\ resets' \subseteq resets
              \/ /\ Draw
                 /\ \/ pending' \subseteq pending \cup {drawn'} /\ resets' = resets
                    \/ pending' = pending /\ resets' \subseteq resets \cup {drawn'}
          BY <1>2, <2>3 DEF Proceed, Read, Save, FindAdmin, Insert, Drop, Open, Session, Caller, Close,
                IssuePending, IssueReset, Role, FindRole, InsertRole, DropRole, Grant, stores
        <4> QED
          BY <3>1, <4>1, <4>2, TokensOfFollowers
      <3> QED
        BY <3>2, <3>3
    <2> QED
      BY <2>2, <2>3
  <1>3. ASSUME NEW c \in Callers, Break(c) PROVE TokenInv'
    <2>1. GoodCall(Quiet) /\ Yields(c, Quiet)
      BY <1>3, QuietCall DEF Break, GoodCall
    <2>2. \A d \in Callers : Follows(d)
      BY <2>1, OthersFollow, QuietFollows
    <2>3. UNCHANGED <<uses, pending, resets, drawn>>
      BY <1>3 DEF Break, stores, ghosts
    <2> QED
      BY <2>2, <2>3, TokensOfFollowers
  <1>4. ASSUME NEW t \in 1..MaxDrawn, Expire(t) PROVE TokenInv'
    <2>1. \A d \in Callers : Follows(d)
      BY <1>4 DEF Expire, Follows
    <2>2. uses' = uses /\ drawn' = drawn /\ pending' \subseteq pending /\ resets' \subseteq resets
      BY <1>4 DEF Expire, ghosts
    <2> QED
      BY <2>1, <2>2, TokensOfFollowers
  <1>5. CASE UNCHANGED accountVars
    BY <1>5 DEF accountVars, stores, ghosts, TokenInv
  <1> QED
    BY <1>1, <1>2, <1>3, <1>4, <1>5 DEF NextAccounts

(* However often a token for a password reset or a second login step is     *)
(* presented, by whatever processes, it is good for one reset or one login: *)
(* consume takes it from the store in one statement before anything else.   *)
THEOREM TokenWorksOnce == SpecAccounts => []TokensOnce
  <1>1. BaseInv /\ TokenInv => TokensOnce
    BY DEF TokenInv, TokensOnce
  <1> QED
    BY <1>1, InitBase, NextBase, InitTokens, NextTokens, PTL DEF SpecAccounts

-----------------------------------------------------------------------------
(***************************************************************************)
(* One-time passwords.  A row that asks for codes has a confirmed secret   *)
(* in the table and in the hands of every call, and a call that is about   *)
(* to save "enable" has confirmed the secret it saves with it.             *)
(***************************************************************************)
CodesInv ==
  /\ EnabledIsConfirmed
  /\ \A c \in Callers :
       /\ call[c].image # NoUser /\ call[c].image.otp => call[c].image.secret \in confirmed
       /\ Saving(call[c]) /\ call[c].action = "enable" => call[c].image.secret \in confirmed

(* A call that keeps the row it has read, or is over.                       *)
Keeps(d) ==
  call'[d] # Quiet =>
    /\ call'[d].action = call[d].action /\ call'[d].new = call[d].new /\ call'[d].image = call[d].image
    /\ call'[d].shown = call[d].shown
    /\ HasRead(call'[d]) => HasRead(call[d])
    /\ call'[d].clean => call[d].clean

LEMMA ProceedKeeps ==
  ASSUME BaseInv, NEW c \in Callers, Proceed(c), ~Read(c)
  PROVE  /\ \A d \in Callers : Keeps(d)
         /\ call'[c] = Quiet \/ call'[c] = Onward(call[c])
         /\ \A d \in Callers \ {c} :
              SameCall(call'[d], call[d]) /\ (call'[d].clean => user' = user /\ roles' = roles)
  <1> DEFINE old == call[c]
  <1>1. old \in Calls /\ OnPlan(old) /\ Fits(old) /\ old.todo # <<>>
    BY DEF BaseInv, CallsOK, Proceed, Doing, Save, FindAdmin, Insert, Drop, Open, Session, Caller, Close,
           IssuePending, IssueReset, ConsumePending, ConsumeReset, Role, FindRole, InsertRole, DropRole, Grant
  <1>2. PICK o \in {Quiet, Onward(old)} : GoodCall(o) /\ Yields(c, o)
    BY ProceedYields
  <1>3. /\ call'[c] = o
        /\ \A d \in Callers \ {c} :
              SameCall(call'[d], call[d]) /\ (call'[d].clean => user' = user /\ roles' = roles)
    BY <1>2, Yielded DEF BaseInv
  <1>4. Keeps(c)
    <2>1. CASE o = Quiet
      BY <1>3, <2>1 DEF Keeps
    <2>2. CASE o # Quiet
      <3>1. /\ o.todo = Tail(old.todo) /\ Len(old.todo) # 1
            /\ o.action = old.action /\ o.new = old.new /\ o.image = old.image /\ o.clean = old.clean
            /\ o.shown = old.shown
        BY <1>1, <1>2, <2>2, OnwardCall
      <3>2. Head(old.todo) # "read"
        BY DEF Proceed, Read, Doing, Save, FindAdmin, Insert, Drop, Open, Session, Caller, Close,
               IssuePending, IssueReset, ConsumePending, ConsumeReset, Role, FindRole, InsertRole, DropRole, Grant
      <3>3. HasRead(o) => HasRead(old)
        BY <1>1, <3>1, <3>2 DEF OnPlan, HasRead, Saving, Is, Are2, Are3, Are4, Calls, Steps
      <3> QED
        BY <1>3, <3>1, <3>3 DEF Keeps
    <2> QED
      BY <2>1, <2>2
  <1>5. \A d \in Callers \ {c} : Keeps(d)
    BY <1>3 DEF Keeps, SameCall, HasRead, Saving
  <1> QED
    BY <1>2, <1>3, <1>4, <1>5

LEMMA CodesOfKeepers ==
  ASSUME CodesInv, \A d \in Callers : Keeps(d) /\ (Saving(call'[d]) => Saving(call[d]) \/ call[d].action # "enable"),
         confirmed \subseteq confirmed', EnabledIsConfirmed'
  PROVE  CodesInv'
  <1>1. Quiet.image = NoUser /\ ~Saving(Quiet)
    BY DEF Quiet, Saving, Is
  <1>2. ASSUME NEW d \in Callers
        PROVE  /\ call'[d].image # NoUser /\ call'[d].image.otp => call'[d].image.secret \in confirmed'
               /\ Saving(call'[d]) /\ call'[d].action = "enable" => call'[d].image.secret \in confirmed'
    <2>1. CASE call'[d] = Quiet
      BY <1>1, <2>1
    <2>2. CASE call'[d] # Quiet
      BY <2>2 DEF Keeps, CodesInv
    <2> QED
      BY <2>1, <2>2
  <1> QED
    BY <1>2 DEF CodesInv

(* An account that calls with "enable" is about to save at once.            *)
LEMMA EnablePlan ==
  ASSUME NEW o, OnPlan(o), o.action = "enable", HasRead(o)
  PROVE  Saving(o)
  BY DEF OnPlan, HasRead, Saving, Is, Are2, Are3, Are4

LEMMA InitCodes == InitAccounts => CodesInv
  <1> SUFFICES ASSUME InitAccounts PROVE CodesInv
    OBVIOUS
  <1>1. \A c \in Callers : call[c].image = NoUser /\ ~Saving(call[c])
    BY QuietCall DEF InitAccounts, HasRead
  <1>2. EnabledIsConfirmed
    <2> SUFFICES ASSUME user # NoUser, user.otp PROVE user.secret \in confirmed
      BY DEF EnabledIsConfirmed
    <2>1. user.secret \in {0, Secret0} /\ user.secret # 0
      BY DEF InitAccounts
    <2>2. confirmed = {Secret0}
      BY DEF InitAccounts
    <2> QED
      BY <2>1, <2>2
  <1> QED
    BY <1>1, <1>2 DEF CodesInv

LEMMA CodesOfProceed ==
  ASSUME BaseInv, CodesInv, NEW c \in Callers, Proceed(c)
  PROVE  CodesInv'
  <1> DEFINE old == call[c]
  <1>1. /\ old \in Calls /\ OnPlan(old) /\ Fits(old) /\ (HasRead(old) => old.image # NoUser)
        /\ user \in Users \cup {NoUser}
    BY DEF BaseInv, CallsOK, AccountsTypeOK
  <1>2. CASE Read(c)
    <2>1. PICK o : /\ GoodCall(o) /\ Yields(c, o) /\ ReadInto(old, o)
                   /\ o.action = "enable" /\ o # Quiet => user.secret \in confirmed'
      BY <1>2, ReadCall
    <2>2. confirmed \subseteq confirmed' /\ user' = user
      BY <1>2, ReadCall DEF Read, tables
    <2>3. call'[c] = o /\ \A d \in Callers \ {c} : SameCall(call'[d], call[d])
      BY <2>1, Yielded DEF BaseInv
    <2>4. EnabledIsConfirmed'
      BY <2>2 DEF EnabledIsConfirmed, CodesInv
    <2>5. o.image # NoUser /\ o.image.otp => o.image.secret \in confirmed'
      <3>1. o.image = NoUser \/ o.image = old.image \/ o.image = user
        BY <2>1 DEF ReadInto, Quiet
      <3> QED
        BY <2>2, <3>1 DEF CodesInv, EnabledIsConfirmed
    <2>6. Saving(o) /\ o.action = "enable" => o.image.secret \in confirmed'
      BY <2>1 DEF ReadInto, Quiet, Saving, Is
    <2>7. ASSUME NEW d \in Callers \ {c}
          PROVE  /\ call'[d].image # NoUser /\ call'[d].image.otp => call'[d].image.secret \in confirmed'
                 /\ Saving(call'[d]) /\ call'[d].action = "enable" => call'[d].image.secret \in confirmed'
      BY <2>2, <2>3 DEF SameCall, Saving, CodesInv
    <2> QED
      BY <2>3, <2>4, <2>5, <2>6, <2>7 DEF CodesInv
  <1>3. CASE ~Read(c)
    <2>1. \A d \in Callers : Keeps(d)
      BY <1>3, ProceedKeeps
    <2>2. \A d \in Callers : Saving(call'[d]) => Saving(call[d]) \/ call[d].action # "enable"
      <3>1. ASSUME NEW d \in Callers, Saving(call'[d]), call[d].action = "enable"
            PROVE  Saving(call[d])
        <4>1. ~Saving(Quiet)
          BY DEF Quiet, Saving, Is
        <4>2. HasRead(call[d])
          BY <2>1, <3>1, <4>1 DEF Keeps, HasRead
        <4> QED
          BY <3>1, <4>2, EnablePlan DEF BaseInv, CallsOK
      <3> QED
        BY <3>1
    <2>3. confirmed' = confirmed
      BY <1>3 DEF Proceed, Save, FindAdmin, Insert, Drop, Open, Session, Caller, Close, IssuePending, IssueReset,
            ConsumePending, ConsumeReset, Role, FindRole, InsertRole, DropRole, Grant, ghosts
    <2>4. EnabledIsConfirmed'
      <3>1. CASE Save(c)
        <4>1. Is(old.todo, "save") /\ Saving(old) /\ old.image # NoUser
          BY <1>1, <3>1, LastStatement DEF BaseInv, Save, Saving, HasRead
        <4>2. user' = SaveUser(old)
          BY <3>1 DEF Save
        <4>3. /\ SaveUser(old).secret = old.image.secret \/ SaveUser(old).otp = FALSE
              /\ old.action = "enable" \/ SaveUser(old).otp = old.image.otp \/ SaveUser(old).otp = FALSE
          BY <1>1, <4>1, SavedRow
        <4>4. old.action = "enable" => old.image.secret \in confirmed
          BY <4>1 DEF CodesInv
        <4>5. old.image.otp => old.image.secret \in confirmed
          BY <4>1 DEF CodesInv
        <4> QED
          BY <2>3, <4>2, <4>3, <4>4, <4>5 DEF EnabledIsConfirmed
      <3>2. CASE Insert(c)
        <4>1. user' = user \/ user' = old.new
          BY <3>2 DEF Insert
        <4>2. old.action \in {"init", "create"}
          BY <1>1, <3>2, LastStatement DEF BaseInv, Insert, OnPlan, Is, Are2, Are3, Are4
        <4>3. old.new.otp = FALSE
          BY <1>1, <4>2 DEF Fits, NewRows
        <4> QED
          BY <2>3, <4>1, <4>3 DEF EnabledIsConfirmed, CodesInv
      <3>3. CASE Drop(c)
        BY <3>3 DEF Drop, EnabledIsConfirmed
      <3>4. CASE DropRole(c)
        <4>1. user' = user \/ (user # NoUser /\ user' = [user EXCEPT !.role = NoRole])
          BY <3>4 DEF DropRole, Bereft
        <4>2. user # NoUser /\ user' = [user EXCEPT !.role = NoRole] => user'.otp = user.otp /\ user'.secret = user.secret
          BY <1>1 DEF Users
        <4> QED
          BY <2>3, <4>1, <4>2 DEF EnabledIsConfirmed, CodesInv
      <3>5. CASE ~Save(c) /\ ~Insert(c) /\ ~Drop(c) /\ ~DropRole(c)
        <4>1. user' = user
          BY <1>3, <3>5 DEF Proceed, FindAdmin, Open, Session, Caller, Close, IssuePending, IssueReset,
                ConsumePending, ConsumeReset, Role, FindRole, InsertRole, Grant, tables
        <4> QED
          BY <2>3, <4>1 DEF EnabledIsConfirmed, CodesInv
      <3> QED
        BY <3>1, <3>2, <3>3, <3>4, <3>5
    <2> QED
      BY <2>1, <2>2, <2>3, <2>4, CodesOfKeepers
  <1> QED
    BY <1>2, <1>3

LEMMA NextCodes == BaseInv /\ CodesInv /\ [NextAccounts]_accountVars => CodesInv'
  <1> SUFFICES ASSUME BaseInv, CodesInv, [NextAccounts]_accountVars PROVE CodesInv'
    OBVIOUS
  <1>1. ASSUME NEW c \in Callers, Call(c) PROVE CodesInv'
    <2>1. PICK o \in Calls : Begun(c, o)
      BY <1>1, CallBegins DEF BaseInv
    <2>2. UNCHANGED <<user, confirmed>>
      BY <2>1 DEF Begun, tables, ghosts
    <2>3. /\ call'[c] = o /\ o.image = NoUser /\ ~Saving(o)
          /\ \A d \in Callers \ {c} : call'[d] = call[d]
      BY <2>1 DEF Begun, Fresh, HasRead, BaseInv, CallsOK
    <2> QED
      BY <2>2, <2>3 DEF CodesInv, EnabledIsConfirmed
  <1>2. ASSUME NEW c \in Callers, Proceed(c) PROVE CodesInv'
    BY <1>2, CodesOfProceed
  <1>3. ASSUME NEW c \in Callers, Break(c) PROVE CodesInv'
    <2>1. GoodCall(Quiet) /\ Yields(c, Quiet) /\ UNCHANGED <<user, confirmed>>
      BY <1>3, QuietCall DEF Break, GoodCall, tables, ghosts
    <2>2. call'[c] = Quiet /\ \A d \in Callers \ {c} : SameCall(call'[d], call[d])
      BY <2>1, Yielded DEF BaseInv
    <2>3. \A d \in Callers : Keeps(d) /\ (Saving(call'[d]) => Saving(call[d]))
      BY <2>2 DEF Keeps, SameCall, HasRead, Saving, Quiet, Is
    <2> QED
      BY <2>1, <2>3, CodesOfKeepers DEF EnabledIsConfirmed, CodesInv
  <1>4. ASSUME NEW t \in 1..MaxDrawn, Expire(t) PROVE CodesInv'
    BY <1>4 DEF Expire, tables, ghosts, CodesInv, EnabledIsConfirmed
  <1>5. CASE UNCHANGED accountVars
    BY <1>5 DEF accountVars, tables, ghosts, CodesInv, EnabledIsConfirmed
  <1> QED
    BY <1>1, <1>2, <1>3, <1>4, <1>5 DEF NextAccounts

(* Whatever other changes of the user are saved at the same time (each      *)
(* saves the whole row it has read), an account that asks for codes has a   *)
(* secret its user has shown a code of: OTPSetup, OTPEnable and OTPDisable  *)
(* never leave one half of another's change.                                *)
THEOREM EnabledIsAlwaysConfirmed == SpecAccounts => []EnabledIsConfirmed
  <1>1. CodesInv => EnabledIsConfirmed
    BY DEF CodesInv
  <1> QED
    BY <1>1, InitBase, NextBase, InitCodes, NextCodes, PTL DEF SpecAccounts

-----------------------------------------------------------------------------
(***************************************************************************)
(* Roles.  A call that was alone so far still sees the row it has read,    *)
(* and a role it names and does not look up any more exists.               *)
(***************************************************************************)
SeesTruth(o) ==
  /\ o.clean /\ o.image # NoUser => o.image = user
  /\ o.clean /\ ~Unchecked(o) => RoleNamed(o) \in roles \cup {NoRole}

RolesInv == RolesExist /\ \A c \in Callers : SeesTruth(call[c])

LEMMA QuietSees == SeesTruth(Quiet)' /\ SeesTruth(Quiet)
  BY DEF SeesTruth, Quiet

LEMMA UnreadSees ==
  ASSUME NEW old \in Calls, OnPlan(old), old.todo # <<>>, Head(old.todo) # "role",
         NEW o, o.todo = Tail(old.todo), Unchecked(old)
  PROVE  Unchecked(o)
  BY DEF OnPlan, Unchecked, Is, Are2, Are3, Are4, Calls, Steps

LEMMA OthersSee ==
  ASSUME BaseInv, RolesInv, NEW c \in Callers, NEW o, GoodCall(o), Yields(c, o)
  PROVE  call'[c] = o /\ \A d \in Callers \ {c} : SeesTruth(call[d])'
  <1>1. /\ call'[c] = o
        /\ \A d \in Callers \ {c} :
              SameCall(call'[d], call[d]) /\ (call'[d].clean => user' = user /\ roles' = roles)
    BY Yielded DEF BaseInv
  <1>2. ASSUME NEW d \in Callers \ {c}
        PROVE  SeesTruth(call[d])'
    <2>1. SeesTruth(call[d])
      BY DEF RolesInv
    <2>2. (Unchecked(call'[d]) <=> Unchecked(call[d])) /\ RoleNamed(call'[d]) = RoleNamed(call[d])
      BY <1>1 DEF SameCall, Unchecked, RoleNamed
    <2>3. SameCall(call'[d], call[d]) /\ (call'[d].clean => user' = user /\ roles' = roles)
      BY <1>1
    <2> QED
      BY <2>1, <2>2, <2>3 DEF SeesTruth, SameCall
  <1> QED
    BY <1>1, <1>2

LEMMA InitRoles == InitAccounts => RolesInv
  <1> SUFFICES ASSUME InitAccounts PROVE RolesInv
    OBVIOUS
  <1>1. \A c \in Callers : SeesTruth(call[c])
    BY QuietSees DEF InitAccounts
  <1>2. RolesExist
    BY DEF InitAccounts, RolesExist
  <1> QED
    BY <1>1, <1>2 DEF RolesInv

LEMMA RolesOfProceed ==
  ASSUME BaseInv, RolesInv, NEW c \in Callers, Proceed(c)
  PROVE  RolesInv'
  <1> DEFINE old == call[c]
  <1>1. /\ old \in Calls /\ OnPlan(old) /\ Fits(old) /\ (HasRead(old) => old.image # NoUser)
        /\ user \in Users \cup {NoUser} /\ SeesTruth(old) /\ RolesExist
    BY DEF BaseInv, CallsOK, AccountsTypeOK, RolesInv
  <1>2. CASE Read(c)
    <2>1. PICK o : GoodCall(o) /\ Yields(c, o) /\ ReadInto(old, o)
      BY <1>2, ReadCall
    <2>2. UNCHANGED <<user, roles, granted, overlapped, strays>>
      BY <1>2 DEF Read, tables
    <2>3. call'[c] = o /\ \A d \in Callers \ {c} : SeesTruth(call[d])'
      BY <2>1, OthersSee
    <2>4. SeesTruth(o)'
      <3>1. CASE o = Quiet
        BY <3>1, QuietSees
      <3>2. CASE o.action = "login" /\ o.image = old.image /\ o.clean = old.clean
        BY <1>1, <2>2, <3>2 DEF SeesTruth, RoleNamed
      <3>3. CASE /\ o.todo = Tail(old.todo) /\ o.action = old.action /\ o.clean = old.clean /\ o.image = user
                 /\ old.action = "setup" \/ o.new = old.new
        <4>1. RoleNamed(o) = RoleNamed(old) \/ RoleNamed(o) = NoRole
          BY <3>3 DEF RoleNamed
        <4>2. ~Unchecked(o) => ~Unchecked(old)
          BY <1>1, <1>2, <3>3, UnreadSees DEF Read, Doing
        <4> QED
          BY <1>1, <2>2, <3>3, <4>1, <4>2 DEF SeesTruth
      <3> QED
        BY <2>1, <3>1, <3>2, <3>3 DEF ReadInto
    <2>5. RolesExist'
      BY <1>1, <2>2 DEF RolesExist
    <2> QED
      BY <2>3, <2>4, <2>5 DEF RolesInv
  <1>3. CASE ~Read(c)
    <2>1. PICK o \in {Quiet, Onward(old)} : GoodCall(o) /\ Yields(c, o)
      BY <1>3, ProceedYields
    <2>2. call'[c] = o /\ \A d \in Callers \ {c} : SeesTruth(call[d])'
      BY <2>1, OthersSee
    <2>3. SeesTruth(o)'
      <3>1. CASE o = Quiet
        BY <3>1, QuietSees
      <3>2. CASE o # Quiet
        <4>1. ~Save(c) /\ ~Insert(c) /\ ~Drop(c) /\ ~InsertRole(c) /\ ~DropRole(c)
          BY <2>1, <3>2, LastStatement DEF BaseInv, Save, Insert, Drop, InsertRole, DropRole
        <4>2. user' = user /\ roles' = roles /\ old.todo # <<>>
          BY <1>3, <4>1 DEF Proceed, Doing, FindAdmin, Open, Session, Caller, Close, IssuePending, IssueReset,
                ConsumePending, ConsumeReset, Role, FindRole, Grant, tables
        <4>3. /\ o.todo = Tail(old.todo) /\ o.action = old.action /\ o.new = old.new
              /\ o.image = old.image /\ o.clean = old.clean
          BY <1>1, <2>1, <3>2, <4>2, OnwardCall
        <4>4. RoleNamed(o) = RoleNamed(old)
          BY <4>3 DEF RoleNamed
        <4>5. Unchecked(old) /\ ~Unchecked(o) => Role(c)
          <5>1. Unchecked(old) /\ ~Unchecked(o) => Head(old.todo) = "role"
            BY <1>1, <4>2, <4>3, UnreadSees
          <5>2. Head(old.todo) = "role" => Role(c)
            BY <1>3, <4>1 DEF Proceed, Doing, FindAdmin, Open, Session, Caller, Close, IssuePending, IssueReset,
                  ConsumePending, ConsumeReset, FindRole, Grant
          <5> QED
            BY <5>1, <5>2
        <4>6. Role(c) => old.new.role \in roles
          BY <2>2, <3>2 DEF Role, Yields
        <4>7. ~Unchecked(o) => ~Unchecked(old) \/ RoleNamed(old) \in roles \cup {NoRole}
          BY <4>5, <4>6 DEF RoleNamed
        <4> QED
          BY <1>1, <4>2, <4>3, <4>4, <4>7 DEF SeesTruth
      <3> QED
        BY <3>1, <3>2
    <2>4. RolesExist'
      <3>1. CASE Save(c)
        <4>1. Is(old.todo, "save") /\ Saving(old) /\ old.image # NoUser
          BY <1>1, <3>1, LastStatement DEF BaseInv, Save, Saving, HasRead
        <4>2. /\ user' = SaveUser(old) /\ overlapped' = (overlapped \/ ~old.clean)
              /\ UNCHANGED <<roles, granted, strays>>
          BY <3>1 DEF Save
        <4>3. SaveUser(old).role = old.image.role
              \/ (old.action = "assign" /\ old.new \in NewRoles /\ SaveUser(old).role = old.new.role)
          BY <1>1, <4>1, SavedRow
        <4>4. ~Unchecked(old)
          BY <4>1 DEF Unchecked, Is, Are2, Are3
        <4>5. ASSUME ~overlapped' PROVE SaveUser(old).role \in roles \cup {NoRole}
          <5>1. old.clean /\ ~overlapped /\ old.image = user
            BY <1>1, <4>1, <4>2, <4>5 DEF SeesTruth
          <5>2. old.image.role \in roles \cup {NoRole}
            BY <1>1, <4>1, <5>1 DEF RolesExist
          <5>3. RoleNamed(old) \in roles \cup {NoRole}
            BY <1>1, <4>4, <5>1 DEF SeesTruth
          <5> QED
            BY <4>3, <5>2, <5>3 DEF RoleNamed
        <4> QED
          BY <1>1, <4>2, <4>5 DEF RolesExist
      <3>2. CASE Insert(c)
        <4>1. /\ user' = (IF user = NoUser THEN old.new ELSE user)
              /\ overlapped' = (overlapped \/ (user = NoUser /\ ~old.clean))
              /\ UNCHANGED <<roles, granted, strays>>
          BY <3>2 DEF Insert
        <4>2. Is(old.todo, "insert")
          BY <3>2, LastStatement DEF BaseInv, Insert
        <4>3. old.action \in {"init", "create"} /\ ~Unchecked(old)
          BY <1>1, <4>2 DEF OnPlan, Unchecked, Is, Are2, Are3, Are4
        <4>4. old.clean => old.new.role \in roles \cup {NoRole}
          BY <1>1, <4>3 DEF SeesTruth, RoleNamed
        <4> QED
          BY <1>1, <4>1, <4>4 DEF RolesExist
      <3>3. CASE Drop(c)
        BY <1>1, <3>3 DEF Drop, ghosts, RolesExist
      <3>4. CASE InsertRole(c)
        BY <1>1, <3>4 DEF InsertRole, ghosts, RolesExist
      <3>5. CASE DropRole(c)
        <4> DEFINE r == old.new.role
        <4>1. /\ user' = Bereft(user, r) /\ roles' = roles \ {r} /\ granted' = granted \ {r}
              /\ strays' = strays \ {r} /\ overlapped' = overlapped
          BY <3>5 DEF DropRole
        <4>2. granted' \subseteq roles' \cup strays'
          BY <1>1, <4>1 DEF RolesExist
        <4>3. user' # NoUser /\ ~overlapped => user'.role \in roles' \cup {NoRole}
          <5>1. CASE user # NoUser /\ user.role = r
            <6>1. user' = [user EXCEPT !.role = NoRole]
              BY <4>1, <5>1 DEF Bereft
            <6>2. user'.role = NoRole
              BY <1>1, <5>1, <6>1 DEF Users
            <6> QED
              BY <6>2
          <5>2. CASE ~(user # NoUser /\ user.role = r)
            BY <1>1, <4>1, <5>2 DEF Bereft, RolesExist
          <5> QED
            BY <5>1, <5>2
        <4> QED
          BY <4>1, <4>2, <4>3 DEF RolesExist
      <3>6. CASE Grant(c)
        <4>1. UNCHANGED <<user, roles, overlapped>>
          BY <3>6 DEF Grant
        <4>2. granted' \subseteq roles \cup strays'
          BY <1>1, <3>6 DEF Grant, RolesExist
        <4> QED
          BY <1>1, <4>1, <4>2 DEF RolesExist
      <3>7. CASE ~Save(c) /\ ~Insert(c) /\ ~Drop(c) /\ ~InsertRole(c) /\ ~DropRole(c) /\ ~Grant(c)
        <4>1. UNCHANGED <<user, roles, granted, overlapped, strays>>
          BY <1>3, <3>7 DEF Proceed, FindAdmin, Open, Session, Caller, Close, IssuePending, IssueReset,
                ConsumePending, ConsumeReset, Role, FindRole, tables, ghosts
        <4> QED
          BY <1>1, <4>1 DEF RolesExist
      <3> QED
        BY <3>1, <3>2, <3>3, <3>4, <3>5, <3>6, <3>7
    <2> QED
      BY <2>2, <2>3, <2>4 DEF RolesInv
  <1> QED
    BY <1>2, <1>3

LEMMA NextRoles == BaseInv /\ RolesInv /\ [NextAccounts]_accountVars => RolesInv'
  <1> SUFFICES ASSUME BaseInv, RolesInv, [NextAccounts]_accountVars PROVE RolesInv'
    OBVIOUS
  <1>1. ASSUME NEW c \in Callers, Call(c) PROVE RolesInv'
    <2>1. PICK o \in Calls : Begun(c, o)
      BY <1>1, CallBegins DEF BaseInv
    <2>2. UNCHANGED <<user, roles, granted, overlapped, strays>>
      BY <2>1 DEF Begun, tables, ghosts
    <2>3. call'[c] = o /\ \A d \in Callers \ {c} : call'[d] = call[d]
      BY <2>1 DEF Begun, BaseInv, CallsOK
    <2>4. o.image = NoUser /\ (Unchecked(o) \/ RoleNamed(o) = NoRole)
      BY <2>1 DEF Begun, Fresh
    <2> QED
      BY <2>2, <2>3, <2>4 DEF RolesInv, SeesTruth, RolesExist
  <1>2. ASSUME NEW c \in Callers, Proceed(c) PROVE RolesInv'
    BY <1>2, RolesOfProceed
  <1>3. ASSUME NEW c \in Callers, Break(c) PROVE RolesInv'
    <2>1. GoodCall(Quiet) /\ Yields(c, Quiet) /\ UNCHANGED <<user, roles, granted, overlapped, strays>>
      BY <1>3, QuietCall DEF Break, GoodCall, tables, ghosts
    <2>2. call'[c] = Quiet /\ \A d \in Callers \ {c} : SeesTruth(call[d])'
      BY <2>1, OthersSee
    <2>3. RolesExist'
      BY <2>1 DEF RolesExist, RolesInv
    <2> QED
      BY <2>2, <2>3, QuietSees DEF RolesInv
  <1>4. ASSUME NEW t \in 1..MaxDrawn, Expire(t) PROVE RolesInv'
    BY <1>4 DEF Expire, tables, ghosts, RolesInv, SeesTruth, RolesExist
  <1>5. CASE UNCHANGED accountVars
    BY <1>5 DEF accountVars, tables, ghosts, RolesInv, SeesTruth, RolesExist
  <1> QED
    BY <1>1, <1>2, <1>3, <1>4, <1>5 DEF NextAccounts

(* Once DeleteRole has deleted a role, no user has it and no permissions    *)
(* are kept for its name, save through rows written by calls that another   *)
(* call overtook and permissions set for a role that was not there.         *)
THEOREM RolesAlwaysExist == SpecAccounts => []RolesExist
  <1>1. RolesInv => RolesExist
    BY DEF RolesInv
  <1> QED
    BY <1>1, InitBase, NextBase, InitRoles, NextRoles, PTL DEF SpecAccounts

-----------------------------------------------------------------------------
(***************************************************************************)
(* Fields.  A call that is past its read has seen a row it was allowed to  *)
(* change; while it is alone (RolesInv) the row is still that one.         *)
(***************************************************************************)
Admitted(o) ==
  /\ o.action \in {"change", "disable"} => o.shown = o.image.password
  /\ o.action \in {"setup", "enable"} => ~o.image.otp
  /\ o.action = "enable" => o.shown = o.image.secret

AdmittedInv == \A c \in Callers : HasRead(call[c]) => Admitted(call[c])

LEMMA AdmittedOfKeepers ==
  ASSUME AdmittedInv, NEW d \in Callers, Keeps(d)
  PROVE  HasRead(call'[d]) => Admitted(call'[d])
  BY QuietCall DEF AdmittedInv, Keeps, Admitted

LEMMA AdmittedOfProceed ==
  ASSUME BaseInv, AdmittedInv, NEW c \in Callers, Proceed(c)
  PROVE  AdmittedInv'
  <1> DEFINE old == call[c]
  <1>1. CASE Read(c)
    <2>1. PICK o : GoodCall(o) /\ Yields(c, o) /\ ReadInto(old, o)
      BY <1>1, ReadCall
    <2>2. call'[c] = o /\ \A d \in Callers \ {c} : SameCall(call'[d], call[d])
      BY <2>1, Yielded DEF BaseInv
    <2>3. \A d \in Callers \ {c} : HasRead(call'[d]) => Admitted(call'[d])
      BY <2>2 DEF AdmittedInv, SameCall, HasRead, Saving, Admitted
    <2>4. HasRead(o) => Admitted(o)
      <3>1. CASE o = Quiet
        BY <3>1, QuietCall
      <3>2. CASE ~HasRead(o)
        BY <3>2
      <3>3. CASE /\ o.action = old.action /\ o.image = user /\ o.shown = old.shown
                 /\ Accepts(old, user) /\ (user = NoUser => old.action = "create")
        BY <3>3 DEF Admitted, Accepts
      <3> QED
        BY <2>1, <3>1, <3>2, <3>3 DEF ReadInto
    <2> QED
      BY <2>2, <2>3, <2>4 DEF AdmittedInv
  <1>2. CASE ~Read(c)
    BY <1>2, ProceedKeeps, AdmittedOfKeepers DEF AdmittedInv
  <1> QED
    BY <1>1, <1>2

LEMMA InitAdmitted == InitAccounts => AdmittedInv
  BY QuietCall DEF InitAccounts, AdmittedInv

LEMMA NextAdmitted == BaseInv /\ AdmittedInv /\ [NextAccounts]_accountVars => AdmittedInv'
  <1> SUFFICES ASSUME BaseInv, AdmittedInv, [NextAccounts]_accountVars PROVE AdmittedInv'
    OBVIOUS
  <1>1. ASSUME NEW c \in Callers, Call(c) PROVE AdmittedInv'
    <2>1. PICK o \in Calls : Begun(c, o)
      BY <1>1, CallBegins DEF BaseInv
    <2>2. /\ call'[c] = o /\ ~HasRead(o)
          /\ \A d \in Callers \ {c} : call'[d] = call[d]
      BY <2>1 DEF Begun, Fresh, BaseInv, CallsOK
    <2> QED
      BY <2>2 DEF AdmittedInv
  <1>2. ASSUME NEW c \in Callers, Proceed(c) PROVE AdmittedInv'
    BY <1>2, AdmittedOfProceed
  <1>3. ASSUME NEW c \in Callers, Break(c) PROVE AdmittedInv'
    <2>1. GoodCall(Quiet) /\ Yields(c, Quiet)
      BY <1>3, QuietCall DEF Break, GoodCall
    <2>2. call'[c] = Quiet /\ \A d \in Callers \ {c} : SameCall(call'[d], call[d])
      BY <2>1, Yielded DEF BaseInv
    <2>3. \A d \in Callers : Keeps(d)
      BY <2>2 DEF Keeps, SameCall, HasRead, Saving
    <2> QED
      BY <2>3, AdmittedOfKeepers DEF AdmittedInv
  <1>4. ASSUME NEW t \in 1..MaxDrawn, Expire(t) PROVE AdmittedInv'
    BY <1>4 DEF Expire, AdmittedInv
  <1>5. CASE UNCHANGED accountVars
    BY <1>5 DEF accountVars, AdmittedInv
  <1> QED
    BY <1>1, <1>2, <1>3, <1>4, <1>5 DEF NextAccounts

(* What a handler may write, by its action.                                 *)
LEMMA WritesItsFields ==
  ASSUME NEW o \in Calls, OnPlan(o), Fits(o), Saving(o), o.image # NoUser, Admitted(o),
         NEW f \in DOMAIN o.image, SaveUser(o)[f] # o.image[f]
  PROVE  Authorised(o, f, o.image)
  <1>1. /\ o.image \in Users /\ f \in {"password", "role", "email", "secret", "otp"}
        /\ f \in DOMAIN o.new /\ SaveUser(o)[f] = o.new[f]
    <2>1. o.image \in Users
      BY DEF Calls
    <2>2. f \in {"password", "role", "email", "secret", "otp"}
      BY <2>1 DEF Users
    <2>3. SaveUser(o)[f] = IF f \in DOMAIN o.new THEN o.new[f] ELSE o.image[f]
      BY DEF SaveUser, Written
    <2> QED
      BY <2>1, <2>2, <2>3
  <1>2. o.action \in {"reset", "change", "setup", "enable", "disable", "email", "assign"}
    BY DEF OnPlan, Saving, Is, Are2, Are3, Are4
  <1>3. CASE o.action \in {"reset", "change"}
    BY <1>1, <1>3 DEF Fits, Admitted, Authorised
  <1>4. CASE o.action \in {"setup", "disable"}
    <2>1. f \in {"secret", "otp"}
      BY <1>1, <1>4 DEF Fits
    <2>2. CASE o.action = "setup" /\ f = "otp"
      BY <1>1, <2>2 DEF Fits, Admitted, Users
    <2> QED
      BY <1>4, <2>1, <2>2 DEF Admitted, Authorised
  <1>5. CASE o.action = "enable"
    BY <1>1, <1>5 DEF Fits, Admitted, Authorised
  <1>6. CASE o.action \in {"email", "assign"}
    BY <1>1, <1>6 DEF Fits, Authorised, NewRoles
  <1> QED
    BY <1>2, <1>3, <1>4, <1>5, <1>6

(* A field of a user's row changes only by a call that may change it: one   *)
(* whose check of the password, the code or the role, made some statements  *)
(* earlier, is still right when it saves the whole row, unless another call *)
(* overtook it.                                                             *)
THEOREM FieldsAreGuarded == SpecAccounts => FieldsGuarded
  <1>1. BaseInv /\ RolesInv /\ AdmittedInv /\ NextAccounts =>
          (user # NoUser /\ user' # NoUser =>
             \A f \in DOMAIN user :
               user'[f] # user[f] =>
                 \E c \in Callers :
                   \/ Doing(c, "dropRole") /\ f = "role" /\ user'.role = NoRole
                   \/ Doing(c, "save") /\ (call[c].clean => Authorised(call[c], f, user)))
    <2> SUFFICES ASSUME BaseInv, RolesInv, AdmittedInv, NextAccounts, user # NoUser, user' # NoUser,
                        NEW f \in DOMAIN user, user'[f] # user[f]
                 PROVE  \E c \in Callers :
                          \/ Doing(c, "dropRole") /\ f = "role" /\ user'.role = NoRole
                          \/ Doing(c, "save") /\ (call[c].clean => Authorised(call[c], f, user))
      OBVIOUS
    <2>1. PICK c \in Callers : Save(c) \/ DropRole(c)
      <3>1. ASSUME NEW c \in Callers, Call(c) PROVE user' = user
        BY <3>1, CallBegins DEF BaseInv, Begun, tables
      <3>2. ASSUME NEW c \in Callers, Proceed(c), ~Save(c), ~DropRole(c) PROVE user' = user
        BY <3>2 DEF Proceed, Read, FindAdmin, Insert, Drop, Open, Session, Caller, Close, IssuePending,
                    IssueReset, ConsumePending, ConsumeReset, Role, FindRole, InsertRole, Grant, tables
      <3>3. ASSUME NEW c \in Callers, Break(c) PROVE user' = user
        BY <3>3 DEF Break, tables
      <3>4. ASSUME NEW t \in 1..MaxDrawn, Expire(t) PROVE user' = user
        BY <3>4 DEF Expire, tables
      <3> QED
        BY <3>1, <3>2, <3>3, <3>4 DEF NextAccounts
    <2>2. CASE DropRole(c)
      <3>1. user \in Users /\ user' = Bereft(user, call[c].new.role)
        BY <2>2 DEF DropRole, BaseInv, AccountsTypeOK
      <3>2. user' = [user EXCEPT !.role = NoRole]
        BY <3>1 DEF Bereft
      <3>3. f = "role" /\ user'.role = NoRole
        BY <3>1, <3>2 DEF Users
      <3> QED
        BY <2>2, <3>3 DEF DropRole
    <2>3. CASE Save(c) /\ call[c].clean
      <3>1. Saving(call[c])
        BY <2>3, LastStatement DEF Save, BaseInv, Saving
      <3>2. /\ call[c] \in Calls /\ OnPlan(call[c]) /\ Fits(call[c])
            /\ call[c].image # NoUser /\ Admitted(call[c]) /\ call[c].image = user
        BY <2>3, <3>1 DEF BaseInv, CallsOK, HasRead, AdmittedInv, RolesInv, SeesTruth
      <3>3. user' = SaveUser(call[c])
        BY <2>3 DEF Save
      <3>4. Authorised(call[c], f, user)
        BY <3>1, <3>2, <3>3, WritesItsFields
      <3> QED
        BY <2>3, <3>4 DEF Save
    <2> QED
      BY <2>1, <2>2, <2>3 DEF Save
  <1>2. BaseInv /\ RolesInv /\ AdmittedInv /\ [NextAccounts]_accountVars =>
          [user # NoUser /\ user' # NoUser =>
             \A f \in DOMAIN user :
               user'[f] # user[f] =>
                 \E c \in Callers :
                   \/ Doing(c, "dropRole") /\ f = "role" /\ user'.role = NoRole
                   \/ Doing(c, "save") /\ (call[c].clean => Authorised(call[c], f, user))]_accountVars
    BY <1>1
  <1> QED
    BY <1>2, InitBase, NextBase, InitRoles, NextRoles, InitAdmitted, NextAdmitted, PTL
       DEF SpecAccounts, FieldsGuarded

-----------------------------------------------------------------------------
(***************************************************************************)
(* GROUPS: what requests are, and what an administrator who is alone       *)
(* knows.                                                                  *)
(***************************************************************************)
(* What is stored, noted and requested.                                     *)
Configs == Files \cup {Onetime}
Edits ==
  {<<>>} \cup [description : Descriptions \cup {Blank}] \cup [selector : Selectors \cup {Blank}] \cup Rows
Details ==
  [fields : Edits, tags : SUBSET Tags, configs : SUBSET Configs, content : Contents \cup {Absent}]
GroupRows == [row : Rows \cup {Absent}, tags : SUBSET Tags, mapped : SUBSET Configs]
Views == [group : GroupRows, existing : SUBSET Configs, command : Contents \cup {Absent}]

Requested ==
  {"create", "update", "selector", "delete", "tags", "add", "remove", "createCommand", "deleteCommand",
   "rollback"}
Statements ==
  {"insertRow", "readRow", "saveRow", "snapRow", "snapTags", "snapConfigs", "dropGroup", "putTags", "map",
   "unmap", "branch", "list", "clear", "findCommand", "insertCommand", "snapCommand", "dropCommand",
   "branchCommand", "record"}

Entries == [action : Requested, detail : Details, was : Views, now : Views, clean : BOOLEAN]
Requests ==
  [todo : Seq(Statements), new : Details, action : Requested \cup {"none"}, detail : Details,
   image : Rows \cup {Absent}, listed : SUBSET Configs, undo : Entries \cup {Absent}, before : Views,
   clean : BOOLEAN]

(* What a request does: a rollback does the opposite of what it undoes.     *)
Job(o) ==
  IF o.action # "rollback" THEN o.action
  ELSE CASE o.undo.action = "add"            -> "remove"
         [] o.undo.action = "remove"         -> "add"
         [] o.undo.action = "delete"         -> "recreate"
         [] o.undo.action = "deleteCommand" -> "putBack"
         [] OTHER                            -> o.undo.action

(* The statements that are left, from the k-th on, once the row is back.    *)
Are5(t, a, b, c, d, e) == Len(t) = 5 /\ t[1] = a /\ t[2] = b /\ t[3] = c /\ t[4] = d /\ t[5] = e

Remaining(t, k, tags, configs) ==
  \/ /\ tags = {} /\ configs = {}
     /\ Len(t) = k /\ t[k] = "record"
  \/ /\ tags = {} /\ configs # {}
     /\ Len(t) = k + 1 /\ t[k] = "map" /\ t[k + 1] = "record"
  \/ /\ tags # {} /\ configs = {}
     /\ Len(t) = k + 1 /\ t[k] = "putTags" /\ t[k + 1] = "record"
  \/ /\ tags # {} /\ configs # {}
     /\ Len(t) = k + 2 /\ t[k] = "putTags" /\ t[k + 1] = "map" /\ t[k + 2] = "record"

(* Where a request can be.                                                  *)
OnPath(o) ==
  LET t == o.todo IN
  \/ Job(o) = "none" /\ t = <<>>
  \/ Job(o) = "create" /\ (Are2(t, "insertRow", "record") \/ Is(t, "record"))
  \/ /\ Job(o) \in {"update", "selector"}
     /\ Are3(t, "readRow", "saveRow", "record") \/ Are2(t, "saveRow", "record") \/ Is(t, "record")
  \/ /\ Job(o) = "delete"
     /\ \/ Are5(t, "snapRow", "snapTags", "snapConfigs", "dropGroup", "record")
        \/ Are4(t, "snapTags", "snapConfigs", "dropGroup", "record")
        \/ Are3(t, "snapConfigs", "dropGroup", "record")
        \/ Are2(t, "dropGroup", "record") \/ Is(t, "record")
  \/ /\ Job(o) = "tags"
     /\ Are3(t, "snapTags", "putTags", "record") \/ Are2(t, "putTags", "record") \/ Is(t, "record")
  \/ Job(o) = "add" /\ (Are2(t, "map", "record") \/ Is(t, "record"))
  \/ Job(o) = "remove" /\ (Are2(t, "unmap", "record") \/ Is(t, "record"))
  \/ /\ Job(o) = "createCommand"
     /\ \/ Are3(t, "findCommand", "insertCommand", "record") \/ Are2(t, "insertCommand", "record")
        \/ Is(t, "record")
  \/ /\ Job(o) = "deleteCommand"
     /\ \/ Are3(t, "snapCommand", "dropCommand", "record") \/ Are2(t, "dropCommand", "record")
        \/ Is(t, "record")
  \/ /\ Job(o) = "recreate"
     /\ \/ Is(t, "branch")
        \/ t[1] = "insertRow" /\ Remaining(t, 2, o.new.tags, o.new.configs)
        \/ t[1] = "saveRow" /\ t[2] = "list" /\ t[3] = "clear" /\ Remaining(t, 4, o.new.tags, o.new.configs)
        \/ t[1] = "list" /\ t[2] = "clear" /\ Remaining(t, 3, o.new.tags, o.new.configs)
        \/ t[1] = "clear" /\ Remaining(t, 2, o.new.tags, o.new.configs)
        \/ Remaining(t, 1, o.new.tags, o.new.configs)
        \/ Remaining(t, 1, {}, o.new.configs)
  \/ /\ Job(o) = "putBack"
     /\ \/ Is(t, "branchCommand") \/ Are3(t, "dropCommand", "insertCommand", "record")
        \/ Are2(t, "insertCommand", "record") \/ Is(t, "record")

(* A request that goes on stays on its path.                                *)
LEMMA TailOnPath ==
  ASSUME NEW o \in Requests, OnPath(o), o.todo # <<>>,
         Head(o.todo) \notin {"branch", "branchCommand", "record"},
         NEW n \in Requests, Job(n) = Job(o), n.todo = Tail(o.todo), n.new.tags = o.new.tags,
         Job(o) = "recreate" => n.new.configs = IF Head(o.todo) = "map" THEN {} ELSE o.new.configs
  PROVE  OnPath(n)
  <1>1. o.todo \in Seq(Statements)
    BY DEF Requests
  <1>2. CASE Job(o) = "recreate"
    <2>1. CASE o.todo[1] = "saveRow"
      BY <1>1, <1>2, <2>1 DEF OnPath, Remaining, Is
    <2>2. CASE o.todo[1] = "list"
      BY <1>1, <1>2, <2>2 DEF OnPath, Remaining, Is
    <2>3. CASE o.todo[1] \in {"clear", "insertRow"}
      BY <1>1, <1>2, <2>3 DEF OnPath, Remaining, Is
    <2>4. CASE o.todo[1] \notin {"saveRow", "list", "clear", "insertRow"}
      BY <1>1, <1>2, <2>4 DEF OnPath, Remaining, Is
    <2> QED BY <2>1, <2>2, <2>3, <2>4
  <1>3. CASE Job(o) = "delete"
    BY <1>1, <1>3 DEF OnPath, Is, Are2, Are3, Are4, Are5
  <1>4. CASE Job(o) \in {"create", "update", "selector", "tags"}
    BY <1>1, <1>4 DEF OnPath, Is, Are2, Are3
  <1>5. CASE Job(o) \in {"add", "remove"}
    BY <1>1, <1>5 DEF OnPath, Is, Are2
  <1>6. CASE Job(o) \in {"createCommand", "deleteCommand", "putBack"}
    BY <1>1, <1>6 DEF OnPath, Is, Are2, Are3
  <1> QED BY <1>2, <1>3, <1>4, <1>5, <1>6 DEF OnPath

(* What is filled in on the way.                                            *)
Facing(o, step) == o.todo # <<>> /\ Head(o.todo) = step

OneConfig(s) == \E c \in Configs : s = {c}

Filled(o) ==
  /\ Job(o) \in {"create", "recreate"} => o.new.fields \in Rows
  /\ Job(o) = "update" => o.new.fields \in [description : Descriptions \cup {Blank}]
  /\ Job(o) = "selector" => o.new.fields \in [selector : Selectors \cup {Blank}]
  /\ Facing(o, "saveRow") => o.image # Absent
  /\ o.action = "selector" /\ (Facing(o, "saveRow") \/ Facing(o, "record")) =>
       o.detail.fields \in [selector : Selectors \cup {Blank}]
  /\ o.action = "delete" /\ ~Facing(o, "snapRow") => o.detail.fields \in Rows
  /\ Job(o) \in {"add", "remove"} =>
       /\ Facing(o, "map") \/ Facing(o, "unmap") => OneConfig(o.new.configs) /\ o.detail.configs = {}
       /\ Facing(o, "record") => o.new.configs = {} /\ OneConfig(o.detail.configs)

(* A rollback writes what the entry has noted.                              *)
Restores(o) ==
  o.action = "rollback" =>
    /\ o.undo \in Entries
    /\ o.undo.action \in {"selector", "tags", "add", "remove", "delete", "deleteCommand"}
    /\ o.new.fields = o.undo.detail.fields /\ o.new.tags = o.undo.detail.tags
    /\ o.new.content = o.undo.detail.content
    /\ Job(o) \in {"add", "remove"} => o.undo.detail.configs = o.new.configs \cup o.detail.configs
    /\ Job(o) = "recreate" =>
         /\ o.new.configs \subseteq o.undo.detail.configs
         /\ o.todo[1] \notin {"map", "record"} => o.new.configs = o.undo.detail.configs

(* An entry that can be rolled back has the value to go back to.            *)
Sound(e) ==
  /\ e \in Entries
  /\ e.action = "delete" => e.detail.fields \in Rows
  /\ e.action = "selector" => e.detail.fields \in [selector : Selectors \cup {Blank}]
  /\ e.action \in {"add", "remove"} => OneConfig(e.detail.configs)

Good(o) == o \in Requests /\ OnPath(o) /\ Filled(o) /\ Restores(o)

StoreOK ==
  /\ group \in GroupRows /\ files \subseteq Files /\ command \in Contents \cup {Absent}
  /\ command \in stored /\ stored \subseteq Contents \cup {Absent} /\ forfeited \subseteq stored \ {Absent}
  /\ requests \in 0..MaxRequests /\ failures \in 0..MaxFailures

GroupsInv ==
  /\ StoreOK
  /\ \A e \in history : Sound(e)
  /\ op \in [Admins -> Requests]
  /\ \A a \in Admins :
       /\ Good(op[a])
       /\ op[a].action = "rollback" => op[a].undo \in history
       /\ op[a].before.command \in stored \cup {Absent}

-----------------------------------------------------------------------------
LEMMA BlankIsRow == BlankRow \in Rows /\ NoDetail \in Details /\ NoGroup \in GroupRows
  BY DEF BlankRow, Rows, NoDetail, Details, Edits, NoGroup, GroupRows

LEMMA ViewIsTyped == StoreOK => View \in Views
  BY DEF StoreOK, View, Views, Existing, Configs

LEMMA IdleIsGood ==
  Good(Idle) /\ Idle.action = "none" /\ Idle.before.command = Absent /\ ~Idle.clean /\ Job(Idle) = "none"
  <1>1. Idle.action = "none" /\ Idle.todo = <<>> /\ Idle.before = NoView /\ Idle.clean = FALSE
    BY DEF Idle
  <1>2. NoView \in Views /\ NoView.command = Absent
    BY BlankIsRow DEF NoView, Views
  <1>3. Idle \in Requests
    BY <1>2, BlankIsRow DEF Idle, Requests
  <1>4. Job(Idle) = "none"
    BY <1>1 DEF Job
  <1>5. OnPath(Idle) /\ Filled(Idle) /\ Restores(Idle)
    BY <1>1, <1>4 DEF OnPath, Filled, Restores, Facing
  <1> QED BY <1>1, <1>2, <1>3, <1>4, <1>5 DEF Good

(* The request as it begins.                                                *)
Beginning(action, todo, new, e) ==
  [Idle EXCEPT !.action = action, !.todo = todo, !.new = new, !.undo = e, !.before = View, !.clean = TRUE]

LEMMA BeginsTyped ==
  ASSUME NEW action \in Requested, NEW todo \in Seq(Statements), NEW new \in Details,
         NEW e \in Entries \cup {Absent}, StoreOK
  PROVE  /\ Beginning(action, todo, new, e) \in Requests
         /\ Beginning(action, todo, new, e).action = action
         /\ Beginning(action, todo, new, e).todo = todo
         /\ Beginning(action, todo, new, e).new = new
         /\ Beginning(action, todo, new, e).undo = e
         /\ Beginning(action, todo, new, e).before = View
         /\ Beginning(action, todo, new, e).detail = NoDetail
         /\ action # "rollback" => Job(Beginning(action, todo, new, e)) = action
  <1>1. NoDetail \in Details /\ View \in Views
    BY ViewIsTyped, BlankIsRow
  <1>2. Idle \in Requests /\ Idle.detail = NoDetail
    BY IdleIsGood DEF Good, Idle
  <1> DEFINE o == Beginning(action, todo, new, e)
  <1>3. /\ o \in Requests /\ o.action = action /\ o.todo = todo /\ o.new = new /\ o.undo = e
        /\ o.before = View /\ o.detail = NoDetail
    BY <1>1, <1>2 DEF Beginning, Requests
  <1>4. action # "rollback" => Job(o) = action
    <2> HIDE DEF o
    <2> QED BY <1>3 DEF Job
  <1> QED BY <1>3, <1>4

(* Requests stay as they are, but for being alone.                          *)
SameRequest(n, o) ==
  /\ n.todo = o.todo /\ n.new = o.new /\ n.action = o.action /\ n.detail = o.detail /\ n.image = o.image
  /\ n.listed = o.listed /\ n.undo = o.undo /\ n.before = o.before /\ (n.clean => o.clean)

LEMMA SameRequestIsGood ==
  ASSUME NEW o \in Requests, Good(o), NEW n, n \in {o, [o EXCEPT !.clean = FALSE]}
  PROVE  n \in Requests /\ Good(n) /\ SameRequest(n, o) /\ Job(n) = Job(o)
  <1>1. n \in Requests /\ SameRequest(n, o)
    BY DEF Requests, SameRequest
  <1>2. Job(n) = Job(o)
    BY <1>1 DEF SameRequest, Job
  <1>3. OnPath(n)
    BY <1>1, <1>2 DEF SameRequest, Good, OnPath
  <1>4. Filled(n) /\ Restores(n)
    BY <1>1, <1>2 DEF SameRequest, Good, Filled, Restores, Facing
  <1> QED BY <1>1, <1>2, <1>3, <1>4 DEF Good

LEMMA Became ==
  ASSUME GroupsInv, NEW a \in Admins, NEW o, Good(o), Becomes(a, o),
         o.action = "rollback" => o.undo \in history',
         o.before.command = op[a].before.command \/ o.before.command = Absent,
         group' \in GroupRows, command' \in Contents \cup {Absent},
         \A e \in history' : Sound(e), history \subseteq history',
         forfeited' \subseteq stored' \ {Absent}, failures' \in 0..MaxFailures
  PROVE  /\ GroupsInv'
         /\ op'[a] = o
         /\ \A b \in Admins \ {a} : SameRequest(op'[b], op[b]) /\ (op'[b].clean => View' = View)
  <1>1. /\ files' = files /\ requests' = requests
        /\ stored' = stored \cup {command'}
        /\ op' = [b \in Admins |-> IF b = a THEN o ELSE IF View' = View THEN op[b]
                                   ELSE [op[b] EXCEPT !.clean = FALSE]]
    BY DEF Becomes
  <1>2. op'[a] = o
    BY <1>1
  <1>3. ASSUME NEW b \in Admins \ {a}
        PROVE  /\ op'[b] \in Requests /\ Good(op'[b]) /\ SameRequest(op'[b], op[b])
               /\ op'[b].clean => View' = View
    <2>1. op[b] \in Requests /\ Good(op[b])
      BY DEF GroupsInv
    <2>2. op'[b] = IF View' = View THEN op[b] ELSE [op[b] EXCEPT !.clean = FALSE]
      BY <1>1
    <2>3. View' # View => op'[b].clean = FALSE
      BY <2>1, <2>2 DEF Requests
    <2> QED BY <2>1, <2>2, <2>3, SameRequestIsGood
  <1>4. op' \in [Admins -> Requests]
    <2>1. \A b \in Admins : op'[b] \in Requests
      BY <1>2, <1>3 DEF Good
    <2>2. op' = [b \in Admins |-> op'[b]]
      BY <1>1
    <2> QED BY <2>1, <2>2
  <1>5. StoreOK'
    BY <1>1 DEF GroupsInv, StoreOK
  <1>6. ASSUME NEW b \in Admins
        PROVE  /\ Good(op'[b])
               /\ op'[b].action = "rollback" => op'[b].undo \in history'
               /\ op'[b].before.command \in stored' \cup {Absent}
    <2>1. op[b].before.command \in stored \cup {Absent} /\ (op[b].action = "rollback" => op[b].undo \in history)
      BY DEF GroupsInv
    <2>2. CASE b = a
      BY <1>1, <1>2, <2>1, <2>2
    <2>3. CASE b # a
      BY <1>1, <1>3, <2>1, <2>3 DEF SameRequest
    <2> QED BY <2>2, <2>3
  <1>7. GroupsInv'
    BY <1>4, <1>5, <1>6 DEF GroupsInv
  <1> QED BY <1>2, <1>3, <1>7

-----------------------------------------------------------------------------
(***************************************************************************)
(* What an administrator who is alone knows: where the request stands, the *)
(* view v is the one before it with the request's own changes.             *)
(***************************************************************************)
Unmoved(o) ==
  CASE Job(o) = "recreate" -> o.todo[1] \in {"branch", "insertRow", "saveRow"}
    [] Job(o) = "putBack"  -> o.todo[1] \in {"branchCommand", "dropCommand"}
    [] OTHER               -> o.todo[1] # "record"

Hidden(b) == IF b.group.row = Absent THEN b.group.mapped ELSE b.group.mapped \ b.existing

SelectorHonest(o, v) ==
  Job(o) = "selector" =>
    /\ o.todo[1] \in {"saveRow", "record"} =>
         o.before.group.row \in Rows /\ o.detail.fields = [selector |-> o.before.group.row.selector]
    /\ o.todo[1] = "saveRow" => o.image = o.before.group.row
    /\ o.todo[1] = "record" => v.group = [o.before.group EXCEPT !.row = Edited(o.before.group.row, o.new.fields)]

LinksHonest(o, v) ==
  /\ Job(o) = "tags" =>
       /\ o.todo[1] \in {"putTags", "record"} => o.detail.tags = o.before.group.tags
       /\ o.todo[1] = "record" => v.group = [o.before.group EXCEPT !.tags = o.new.tags]
  /\ Job(o) = "add" /\ o.todo[1] = "record" =>
       v.group = [o.before.group EXCEPT !.mapped = o.before.group.mapped \cup o.detail.configs]
  /\ Job(o) = "remove" /\ o.todo[1] = "record" =>
       v.group = [o.before.group EXCEPT !.mapped = o.before.group.mapped \ o.detail.configs]

Snapped(detail, b) ==
  /\ detail.fields = IF b.group.row = Absent THEN BlankRow ELSE b.group.row
  /\ detail.tags = b.group.tags
  /\ detail.configs = b.group.mapped \cap b.existing

DeleteHonest(o) ==
  Job(o) = "delete" =>
    /\ o.todo[1] # "snapRow" =>
         o.detail.fields = IF o.before.group.row = Absent THEN BlankRow ELSE o.before.group.row
    /\ o.todo[1] \notin {"snapRow", "snapTags"} => o.detail.tags = o.before.group.tags
    /\ o.todo[1] \notin {"snapRow", "snapTags", "snapConfigs"} =>
         o.detail.configs = o.before.group.mapped \cap o.before.existing

CommandHonest(o, v) ==
  /\ Job(o) = "deleteCommand" /\ o.todo[1] # "snapCommand" => o.detail.content = o.before.command
  /\ Job(o) = "putBack" /\ o.todo[1] = "record" => v.command = o.new.content

RecreateHonest(o, v) ==
  Job(o) = "recreate" =>
    /\ o.todo[1] = "insertRow" => o.before.group.row = Absent
    /\ o.todo[1] \in {"saveRow", "list", "clear"} => o.before.group.row # Absent
    /\ o.todo[1] \in {"list", "clear", "putTags", "map", "record"} => v.group.row = o.new.fields
    /\ o.todo[1] \in {"list", "clear"} => v.group.tags = o.before.group.tags
    /\ o.todo[1] = "list" => v.group.mapped = o.before.group.mapped /\ v.existing = o.before.existing
    /\ o.todo[1] = "clear" =>
         /\ o.listed \subseteq o.before.existing
         /\ v.group.mapped = (o.before.group.mapped \ o.before.existing) \cup o.listed
    /\ o.todo[1] \in {"putTags", "map", "record"} =>
         /\ v.group.mapped = Hidden(o.before) \cup (o.undo.detail.configs \ o.new.configs)
         /\ v.group.tags = IF o.todo[1] = "putTags" \/ o.new.tags = {} THEN o.before.group.tags ELSE o.new.tags

Honest(o, v) ==
  o.clean /\ o.todo # <<>> =>
    /\ Unmoved(o) => v = o.before
    /\ SelectorHonest(o, v) /\ LinksHonest(o, v) /\ DeleteHonest(o) /\ CommandHonest(o, v) /\ RecreateHonest(o, v)

(* What an entry says of a request that was alone.                          *)
True(e) ==
  e.clean =>
    /\ e.action = "selector" =>
         /\ e.was.group.row \in Rows
         /\ e.detail.fields = [selector |-> e.was.group.row.selector]
         /\ \E f \in [selector : Selectors \cup {Blank}] :
              e.now.group = [e.was.group EXCEPT !.row = Edited(e.was.group.row, f)]
    /\ e.action = "tags" =>
         /\ e.detail.tags = e.was.group.tags
         /\ \E t \in SUBSET Tags : e.now.group = [e.was.group EXCEPT !.tags = t]
    /\ e.action = "add" =>
         e.now.group = [e.was.group EXCEPT !.mapped = e.was.group.mapped \cup e.detail.configs]
    /\ e.action = "remove" =>
         e.now.group = [e.was.group EXCEPT !.mapped = e.was.group.mapped \ e.detail.configs]
    /\ e.action = "delete" => Snapped(e.detail, e.was)
    /\ e.action = "deleteCommand" => e.detail.content = e.was.command

HonestInv ==
  /\ \A a \in Admins : Honest(op[a], View)
  /\ \A e \in history : True(e)

(* Others cannot make a request lie: either it is not alone any more or     *)
(* what it knows of is as it was.                                           *)
LEMMA SameIsHonest ==
  ASSUME NEW o, NEW n, SameRequest(n, o), NEW v, NEW w, n.clean => w = v, Honest(o, v)
  PROVE  Honest(n, w)
  <1> SUFFICES ASSUME n.clean, n.todo # <<>> PROVE Honest(n, w)
    BY DEF Honest
  <1>1. o.clean /\ w = v /\ Job(n) = Job(o)
    BY DEF SameRequest, Job
  <1>2. Unmoved(n) => w = n.before
    BY <1>1 DEF SameRequest, Honest, Unmoved
  <1>3. SelectorHonest(n, w) /\ LinksHonest(n, w)
    BY <1>1 DEF SameRequest, Honest, SelectorHonest, LinksHonest
  <1>4. DeleteHonest(n) /\ CommandHonest(n, w)
    BY <1>1 DEF SameRequest, Honest, DeleteHonest, CommandHonest
  <1>5. RecreateHonest(n, w)
    BY <1>1 DEF SameRequest, Honest, RecreateHonest
  <1> QED BY <1>2, <1>3, <1>4, <1>5 DEF Honest

LEMMA HonestAfter ==
  ASSUME HonestInv, NEW a \in Admins, Honest(op'[a], View'),
         \A b \in Admins \ {a} : SameRequest(op'[b], op[b]) /\ (op'[b].clean => View' = View),
         \A e \in history' : True(e)
  PROVE  HonestInv'
  <1>1. ASSUME NEW b \in Admins PROVE Honest(op'[b], View')
    <2>1. CASE b = a
      BY <2>1
    <2>2. CASE b # a
      BY <2>2, SameIsHonest DEF HonestInv
    <2> QED BY <2>1, <2>2
  <1> QED BY <1>1 DEF HonestInv

-----------------------------------------------------------------------------
(* The requests.  At its beginning a request knows nothing but the view.    *)
LEMMA Began ==
  ASSUME GroupsInv, HonestInv, NEW a \in Admins, NEW action \in Requested, NEW todo \in Seq(Statements),
         NEW new \in Details, NEW e \in Entries \cup {Absent},
         action = "rollback" => e \in history,
         BeginUndo(a, action, todo, new, e),
         OnPath(Beginning(action, todo, new, e)), Filled(Beginning(action, todo, new, e)),
         Restores(Beginning(action, todo, new, e)), Honest(Beginning(action, todo, new, e), View)
  PROVE  GroupsInv' /\ HonestInv'
  <1> DEFINE o == Beginning(action, todo, new, e)
  <1>1. o \in Requests /\ o.action = action /\ o.undo = e /\ o.before = View
    BY BeginsTyped DEF GroupsInv
  <1>2. Good(o)
    BY <1>1 DEF Good
  <1>3. /\ op' = [op EXCEPT ![a] = o]
        /\ UNCHANGED <<group, files, command, history, failures, stored, forfeited>>
        /\ requests < MaxRequests /\ requests' = requests + 1
    BY DEF BeginUndo, Count, Beginning
  <1>4. View' = View /\ View.command = command
    BY <1>3 DEF View, Existing
  <1> HIDE DEF o
  <1>5. op' \in [Admins -> Requests] /\ op'[a] = o /\ \A b \in Admins \ {a} : op'[b] = op[b]
    BY <1>1, <1>3 DEF GroupsInv
  <1>6. StoreOK'
    BY <1>3, LimitAssumption DEF GroupsInv, StoreOK
  <1>7. ASSUME NEW b \in Admins
        PROVE  /\ Good(op'[b])
               /\ op'[b].action = "rollback" => op'[b].undo \in history'
               /\ op'[b].before.command \in stored' \cup {Absent}
               /\ Honest(op'[b], View')
    <2>1. CASE b = a
      BY <1>1, <1>2, <1>3, <1>4, <1>5, <2>1 DEF GroupsInv, StoreOK, o
    <2>2. CASE b # a
      BY <1>3, <1>4, <1>5, <2>2 DEF GroupsInv, HonestInv
    <2> QED BY <2>1, <2>2
  <1>8. GroupsInv'
    BY <1>3, <1>5, <1>6, <1>7 DEF GroupsInv
  <1>9. HonestInv'
    BY <1>3, <1>7 DEF HonestInv
  <1> QED BY <1>8, <1>9

(* How a request that is no rollback begins well.                           *)
LEMMA BeganWell ==
  ASSUME GroupsInv, HonestInv, NEW a \in Admins, NEW action \in Requested, action # "rollback",
         NEW todo \in Seq(Statements), todo # <<>>, NEW new \in Details, Begin(a, action, todo, new),
         todo[1] \notin {"record", "saveRow"},
         OnPath(Beginning(action, todo, new, Absent)),
         action = "create" => new.fields \in Rows,
         action = "update" => new.fields \in [description : Descriptions \cup {Blank}],
         action = "selector" => new.fields \in [selector : Selectors \cup {Blank}],
         action = "delete" => todo[1] = "snapRow",
         action = "tags" => todo[1] = "snapTags",
         action = "deleteCommand" => todo[1] = "snapCommand",
         action \in {"add", "remove"} => OneConfig(new.configs)
  PROVE  GroupsInv' /\ HonestInv'
  <1> DEFINE o == Beginning(action, todo, new, Absent)
  <1>1. BeginUndo(a, action, todo, new, Absent)
    BY DEF Begin
  <1>2. /\ o \in Requests /\ o.action = action /\ o.todo = todo /\ o.new = new /\ o.undo = Absent
        /\ o.before = View /\ o.detail = NoDetail /\ Job(o) = action
    BY BeginsTyped DEF GroupsInv
  <1> HIDE DEF o
  <1>3. action \notin {"recreate", "putBack"}
    BY DEF Requested
  <1>4. Filled(o)
    <2>1. Head(o.todo) = todo[1] /\ ~Facing(o, "record") /\ ~Facing(o, "saveRow")
      BY <1>2 DEF Facing
    <2>2. NoDetail.configs = {}
      BY DEF NoDetail
    <2> QED BY <1>2, <1>3, <2>1, <2>2 DEF Filled, Facing
  <1>5. Restores(o)
    BY <1>2 DEF Restores
  <1>6. SelectorHonest(o, View) /\ LinksHonest(o, View) /\ RecreateHonest(o, View)
    BY <1>2, <1>3 DEF SelectorHonest, LinksHonest, RecreateHonest
  <1>7. DeleteHonest(o) /\ CommandHonest(o, View)
    BY <1>2, <1>3 DEF DeleteHonest, CommandHonest
  <1>8. Honest(o, View)
    BY <1>2, <1>6, <1>7 DEF Honest
  <1> QED BY <1>1, <1>2, <1>4, <1>5, <1>8, Began DEF o

LEMMA Requesting ==
  ASSUME GroupsInv, HonestInv, NEW a \in Admins, Request(a), ~RollbackConfig(a)
  PROVE  GroupsInv' /\ HonestInv'
  <1>1. CASE CreateGroup(a)
    <2> DEFINE todo == <<"insertRow", "record">>
    <2>1. PICK r \in Rows : Begin(a, "create", todo, [NoDetail EXCEPT !.fields = r])
      BY <1>1 DEF CreateGroup
    <2> DEFINE new == [NoDetail EXCEPT !.fields = r]
    <2>2. new \in Details /\ new.fields \in Rows
      BY DEF NoDetail, Details, Edits
    <2>3. todo \in Seq(Statements) /\ todo # <<>> /\ "create" \in Requested /\ Are2(todo, "insertRow", "record")
      BY DEF Statements, Requested, Are2
    <2> HIDE DEF new, todo
    <2>4. OnPath(Beginning("create", todo, new, Absent))
      <3>1. /\ Beginning("create", todo, new, Absent).todo = todo
            /\ Job(Beginning("create", todo, new, Absent)) = "create"
        BY <2>2, <2>3, BeginsTyped DEF GroupsInv
      <3> QED BY <2>3, <3>1 DEF OnPath
    <2>5. todo[1] = "insertRow"
      BY <2>3 DEF Are2
    <2> QED BY <2>1, <2>2, <2>3, <2>4, <2>5, BeganWell DEF new
  <1>2. CASE UpdateGroup(a)
    <2> DEFINE todo == <<"readRow", "saveRow", "record">>
    <2>1. PICK d \in Descriptions \cup {Blank} : Begin(a, "update", todo, [NoDetail EXCEPT !.fields = [description |-> d]])
      BY <1>2 DEF UpdateGroup
    <2> DEFINE new == [NoDetail EXCEPT !.fields = [description |-> d]]
    <2>2. new \in Details /\ new.fields \in [description : Descriptions \cup {Blank}]
      BY DEF NoDetail, Details, Edits
    <2>3. todo \in Seq(Statements) /\ todo # <<>> /\ "update" \in Requested /\ Are3(todo, "readRow", "saveRow", "record")
      BY DEF Statements, Requested, Are3
    <2> HIDE DEF new, todo
    <2>4. OnPath(Beginning("update", todo, new, Absent))
      <3>1. /\ Beginning("update", todo, new, Absent).todo = todo
            /\ Job(Beginning("update", todo, new, Absent)) = "update"
        BY <2>2, <2>3, BeginsTyped DEF GroupsInv
      <3> QED BY <2>3, <3>1 DEF OnPath
    <2>5. todo[1] = "readRow"
      BY <2>3 DEF Are3
    <2> QED BY <2>1, <2>2, <2>3, <2>4, <2>5, BeganWell DEF new
  <1>3. CASE SetSelector(a)
    <2> DEFINE todo == <<"readRow", "saveRow", "record">>
    <2>1. PICK d \in Selectors \cup {Blank} : Begin(a, "selector", todo, [NoDetail EXCEPT !.fields = [selector |-> d]])
      BY <1>3 DEF SetSelector
    <2> DEFINE new == [NoDetail EXCEPT !.fields = [selector |-> d]]
    <2>2. new \in Details /\ new.fields \in [selector : Selectors \cup {Blank}]
      BY DEF NoDetail, Details, Edits
    <2>3. todo \in Seq(Statements) /\ todo # <<>> /\ "selector" \in Requested /\ Are3(todo, "readRow", "saveRow", "record")
      BY DEF Statements, Requested, Are3
    <2> HIDE DEF new, todo
    <2>4. OnPath(Beginning("selector", todo, new, Absent))
      <3>1. /\ Beginning("selector", todo, new, Absent).todo = todo
            /\ Job(Beginning("selector", todo, new, Absent)) = "selector"
        BY <2>2, <2>3, BeginsTyped DEF GroupsInv
      <3> QED BY <2>3, <3>1 DEF OnPath
    <2>5. todo[1] = "readRow"
      BY <2>3 DEF Are3
    <2> QED BY <2>1, <2>2, <2>3, <2>4, <2>5, BeganWell DEF new
  <1>4. CASE DeleteGroup(a)
    <2> DEFINE todo == <<"snapRow", "snapTags", "snapConfigs", "dropGroup", "record">>
    <2> DEFINE new == NoDetail
    <2>1. Begin(a, "delete", todo, new)
      BY <1>4 DEF DeleteGroup
    <2>2. new \in Details
      BY BlankIsRow
    <2>3. todo \in Seq(Statements) /\ todo # <<>> /\ "delete" \in Requested /\ Are5(todo, "snapRow", "snapTags", "snapConfigs", "dropGroup", "record")
      BY DEF Statements, Requested, Are5
    <2> HIDE DEF new, todo
    <2>4. OnPath(Beginning("delete", todo, new, Absent))
      <3>1. /\ Beginning("delete", todo, new, Absent).todo = todo
            /\ Job(Beginning("delete", todo, new, Absent)) = "delete"
        BY <2>2, <2>3, BeginsTyped DEF GroupsInv
      <3> QED BY <2>3, <3>1 DEF OnPath
    <2>5. todo[1] = "snapRow"
      BY <2>3 DEF Are5
    <2> QED BY <2>1, <2>2, <2>3, <2>4, <2>5, BeganWell DEF new
  <1>5. CASE SetGroupTags(a)
    <2> DEFINE todo == <<"snapTags", "putTags", "record">>
    <2>1. PICK t \in SUBSET Tags : Begin(a, "tags", todo, [NoDetail EXCEPT !.tags = t])
      BY <1>5 DEF SetGroupTags
    <2> DEFINE new == [NoDetail EXCEPT !.tags = t]
    <2>2. new \in Details
      BY DEF NoDetail, Details, Edits
    <2>3. todo \in Seq(Statements) /\ todo # <<>> /\ "tags" \in Requested /\ Are3(todo, "snapTags", "putTags", "record")
      BY DEF Statements, Requested, Are3
    <2> HIDE DEF new, todo
    <2>4. OnPath(Beginning("tags", todo, new, Absent))
      <3>1. /\ Beginning("tags", todo, new, Absent).todo = todo
            /\ Job(Beginning("tags", todo, new, Absent)) = "tags"
        BY <2>2, <2>3, BeginsTyped DEF GroupsInv
      <3> QED BY <2>3, <3>1 DEF OnPath
    <2>5. todo[1] = "snapTags"
      BY <2>3 DEF Are3
    <2> QED BY <2>1, <2>2, <2>3, <2>4, <2>5, BeganWell DEF new
  <1>6. CASE AddGroupConfig(a)
    <2> DEFINE todo == <<"map", "record">>
    <2>1. PICK c \in Configs : Begin(a, "add", todo, [NoDetail EXCEPT !.configs = {c}])
      BY <1>6 DEF AddGroupConfig, Configs
    <2> DEFINE new == [NoDetail EXCEPT !.configs = {c}]
    <2>2. new \in Details /\ OneConfig(new.configs)
      BY DEF NoDetail, Details, Edits, OneConfig
    <2>3. todo \in Seq(Statements) /\ todo # <<>> /\ "add" \in Requested /\ Are2(todo, "map", "record")
      BY DEF Statements, Requested, Are2
    <2> HIDE DEF new, todo
    <2>4. OnPath(Beginning("add", todo, new, Absent))
      <3>1. /\ Beginning("add", todo, new, Absent).todo = todo
            /\ Job(Beginning("add", todo, new, Absent)) = "add"
        BY <2>2, <2>3, BeginsTyped DEF GroupsInv
      <3> QED BY <2>3, <3>1 DEF OnPath
    <2>5. todo[1] = "map"
      BY <2>3 DEF Are2
    <2> QED BY <2>1, <2>2, <2>3, <2>4, <2>5, BeganWell DEF new
  <1>7. CASE RemoveGroupConfig(a)
    <2> DEFINE todo == <<"unmap", "record">>
    <2>1. PICK c \in Configs : Begin(a, "remove", todo, [NoDetail EXCEPT !.configs = {c}])
      BY <1>7 DEF RemoveGroupConfig, Configs
    <2> DEFINE new == [NoDetail EXCEPT !.configs = {c}]
    <2>2. new \in Details /\ OneConfig(new.configs)
      BY DEF NoDetail, Details, Edits, OneConfig
    <2>3. todo \in Seq(Statements) /\ todo # <<>> /\ "remove" \in Requested /\ Are2(todo, "unmap", "record")
      BY DEF Statements, Requested, Are2
    <2> HIDE DEF new, todo
    <2>4. OnPath(Beginning("remove", todo, new, Absent))
      <3>1. /\ Beginning("remove", todo, new, Absent).todo = todo
            /\ Job(Beginning("remove", todo, new, Absent)) = "remove"
        BY <2>2, <2>3, BeginsTyped DEF GroupsInv
      <3> QED BY <2>3, <3>1 DEF OnPath
    <2>5. todo[1] = "unmap"
      BY <2>3 DEF Are2
    <2> QED BY <2>1, <2>2, <2>3, <2>4, <2>5, BeganWell DEF new
  <1>8. CASE CreateOnetimeCommand(a)
    <2> DEFINE todo == <<"findCommand", "insertCommand", "record">>
    <2>1. PICK v \in Contents : Begin(a, "createCommand", todo, [NoDetail EXCEPT !.content = v])
      BY <1>8 DEF CreateOnetimeCommand
    <2> DEFINE new == [NoDetail EXCEPT !.content = v]
    <2>2. new \in Details
      BY DEF NoDetail, Details, Edits
    <2>3. todo \in Seq(Statements) /\ todo # <<>> /\ "createCommand" \in Requested /\ Are3(todo, "findCommand", "insertCommand", "record")
      BY DEF Statements, Requested, Are3
    <2> HIDE DEF new, todo
    <2>4. OnPath(Beginning("createCommand", todo, new, Absent))
      <3>1. /\ Beginning("createCommand", todo, new, Absent).todo = todo
            /\ Job(Beginning("createCommand", todo, new, Absent)) = "createCommand"
        BY <2>2, <2>3, BeginsTyped DEF GroupsInv
      <3> QED BY <2>3, <3>1 DEF OnPath
    <2>5. todo[1] = "findCommand"
      BY <2>3 DEF Are3
    <2> QED BY <2>1, <2>2, <2>3, <2>4, <2>5, BeganWell DEF new
  <1>9. CASE DeleteOnetimeCommand(a)
    <2> DEFINE todo == <<"snapCommand", "dropCommand", "record">>
    <2> DEFINE new == NoDetail
    <2>1. Begin(a, "deleteCommand", todo, new)
      BY <1>9 DEF DeleteOnetimeCommand
    <2>2. new \in Details
      BY BlankIsRow
    <2>3. todo \in Seq(Statements) /\ todo # <<>> /\ "deleteCommand" \in Requested /\ Are3(todo, "snapCommand", "dropCommand", "record")
      BY DEF Statements, Requested, Are3
    <2> HIDE DEF new, todo
    <2>4. OnPath(Beginning("deleteCommand", todo, new, Absent))
      <3>1. /\ Beginning("deleteCommand", todo, new, Absent).todo = todo
            /\ Job(Beginning("deleteCommand", todo, new, Absent)) = "deleteCommand"
        BY <2>2, <2>3, BeginsTyped DEF GroupsInv
      <3> QED BY <2>3, <3>1 DEF OnPath
    <2>5. todo[1] = "snapCommand"
      BY <2>3 DEF Are3
    <2> QED BY <2>1, <2>2, <2>3, <2>4, <2>5, BeganWell DEF new
  <1> QED BY <1>1, <1>2, <1>3, <1>4, <1>5, <1>6, <1>7, <1>8, <1>9 DEF Request

(* A rollback starts from an entry that can be rolled back.                 *)
LEMMA RollingBack ==
  ASSUME GroupsInv, HonestInv, NEW a \in Admins, RollbackConfig(a)
  PROVE  GroupsInv' /\ HonestInv'
  <1>1. PICK e \in history : Undoing(e) # <<>> /\ BeginUndo(a, "rollback", Undoing(e), e.detail, e)
    BY DEF RollbackConfig
  <1>2. Sound(e) /\ e \in Entries /\ e.detail \in Details
    BY DEF GroupsInv, Sound, Entries
  <1> DEFINE o == Beginning("rollback", Undoing(e), e.detail, e)
  <1>3. Undoing(e) \in Seq(Statements) /\ e.action \in {"selector", "tags", "add", "remove", "delete", "deleteCommand"}
    <2> DEFINE A == {"selector", "tags", "add", "remove", "delete", "deleteCommand"}
    <2>1. e.action \in A
      BY <1>1 DEF Undoing
    <2>2. CASE e.action = "selector"
      BY <2>2 DEF Undoing, Statements
    <2>3. CASE e.action = "tags"
      BY <2>3 DEF Undoing, Statements
    <2>4. CASE e.action = "add"
      BY <2>4 DEF Undoing, Statements
    <2>5. CASE e.action = "remove"
      BY <2>5 DEF Undoing, Statements
    <2>6. CASE e.action \in {"delete", "deleteCommand"}
      BY <2>6 DEF Undoing, Statements
    <2> QED BY <2>1, <2>2, <2>3, <2>4, <2>5, <2>6
  <1>4. /\ o \in Requests /\ o.action = "rollback" /\ o.todo = Undoing(e) /\ o.new = e.detail /\ o.undo = e
        /\ o.before = View /\ o.detail = NoDetail
    BY <1>2, <1>3, BeginsTyped DEF GroupsInv, Requested
  <1> HIDE DEF o
  <1>5. /\ OnPath(o) /\ Filled(o) /\ Restores(o)
        /\ Unmoved(o) => View = o.before
        /\ SelectorHonest(o, View) /\ LinksHonest(o, View) /\ DeleteHonest(o) /\ CommandHonest(o, View)
        /\ RecreateHonest(o, View)
    <2>1. CASE e.action = "selector"
      <3>1. o.todo = <<"readRow", "saveRow", "record">> /\ Job(o) = "selector"
        BY <1>4, <2>1 DEF Undoing, Job
      <3> QED BY <1>2, <1>4, <2>1, <3>1 DEF OnPath, Are3, Filled, Facing, Restores, Sound, SelectorHonest,
                LinksHonest, DeleteHonest, CommandHonest, RecreateHonest
    <2>2. CASE e.action = "tags"
      <3>1. o.todo = <<"snapTags", "putTags", "record">> /\ Job(o) = "tags"
        BY <1>4, <2>2 DEF Undoing, Job
      <3> QED BY <1>2, <1>4, <2>2, <3>1 DEF OnPath, Are3, Filled, Facing, Restores, Sound, SelectorHonest,
                LinksHonest, DeleteHonest, CommandHonest, RecreateHonest
    <2>3. CASE e.action = "add"
      <3>1. o.todo = <<"unmap", "record">> /\ Job(o) = "remove"
        BY <1>4, <2>3 DEF Undoing, Job
      <3> QED BY <1>2, <1>4, <2>3, <3>1 DEF OnPath, Are2, Filled, Facing, Restores, Sound, NoDetail, SelectorHonest,
                LinksHonest, DeleteHonest, CommandHonest, RecreateHonest
    <2>4. CASE e.action = "remove"
      <3>1. o.todo = <<"map", "record">> /\ Job(o) = "add"
        BY <1>4, <2>4 DEF Undoing, Job
      <3> QED BY <1>2, <1>4, <2>4, <3>1 DEF OnPath, Are2, Filled, Facing, Restores, Sound, NoDetail, SelectorHonest,
                LinksHonest, DeleteHonest, CommandHonest, RecreateHonest
    <2>5. CASE e.action = "delete"
      <3>1. o.todo = <<"branch">> /\ Job(o) = "recreate"
        BY <1>4, <2>5 DEF Undoing, Job
      <3> QED BY <1>2, <1>4, <2>5, <3>1 DEF OnPath, Is, Filled, Facing, Restores, Sound, SelectorHonest,
                LinksHonest, DeleteHonest, CommandHonest, RecreateHonest
    <2>6. CASE e.action = "deleteCommand"
      <3>1. o.todo = <<"branchCommand">> /\ Job(o) = "putBack"
        BY <1>4, <2>6 DEF Undoing, Job
      <3> QED BY <1>2, <1>4, <2>6, <3>1 DEF OnPath, Is, Filled, Facing, Restores, Sound, SelectorHonest,
                LinksHonest, DeleteHonest, CommandHonest, RecreateHonest
    <2> QED BY <1>3, <2>1, <2>2, <2>3, <2>4, <2>5, <2>6
  <1>6. Honest(o, View)
    BY <1>5 DEF Honest
  <1> QED BY <1>1, <1>2, <1>3, <1>5, <1>6, Began DEF o, Requested

-----------------------------------------------------------------------------
(***************************************************************************)
(* The statements.  What each makes of the request is Good and Honest.     *)
(***************************************************************************)
LEMMA OfRequest ==
  ASSUME GroupsInv, HonestInv, NEW a \in Admins, NEW step, At(a, step)
  PROVE  /\ op[a] \in Requests /\ Good(op[a]) /\ Honest(op[a], View)
         /\ op[a].todo \in Seq(Statements) /\ op[a].todo # <<>> /\ op[a].todo[1] = step
         /\ Head(op[a].todo) = step /\ Facing(op[a], step)
         /\ OnPath(op[a]) /\ Filled(op[a]) /\ Restores(op[a])
         /\ op[a].action = "rollback" => op[a].undo \in history
         /\ View \in Views /\ View.group = group /\ View.existing = Existing /\ View.command = command
         /\ group \in GroupRows /\ command \in Contents \cup {Absent}
  BY ViewIsTyped DEF GroupsInv, HonestInv, At, Good, Requests, Facing, View, StoreOK

LEMMA ThenGoesOn ==
  ASSUME NEW o \in Requests, o.todo # <<>>
  PROVE  /\ Then(o) \in Requests /\ Then(o).todo = Tail(o.todo)
         /\ Then(o).action = o.action /\ Then(o).new = o.new /\ Then(o).detail = o.detail
         /\ Then(o).image = o.image /\ Then(o).listed = o.listed /\ Then(o).undo = o.undo
         /\ Then(o).before = o.before /\ Then(o).clean = o.clean
  <1>1. o.todo \in Seq(Statements)
    BY DEF Requests
  <1>2. Tail(o.todo) \in Seq(Statements)
    BY <1>1
  <1> QED BY <1>2 DEF Then, Requests

(* Believing what one is told changes nothing but whether one is clean.     *)
LEMMA BelievingGoesOn ==
  ASSUME NEW o \in Requests, NEW seen
  PROVE  /\ Believing(o, seen) \in Requests /\ Believing(o, seen).todo = o.todo
         /\ Believing(o, seen).action = o.action /\ Believing(o, seen).new = o.new
         /\ Believing(o, seen).detail = o.detail /\ Believing(o, seen).image = o.image
         /\ Believing(o, seen).listed = o.listed /\ Believing(o, seen).undo = o.undo
         /\ Believing(o, seen).before = o.before
         /\ Believing(o, seen).clean => o.clean /\ seen = command
  <1>1. (o.clean /\ seen = command) \in BOOLEAN
    OBVIOUS
  <1> QED BY <1>1 DEF Believing, Requests

(* A request has no next step of the wrong kind.                            *)
LEMMA JobOf ==
  ASSUME NEW o \in Requests, OnPath(o), o.todo # <<>>
  PROVE  /\ o.todo[1] = "readRow" => Job(o) \in {"update", "selector"}
         /\ o.todo[1] = "saveRow" => Job(o) \in {"update", "selector", "recreate"}
         /\ o.todo[1] = "insertRow" => Job(o) \in {"create", "recreate"}
         /\ o.todo[1] \in {"snapRow", "snapConfigs", "dropGroup"} => Job(o) = "delete"
         /\ o.todo[1] = "snapTags" => Job(o) \in {"delete", "tags"}
         /\ o.todo[1] = "putTags" => Job(o) \in {"tags", "recreate"}
         /\ o.todo[1] = "map" => Job(o) \in {"add", "recreate"}
         /\ o.todo[1] = "unmap" => Job(o) = "remove"
         /\ o.todo[1] \in {"branch", "list", "clear"} => Job(o) = "recreate"
         /\ o.todo[1] = "findCommand" => Job(o) = "createCommand"
         /\ o.todo[1] = "insertCommand" => Job(o) \in {"createCommand", "putBack"}
         /\ o.todo[1] = "snapCommand" => Job(o) = "deleteCommand"
         /\ o.todo[1] = "dropCommand" => Job(o) \in {"deleteCommand", "putBack"}
         /\ o.todo[1] = "branchCommand" => Job(o) = "putBack"
         /\ Job(o) # "none"
  BY DEF OnPath, Is, Are2, Are3, Are4, Are5, Remaining

LEMMA NextOf ==
  ASSUME NEW o \in Requests, OnPath(o), o.todo # <<>>, o.todo[1] \notin {"record", "branch", "branchCommand"}
  PROVE  /\ Tail(o.todo) # <<>> /\ Tail(o.todo)[1] = o.todo[2]
         /\ o.todo[1] = "readRow" => o.todo[2] = "saveRow"
         /\ o.todo[1] = "saveRow" => o.todo[2] = IF Job(o) = "recreate" THEN "list" ELSE "record"
         /\ o.todo[1] = "snapRow" => o.todo[2] = "snapTags"
         /\ o.todo[1] = "snapTags" => o.todo[2] = IF Job(o) = "delete" THEN "snapConfigs" ELSE "putTags"
         /\ o.todo[1] = "snapConfigs" => o.todo[2] = "dropGroup"
         /\ o.todo[1] \in {"dropGroup", "unmap", "map", "insertCommand"} => o.todo[2] = "record"
         /\ o.todo[1] = "putTags" => o.todo[2] = IF Job(o) = "recreate" /\ o.new.configs # {} THEN "map" ELSE "record"
         /\ o.todo[1] = "list" => o.todo[2] = "clear"
         /\ o.todo[1] = "findCommand" => o.todo[2] = "insertCommand"
         /\ o.todo[1] = "snapCommand" => o.todo[2] = "dropCommand"
         /\ o.todo[1] = "dropCommand" => o.todo[2] = IF Job(o) = "deleteCommand" THEN "record" ELSE "insertCommand"
         /\ o.todo[1] = "insertRow" /\ Job(o) = "create" => o.todo[2] = "record"
         /\ o.todo[1] \in {"insertRow", "clear"} /\ Job(o) = "recreate" =>
              o.todo[2] = IF o.new.tags # {} THEN "putTags" ELSE IF o.new.configs # {} THEN "map" ELSE "record"
         /\ o.todo[1] = "putTags" /\ Job(o) = "recreate" => o.new.tags # {}
         /\ o.todo[1] = "map" /\ Job(o) = "recreate" => o.new.configs # {}
  <1>1. o.todo \in Seq(Statements)
    BY DEF Requests
  <1> DEFINE t == o.todo
  <1>2. ASSUME Job(o) = "recreate"
        PROVE  /\ Len(t) > 1
               /\ t[1] \in {"saveRow", "list", "insertRow", "clear", "putTags", "map"}
               /\ t[1] = "saveRow" => t[2] = "list"
               /\ t[1] = "list" => t[2] = "clear"
               /\ t[1] \in {"insertRow", "clear"} =>
                    t[2] = IF o.new.tags # {} THEN "putTags" ELSE IF o.new.configs # {} THEN "map" ELSE "record"
               /\ t[1] = "putTags" => o.new.tags # {} /\ t[2] = IF o.new.configs # {} THEN "map" ELSE "record"
               /\ t[1] = "map" => o.new.configs # {} /\ t[2] = "record"
    BY <1>1, <1>2 DEF OnPath, Is, Remaining
  <1>3. ASSUME Job(o) = "delete"
        PROVE  /\ Len(t) > 1
               /\ t[1] \in {"snapRow", "snapTags", "snapConfigs", "dropGroup"}
               /\ t[1] = "snapRow" => t[2] = "snapTags"
               /\ t[1] = "snapTags" => t[2] = "snapConfigs"
               /\ t[1] = "snapConfigs" => t[2] = "dropGroup"
               /\ t[1] = "dropGroup" => t[2] = "record"
    BY <1>1, <1>3 DEF OnPath, Is, Are2, Are3, Are4, Are5
  <1>4. ASSUME Job(o) \in {"create", "update", "selector", "tags"}
        PROVE  /\ Len(t) > 1
               /\ t[1] \in {"insertRow", "readRow", "saveRow", "snapTags", "putTags"}
               /\ t[1] = "insertRow" => t[2] = "record" /\ Job(o) = "create"
               /\ t[1] = "readRow" => t[2] = "saveRow"
               /\ t[1] = "saveRow" => t[2] = "record"
               /\ t[1] = "snapTags" => t[2] = "putTags"
               /\ t[1] = "putTags" => t[2] = "record"
    BY <1>1, <1>4 DEF OnPath, Is, Are2, Are3
  <1>5. ASSUME Job(o) \in {"add", "remove"}
        PROVE  Len(t) > 1 /\ t[1] \in {"map", "unmap"} /\ t[2] = "record"
    BY <1>1, <1>5 DEF OnPath, Is, Are2
  <1>6. ASSUME Job(o) \in {"createCommand", "deleteCommand", "putBack"}
        PROVE  /\ Len(t) > 1
               /\ t[1] \in {"findCommand", "insertCommand", "snapCommand", "dropCommand"}
               /\ t[1] = "findCommand" => t[2] = "insertCommand"
               /\ t[1] = "insertCommand" => t[2] = "record"
               /\ t[1] = "snapCommand" => t[2] = "dropCommand"
               /\ t[1] = "dropCommand" => t[2] = IF Job(o) = "deleteCommand" THEN "record" ELSE "insertCommand"
    BY <1>1, <1>6 DEF OnPath, Is, Are2, Are3
  <1>7. Job(o) \in {"recreate", "delete", "create", "update", "selector", "tags", "add", "remove",
                    "createCommand", "deleteCommand", "putBack"}
    BY DEF OnPath
  <1>8. Len(t) > 1
    BY <1>2, <1>3, <1>4, <1>5, <1>6, <1>7
  <1> HIDE DEF t
  <1>9. Tail(t) # <<>> /\ Tail(t)[1] = t[2]
    <2>1. t \in Seq(Statements)
      BY <1>1 DEF t
    <2>2. Len(Tail(t)) = Len(t) - 1 /\ Tail(t)[1] = t[2]
      BY <1>8, <2>1
    <2>3. Len(t) \in Nat /\ Len(<<>>) = 0
      BY <2>1
    <2>4. Len(Tail(t)) # Len(<<>>)
      BY <1>8, <2>2, <2>3
    <2> QED BY <2>2, <2>4
  <1> QED BY <1>2, <1>3, <1>4, <1>5, <1>6, <1>7, <1>9 DEF t

LEMMA RecordIsLast ==
  ASSUME NEW o \in Requests, OnPath(o), o.todo # <<>>, o.todo[1] = "record", Job(o) = "recreate"
  PROVE  o.new.configs = {}
  BY DEF OnPath, Is, Remaining

LEMMA Nothing ==
  ASSUME NEW v
  PROVE  Honest(Idle, v)
  BY IdleIsGood DEF Honest

LEMMA RequestGoesOn ==
  ASSUME NEW o \in Requests, Good(o), o.todo # <<>>, o.todo[1] \notin {"record", "branch", "branchCommand"},
         NEW n \in Requests, n.todo = Tail(o.todo), n.action = o.action, n.undo = o.undo,
         n.new.fields = o.new.fields, n.new.tags = o.new.tags, n.new.content = o.new.content,
         n.new.configs = IF o.todo[1] \in {"map", "unmap"} THEN {} ELSE o.new.configs,
         IF o.todo[1] = "readRow" THEN n.image # Absent ELSE n.image = o.image,
         IF o.todo[1] = "readRow"
         THEN o.action = "selector" => n.detail.fields \in [selector : Selectors \cup {Blank}]
         ELSE IF o.todo[1] = "snapRow" THEN n.detail.fields \in Rows
         ELSE n.detail.fields = o.detail.fields,
         n.detail.configs = IF o.todo[1] \in {"map", "unmap"} THEN o.detail.configs \cup o.new.configs
                            ELSE IF o.todo[1] = "snapConfigs" THEN n.detail.configs ELSE o.detail.configs
  PROVE  Good(n) /\ Job(n) = Job(o) /\ n.todo # <<>> /\ n.todo[1] = o.todo[2]
  <1>1. OnPath(o) /\ Filled(o) /\ Restores(o) /\ o.todo \in Seq(Statements) /\ Head(o.todo) = o.todo[1]
    BY DEF Good, Requests
  <1>2. Job(n) = Job(o)
    BY DEF Job
  <1>3. OnPath(n)
    <2>1. Job(o) = "recreate" => o.todo[1] # "unmap"
      BY <1>1, JobOf
    <2> QED BY <1>1, <1>2, <2>1, TailOnPath
  <1>4. n.todo # <<>> /\ n.todo[1] = o.todo[2] /\ Head(n.todo) = n.todo[1]
    BY <1>1, NextOf DEF Requests
  <1>5. Filled(n)
    <2>1. Job(o) \in {"create", "recreate"} => n.new.fields \in Rows
      BY <1>1 DEF Filled
    <2>2. Job(o) = "update" => n.new.fields \in [description : Descriptions \cup {Blank}]
      BY <1>1 DEF Filled
    <2>3. Job(o) = "selector" => n.new.fields \in [selector : Selectors \cup {Blank}]
      BY <1>1 DEF Filled
    <2>4. Facing(n, "saveRow") => n.image # Absent
      <3>1. n.todo[1] = "saveRow" => o.todo[1] = "readRow"
        BY <1>1, <1>4, NextOf, JobOf DEF Requests, Statements
      <3> QED BY <1>4, <3>1 DEF Facing
    <2>5. o.action = "selector" /\ (Facing(n, "saveRow") \/ Facing(n, "record")) =>
            n.detail.fields \in [selector : Selectors \cup {Blank}]
      <3>1. o.action = "selector" => o.todo[1] \in {"readRow", "saveRow"}
        BY <1>1 DEF Job, OnPath, Are2, Are3, Is
      <3>2. o.todo[1] = "saveRow" => Facing(o, "saveRow")
        BY <1>1 DEF Facing
      <3> QED BY <1>1, <3>1, <3>2 DEF Filled
    <2>6. o.action = "delete" /\ ~Facing(n, "snapRow") => n.detail.fields \in Rows
      <3>1. o.action = "delete" => o.todo[1] # "readRow"
        BY <1>1, JobOf DEF Job
      <3>2. o.todo[1] # "snapRow" => ~Facing(o, "snapRow")
        BY <1>1 DEF Facing
      <3> QED BY <1>1, <3>1, <3>2 DEF Filled
    <2>7. Job(o) \in {"add", "remove"} =>
            /\ o.todo[1] \in {"map", "unmap"} /\ n.todo[1] = "record"
            /\ n.new.configs = {} /\ OneConfig(n.detail.configs)
      <3> SUFFICES ASSUME Job(o) \in {"add", "remove"}
                   PROVE  /\ o.todo[1] \in {"map", "unmap"} /\ n.todo[1] = "record"
                          /\ n.new.configs = {} /\ OneConfig(n.detail.configs)
        OBVIOUS
      <3>1. o.todo[1] \in {"map", "unmap"}
        BY <1>1 DEF OnPath, Are2, Is
      <3>2. n.todo[1] = "record"
        BY <1>1, <1>4, <3>1, NextOf
      <3>3. OneConfig(o.new.configs) /\ o.detail.configs = {}
        BY <1>1, <3>1 DEF Filled, Facing
      <3> QED BY <3>1, <3>2, <3>3 DEF OneConfig
    <2> QED BY <1>2, <1>4, <2>1, <2>2, <2>3, <2>4, <2>5, <2>6, <2>7 DEF Filled, Facing
  <1>6. Restores(n)
    <2> SUFFICES ASSUME o.action = "rollback" PROVE Restores(n)
      BY DEF Restores
    <2>1. /\ o.undo \in Entries
          /\ o.undo.action \in {"selector", "tags", "add", "remove", "delete", "deleteCommand"}
          /\ n.new.fields = o.undo.detail.fields /\ n.new.tags = o.undo.detail.tags
          /\ n.new.content = o.undo.detail.content
      BY <1>1 DEF Restores
    <2>2. Job(o) \in {"add", "remove"} => o.undo.detail.configs = n.new.configs \cup n.detail.configs
      <3>1. Job(o) \in {"add", "remove"} => o.todo[1] \in {"map", "unmap"}
        BY <1>1 DEF OnPath, Are2, Is
      <3> QED BY <1>1, <3>1 DEF Restores
    <2>3. Job(o) = "recreate" =>
            /\ n.new.configs \subseteq o.undo.detail.configs
            /\ n.todo[1] \notin {"map", "record"} => n.new.configs = o.undo.detail.configs
      <3>1. Job(o) = "recreate" /\ n.todo[1] \notin {"map", "record"} => o.todo[1] \notin {"map", "unmap", "record"}
        BY <1>1, <1>4, NextOf, JobOf
      <3> QED BY <1>1, <3>1 DEF Restores
    <2> QED BY <1>2, <2>1, <2>2, <2>3 DEF Restores
  <1> QED BY <1>2, <1>3, <1>4, <1>5, <1>6 DEF Good

LEMMA Done ==
  ASSUME GroupsInv, HonestInv, NEW a \in Admins, NEW n, Becomes(a, n), Good(n), Honest(n, View'),
         n.action = "rollback" => n.undo \in history,
         n.before.command = op[a].before.command \/ n.before.command = Absent,
         history' = history, group' \in GroupRows, command' \in Contents \cup {Absent},
         forfeited' \subseteq stored' \ {Absent}, failures' \in 0..MaxFailures
  PROVE  GroupsInv' /\ HonestInv'
  <1>1. (\A e \in history' : Sound(e)) /\ (\A e \in history' : True(e))
    BY DEF GroupsInv, HonestInv
  <1>2. /\ GroupsInv' /\ op'[a] = n
        /\ \A b \in Admins \ {a} : SameRequest(op'[b], op[b]) /\ (op'[b].clean => View' = View)
    BY <1>1, Became
  <1> QED BY <1>1, <1>2, HonestAfter

LEMMA QuietlyDone ==
  ASSUME GroupsInv, HonestInv, NEW a \in Admins, NEW n, Becomes(a, n), Good(n), Honest(n, View'),
         n.action = "rollback" => n.undo \in history,
         n.before.command = op[a].before.command \/ n.before.command = Absent,
         group' \in GroupRows, UNCHANGED <<command, history, failures, forfeited>>
  PROVE  GroupsInv' /\ HonestInv'
  <1>1. stored \subseteq stored'
    BY DEF Becomes
  <1> QED BY <1>1, Done DEF GroupsInv, StoreOK

LEMMA ViewAfter ==
  /\ View' = [group |-> group', existing |-> Existing', command |-> command']
  /\ View'.group = group' /\ View'.existing = Existing' /\ View'.command = command'
  /\ files' = files /\ command' = command => Existing' = Existing
  /\ files' = files /\ UNCHANGED <<group, command>> => View' = View
  BY DEF View, Existing

LEMMA IdleNow ==
  ASSUME GroupsInv, HonestInv, NEW a \in Admins, Becomes(a, Idle), UNCHANGED <<Tables, failures, forfeited>>
  PROVE  GroupsInv' /\ HonestInv'
  <1>1. group' \in GroupRows
    BY DEF GroupsInv, StoreOK, Tables
  <1> QED BY <1>1, IdleIsGood, Nothing, QuietlyDone DEF Tables

LEMMA AfterReadRow ==
  ASSUME GroupsInv, HonestInv, NEW a \in Admins, ReadRow(a)
  PROVE  GroupsInv' /\ HonestInv'
  <1> DEFINE o == op[a]
             fields == IF "selector" \in DOMAIN o.new.fields THEN [selector |-> group.row.selector] ELSE <<>>
             n == [Then(o) EXCEPT !.image = group.row, !.detail.fields = fields]
  <1>1. /\ At(a, "readRow") /\ UNCHANGED <<Tables, failures, forfeited>>
        /\ Becomes(a, IF group.row = Absent THEN Idle ELSE n)
    BY DEF ReadRow
  <1>2. CASE group.row = Absent
    BY <1>1, <1>2, IdleNow
  <1>3. CASE group.row # Absent
    <2>1. /\ o \in Requests /\ Good(o) /\ Honest(o, View) /\ o.todo # <<>> /\ o.todo[1] = "readRow"
          /\ o.action = "rollback" => o.undo \in history
      BY <1>1, OfRequest
    <2>2. group.row \in Rows /\ group \in GroupRows
      BY <1>3 DEF GroupsInv, StoreOK, GroupRows
    <2>3. Job(o) \in {"update", "selector"} /\ o.todo[2] = "saveRow"
      BY <2>1, JobOf, NextOf DEF Good
    <2>4. /\ fields \in Edits
          /\ Job(o) = "selector" => fields = [selector |-> group.row.selector] /\ fields \in [selector : Selectors \cup {Blank}]
      <3>1. group.row.selector \in Selectors \cup {Blank}
        BY <2>2 DEF Rows
      <3>2. Job(o) = "selector" => "selector" \in DOMAIN o.new.fields
        BY <2>1 DEF Good, Filled
      <3> QED BY <3>1, <3>2 DEF Edits
    <2> HIDE DEF fields
    <2>5. /\ n \in Requests /\ n.todo = Tail(o.todo) /\ n.action = o.action /\ n.undo = o.undo /\ n.new = o.new
          /\ n.image = group.row /\ n.detail.fields = fields /\ n.detail.configs = o.detail.configs
          /\ n.before = o.before /\ n.clean = o.clean
      BY <2>1, <2>2, <2>4, ThenGoesOn DEF Requests, Details
    <2> HIDE DEF n
    <2>6. o.action = "selector" => Job(o) = "selector"
      BY DEF Job
    <2>7. Good(n) /\ Job(n) = Job(o) /\ n.todo[1] = "saveRow" /\ n.todo # <<>>
      BY <1>3, <2>1, <2>3, <2>4, <2>5, <2>6, RequestGoesOn
    <2>8. View' = View
      BY <1>1, ViewAfter DEF Tables, Becomes
    <2>9. Honest(n, View')
      <3> SUFFICES ASSUME o.clean PROVE Honest(n, View)
        BY <2>5, <2>8 DEF Honest
      <3>1. View = o.before /\ o.before.group = group
        BY <2>1, <2>3 DEF Honest, Unmoved, View
      <3>2. SelectorHonest(n, View)
        BY <2>2, <2>4, <2>5, <2>7, <3>1 DEF SelectorHonest
      <3>3. LinksHonest(n, View) /\ DeleteHonest(n) /\ CommandHonest(n, View) /\ RecreateHonest(n, View)
        BY <2>3, <2>7 DEF LinksHonest, DeleteHonest, CommandHonest, RecreateHonest
      <3> QED BY <2>5, <3>1, <3>2, <3>3 DEF Honest
    <2> QED BY <1>1, <1>3, <2>1, <2>2, <2>5, <2>7, <2>9, QuietlyDone DEF Tables
  <1> QED BY <1>2, <1>3

LEMMA EditedRow ==
  ASSUME NEW row \in Rows, NEW fields \in Edits
  PROVE  /\ Edited(row, fields) \in Rows
         /\ fields \in Rows => Edited(row, fields) = fields
         /\ \A f \in DOMAIN BlankRow : f \notin DOMAIN fields => Edited(row, fields)[f] = row[f]
  <1> DEFINE v(f) == IF f \in DOMAIN fields THEN fields[f] ELSE row[f]
  <1>1. DOMAIN row = {"description", "selector"} /\ DOMAIN BlankRow = {"description", "selector"}
    BY DEF Rows, BlankRow
  <1>2. Edited(row, fields) = [f \in {"description", "selector"} |-> v(f)]
    BY <1>1 DEF Edited
  <1>3. v("description") \in Descriptions \cup {Blank} /\ v("selector") \in Selectors \cup {Blank}
    BY DEF Edits, Rows
  <1>4. Edited(row, fields) = [description |-> v("description"), selector |-> v("selector")]
    BY <1>2
  <1>5. ASSUME fields \in Rows PROVE Edited(row, fields) = fields
    <2>1. /\ v("description") = fields.description /\ v("selector") = fields.selector
          /\ fields = [description |-> fields.description, selector |-> fields.selector]
      BY <1>5 DEF Rows
    <2> QED BY <1>4, <2>1
  <1>6. \A f \in DOMAIN BlankRow : f \notin DOMAIN fields => Edited(row, fields)[f] = row[f]
    BY <1>1, <1>2
  <1> HIDE DEF v
  <1> QED BY <1>3, <1>4, <1>5, <1>6 DEF Rows

LEMMA AfterSaveRow ==
  ASSUME GroupsInv, HonestInv, NEW a \in Admins, SaveRow(a)
  PROVE  GroupsInv' /\ HonestInv'
  <1> DEFINE o == op[a]
             n == Then(o)
  <1>1. /\ At(a, "saveRow") /\ UNCHANGED <<command, history, failures, forfeited>>
        /\ group' = [group EXCEPT !.row = Saved(o)]
        /\ Becomes(a, n)
    BY DEF SaveRow
  <1>2. /\ o \in Requests /\ Good(o) /\ Honest(o, View) /\ o.todo # <<>> /\ o.todo[1] = "saveRow"
        /\ o.action = "rollback" => o.undo \in history
        /\ Facing(o, "saveRow") /\ group \in GroupRows
    BY <1>1, OfRequest
  <1>3. /\ n \in Requests /\ n.todo = Tail(o.todo) /\ n.action = o.action /\ n.undo = o.undo /\ n.new = o.new
        /\ n.image = o.image /\ n.detail = o.detail /\ n.before = o.before /\ n.clean = o.clean
    BY <1>2, ThenGoesOn
  <1> HIDE DEF n
  <1>4. Good(n) /\ Job(n) = Job(o) /\ n.todo # <<>> /\ n.todo[1] = o.todo[2]
    BY <1>2, <1>3, RequestGoesOn
  <1>5. Job(o) \in {"update", "selector", "recreate"} /\ o.todo[2] = IF Job(o) = "recreate" THEN "list" ELSE "record"
    BY <1>2, JobOf, NextOf DEF Good
  <1>6. o.image \in Rows /\ o.new.fields \in Edits
    BY <1>2 DEF Good, Filled, Requests, Details
  <1>7. Saved(o) \in Rows /\ (o.new.fields \in Rows => Saved(o) = o.new.fields)
    BY <1>6, EditedRow DEF Saved
  <1>8. /\ group' \in GroupRows
        /\ group'.row = Saved(o) /\ group'.tags = group.tags /\ group'.mapped = group.mapped
    BY <1>1, <1>2, <1>7 DEF GroupRows
  <1>9. Honest(n, View')
    <2> SUFFICES ASSUME o.clean PROVE Honest(n, View')
      BY <1>3 DEF Honest
    <2>1. /\ View = o.before /\ SelectorHonest(o, View) /\ RecreateHonest(o, View)
      BY <1>2, <1>5 DEF Honest, Unmoved
    <2>2. o.before.group = group /\ o.before.existing = Existing
      BY <2>1 DEF View
    <2>3. View'.group = group' /\ View'.existing = Existing
      BY <1>1, ViewAfter DEF Becomes
    <2>4. SelectorHonest(n, View')
      BY <1>1, <1>2, <1>3, <1>4, <1>5, <2>1, <2>2, <2>3 DEF SelectorHonest, Saved
    <2>5. RecreateHonest(n, View')
      <3> SUFFICES ASSUME Job(o) = "recreate" PROVE RecreateHonest(n, View')
        BY <1>4 DEF RecreateHonest
      <3>1. o.new.fields \in Rows
        BY <1>2 DEF Good, Filled
      <3> QED BY <1>2, <1>3, <1>4, <1>5, <1>7, <1>8, <2>1, <2>2, <2>3, <3>1 DEF RecreateHonest
    <2>6. LinksHonest(n, View') /\ DeleteHonest(n) /\ CommandHonest(n, View') /\ ~Unmoved(n)
      BY <1>4, <1>5 DEF LinksHonest, DeleteHonest, CommandHonest, Unmoved
    <2> QED BY <2>4, <2>5, <2>6 DEF Honest
  <1> QED BY <1>1, <1>2, <1>3, <1>4, <1>8, <1>9, QuietlyDone

LEMMA AfterInsertRow ==
  ASSUME GroupsInv, HonestInv, NEW a \in Admins, InsertRow(a)
  PROVE  GroupsInv' /\ HonestInv'
  <1> DEFINE o == op[a]
             n == Then(o)
  <1>1. /\ At(a, "insertRow") /\ UNCHANGED <<command, history, failures, forfeited>>
        /\ IF group.row = Absent
           THEN group' = [group EXCEPT !.row = o.new.fields] /\ Becomes(a, n)
           ELSE UNCHANGED group /\ Becomes(a, Idle)
    BY DEF InsertRow
  <1>2. CASE group.row # Absent
    BY <1>1, <1>2, IdleNow DEF Tables
  <1>3. CASE group.row = Absent
    <2>1. /\ o \in Requests /\ Good(o) /\ Honest(o, View) /\ o.todo # <<>> /\ o.todo[1] = "insertRow"
          /\ o.action = "rollback" => o.undo \in history
          /\ group \in GroupRows
      BY <1>1, OfRequest
    <2>2. /\ n \in Requests /\ n.todo = Tail(o.todo) /\ n.action = o.action /\ n.undo = o.undo /\ n.new = o.new
          /\ n.image = o.image /\ n.detail = o.detail /\ n.before = o.before /\ n.clean = o.clean
      BY <2>1, ThenGoesOn
    <2> HIDE DEF n
    <2>3. Good(n) /\ Job(n) = Job(o) /\ n.todo # <<>> /\ n.todo[1] = o.todo[2]
      BY <2>1, <2>2, RequestGoesOn
    <2>4. /\ Job(o) \in {"create", "recreate"}
          /\ Job(o) = "create" => n.todo[1] = "record"
          /\ Job(o) = "recreate" =>
               n.todo[1] = IF o.new.tags # {} THEN "putTags" ELSE IF o.new.configs # {} THEN "map" ELSE "record"
      BY <2>1, <2>3, JobOf, NextOf DEF Good
    <2>5. o.new.fields \in Rows
      BY <2>1, <2>4 DEF Good, Filled
    <2>6. /\ group' \in GroupRows
          /\ group'.row = o.new.fields /\ group'.tags = group.tags /\ group'.mapped = group.mapped
      BY <1>1, <1>3, <2>1, <2>5 DEF GroupRows
    <2>7. Honest(n, View')
      <3> SUFFICES ASSUME o.clean PROVE Honest(n, View')
        BY <2>2 DEF Honest
      <3>1. View = o.before /\ RecreateHonest(o, View)
        BY <2>1, <2>4 DEF Honest, Unmoved
      <3>2. o.before.group = group /\ View'.group = group'
        BY <3>1, ViewAfter DEF View
      <3>3. RecreateHonest(n, View')
        <4> SUFFICES ASSUME Job(o) = "recreate" PROVE RecreateHonest(n, View')
          BY <2>3 DEF RecreateHonest
        <4>1. o.action = "rollback"
          BY <2>1 DEF Job, Requests, Requested
        <4>2. o.undo.detail.configs = o.new.configs
          BY <2>1, <4>1 DEF Good, Restores
        <4>3. Hidden(n.before) = group.mapped
          BY <1>3, <2>2, <3>2 DEF Hidden
        <4>4. View'.group.mapped = Hidden(n.before) \cup (n.undo.detail.configs \ n.new.configs)
          BY <2>2, <2>6, <3>2, <4>2, <4>3
        <4>5. View'.group.tags = IF n.todo[1] = "putTags" \/ n.new.tags = {} THEN n.before.group.tags ELSE n.new.tags
          BY <2>2, <2>4, <2>6, <3>2
        <4> QED BY <2>2, <2>3, <2>4, <2>6, <3>2, <4>4, <4>5 DEF RecreateHonest
      <3>4. SelectorHonest(n, View') /\ LinksHonest(n, View') /\ DeleteHonest(n) /\ CommandHonest(n, View') /\ ~Unmoved(n)
        BY <2>3, <2>4 DEF SelectorHonest, LinksHonest, DeleteHonest, CommandHonest, Unmoved
      <3> QED BY <3>3, <3>4 DEF Honest
    <2> QED BY <1>1, <1>3, <2>1, <2>2, <2>3, <2>6, <2>7, QuietlyDone
  <1> QED BY <1>2, <1>3

(* The reads of a snapshot.                                                 *)
LEMMA AfterSnapRow ==
  ASSUME GroupsInv, HonestInv, NEW a \in Admins, SnapRow(a)
  PROVE  GroupsInv' /\ HonestInv'
  <1> DEFINE o == op[a]
             fields == IF group.row = Absent THEN BlankRow ELSE group.row
             n == [Then(o) EXCEPT !.detail.fields = fields]
  <1>1. /\ At(a, "snapRow") /\ UNCHANGED <<Tables, failures, forfeited>>
        /\ Becomes(a, n)
    BY DEF SnapRow
  <1>2. /\ o \in Requests /\ Good(o) /\ Honest(o, View) /\ o.todo # <<>> /\ o.todo[1] = "snapRow"
        /\ o.action = "rollback" => o.undo \in history
        /\ group \in GroupRows
    BY <1>1, OfRequest
  <1>3. fields \in Rows /\ fields \in Edits
    BY <1>2, BlankIsRow DEF GroupRows, Edits
  <1> HIDE DEF fields
  <1>4. /\ n \in Requests /\ n.todo = Tail(o.todo) /\ n.action = o.action /\ n.undo = o.undo /\ n.new = o.new
        /\ n.image = o.image /\ n.detail.fields = fields /\ n.detail.configs = o.detail.configs
        /\ n.before = o.before /\ n.clean = o.clean
    BY <1>2, <1>3, ThenGoesOn DEF Requests, Details
  <1> HIDE DEF n
  <1>5. Good(n) /\ Job(n) = Job(o) /\ n.todo # <<>> /\ n.todo[1] = o.todo[2]
    BY <1>2, <1>3, <1>4, RequestGoesOn
  <1>6. Job(o) = "delete" /\ n.todo[1] = "snapTags"
    BY <1>2, <1>5, JobOf, NextOf DEF Good
  <1>7. View' = View
    BY <1>1, ViewAfter DEF Tables, Becomes
  <1>8. Honest(n, View')
    <2> SUFFICES ASSUME o.clean PROVE Honest(n, View)
      BY <1>4, <1>7 DEF Honest
    <2>1. View = o.before /\ o.before.group = group
      BY <1>2, <1>6 DEF Honest, Unmoved, View
    <2>2. DeleteHonest(n)
      BY <1>4, <1>6, <2>1 DEF DeleteHonest, fields
    <2>3. SelectorHonest(n, View) /\ LinksHonest(n, View) /\ CommandHonest(n, View) /\ RecreateHonest(n, View)
      BY <1>5, <1>6 DEF SelectorHonest, LinksHonest, CommandHonest, RecreateHonest
    <2> QED BY <1>4, <2>1, <2>2, <2>3 DEF Honest
  <1> QED BY <1>1, <1>2, <1>4, <1>5, <1>8, QuietlyDone DEF Tables

LEMMA AfterSnapTags ==
  ASSUME GroupsInv, HonestInv, NEW a \in Admins, SnapTags(a)
  PROVE  GroupsInv' /\ HonestInv'
  <1> DEFINE o == op[a]
             n == [Then(o) EXCEPT !.detail.tags = group.tags]
  <1>1. /\ At(a, "snapTags") /\ UNCHANGED <<Tables, failures, forfeited>>
        /\ Becomes(a, n)
    BY DEF SnapTags
  <1>2. /\ o \in Requests /\ Good(o) /\ Honest(o, View) /\ o.todo # <<>> /\ o.todo[1] = "snapTags"
        /\ o.action = "rollback" => o.undo \in history
        /\ group \in GroupRows
    BY <1>1, OfRequest
  <1>3. group.tags \in SUBSET Tags
    BY <1>2 DEF GroupRows
  <1>4. /\ n \in Requests /\ n.todo = Tail(o.todo) /\ n.action = o.action /\ n.undo = o.undo /\ n.new = o.new
        /\ n.image = o.image /\ n.detail.fields = o.detail.fields /\ n.detail.configs = o.detail.configs
        /\ n.detail.tags = group.tags /\ n.before = o.before /\ n.clean = o.clean
    BY <1>2, <1>3, ThenGoesOn DEF Requests, Details
  <1> HIDE DEF n
  <1>5. Good(n) /\ Job(n) = Job(o) /\ n.todo # <<>> /\ n.todo[1] = o.todo[2]
    BY <1>2, <1>3, <1>4, RequestGoesOn
  <1>6. Job(o) \in {"delete", "tags"} /\ n.todo[1] = IF Job(o) = "delete" THEN "snapConfigs" ELSE "putTags"
    BY <1>2, <1>5, JobOf, NextOf DEF Good
  <1>7. View' = View
    BY <1>1, ViewAfter DEF Tables, Becomes
  <1>8. Honest(n, View')
    <2> SUFFICES ASSUME o.clean PROVE Honest(n, View)
      BY <1>4, <1>7 DEF Honest
    <2>1. View = o.before /\ o.before.group = group /\ DeleteHonest(o)
      BY <1>2, <1>6 DEF Honest, Unmoved, View
    <2>2. DeleteHonest(n) /\ LinksHonest(n, View)
      BY <1>2, <1>4, <1>5, <1>6, <2>1 DEF DeleteHonest, LinksHonest
    <2>3. SelectorHonest(n, View) /\ CommandHonest(n, View) /\ RecreateHonest(n, View)
      BY <1>5, <1>6 DEF SelectorHonest, CommandHonest, RecreateHonest
    <2> QED BY <1>4, <2>1, <2>2, <2>3 DEF Honest
  <1> QED BY <1>1, <1>2, <1>4, <1>5, <1>8, QuietlyDone DEF GroupsInv, StoreOK, Tables

LEMMA AfterSnapConfigs ==
  ASSUME GroupsInv, HonestInv, NEW a \in Admins, SnapConfigs(a)
  PROVE  GroupsInv' /\ HonestInv'
  <1> DEFINE o == op[a]
             n == [Then(o) EXCEPT !.detail.configs = group.mapped \cap Existing]
  <1>1. /\ At(a, "snapConfigs") /\ UNCHANGED <<Tables, failures, forfeited>>
        /\ Becomes(a, n)
    BY DEF SnapConfigs
  <1>2. /\ o \in Requests /\ Good(o) /\ Honest(o, View) /\ o.todo # <<>> /\ o.todo[1] = "snapConfigs"
        /\ o.action = "rollback" => o.undo \in history
        /\ group \in GroupRows
    BY <1>1, OfRequest
  <1>3. group.mapped \cap Existing \in SUBSET Configs
    BY <1>2 DEF GroupRows
  <1>4. /\ n \in Requests /\ n.todo = Tail(o.todo) /\ n.action = o.action /\ n.undo = o.undo /\ n.new = o.new
        /\ n.image = o.image /\ n.detail.fields = o.detail.fields /\ n.detail.configs = group.mapped \cap Existing
        /\ n.detail.tags = o.detail.tags /\ n.before = o.before /\ n.clean = o.clean
    BY <1>2, <1>3, ThenGoesOn DEF Requests, Details
  <1> HIDE DEF n
  <1>5. Good(n) /\ Job(n) = Job(o) /\ n.todo # <<>> /\ n.todo[1] = o.todo[2]
    BY <1>2, <1>3, <1>4, RequestGoesOn
  <1>6. Job(o) = "delete" /\ n.todo[1] = "dropGroup"
    BY <1>2, <1>5, JobOf, NextOf DEF Good
  <1>7. View' = View
    BY <1>1, ViewAfter DEF Tables, Becomes
  <1>8. Honest(n, View')
    <2> SUFFICES ASSUME o.clean PROVE Honest(n, View)
      BY <1>4, <1>7 DEF Honest
    <2>1. View = o.before /\ o.before.group = group /\ o.before.existing = Existing /\ DeleteHonest(o)
      BY <1>2, <1>6 DEF Honest, Unmoved, View
    <2>2. DeleteHonest(n)
      BY <1>2, <1>4, <1>5, <1>6, <2>1 DEF DeleteHonest
    <2>3. SelectorHonest(n, View) /\ LinksHonest(n, View) /\ CommandHonest(n, View) /\ RecreateHonest(n, View)
      BY <1>5, <1>6 DEF SelectorHonest, LinksHonest, CommandHonest, RecreateHonest
    <2> QED BY <1>4, <2>1, <2>2, <2>3 DEF Honest
  <1> QED BY <1>1, <1>2, <1>4, <1>5, <1>8, QuietlyDone DEF GroupsInv, StoreOK, Tables

LEMMA AfterDropGroup ==
  ASSUME GroupsInv, HonestInv, NEW a \in Admins, DropGroup(a)
  PROVE  GroupsInv' /\ HonestInv'
  <1> DEFINE o == op[a]
             n == Then(o)
  <1>1. /\ At(a, "dropGroup") /\ UNCHANGED <<command, history, failures, forfeited>>
        /\ group' = NoGroup /\ Becomes(a, n)
    BY DEF DropGroup
  <1>2. /\ o \in Requests /\ Good(o) /\ Honest(o, View) /\ o.todo # <<>> /\ o.todo[1] = "dropGroup"
        /\ o.action = "rollback" => o.undo \in history
    BY <1>1, OfRequest
  <1>3. /\ n \in Requests /\ n.todo = Tail(o.todo) /\ n.action = o.action /\ n.undo = o.undo /\ n.new = o.new
        /\ n.image = o.image /\ n.detail = o.detail /\ n.before = o.before /\ n.clean = o.clean
    BY <1>2, ThenGoesOn
  <1> HIDE DEF n
  <1>4. Good(n) /\ Job(n) = Job(o) /\ n.todo # <<>> /\ n.todo[1] = o.todo[2]
    BY <1>2, <1>3, RequestGoesOn
  <1>5. Job(o) = "delete" /\ n.todo[1] = "record"
    BY <1>2, <1>4, JobOf, NextOf DEF Good
  <1>6. group' \in GroupRows
    BY <1>1, BlankIsRow
  <1>7. Honest(n, View')
    <2> SUFFICES ASSUME o.clean PROVE Honest(n, View')
      BY <1>3 DEF Honest
    <2>1. DeleteHonest(o)
      BY <1>2 DEF Honest
    <2>2. DeleteHonest(n)
      BY <1>2, <1>3, <1>4, <1>5, <2>1 DEF DeleteHonest
    <2>3. /\ SelectorHonest(n, View') /\ LinksHonest(n, View') /\ CommandHonest(n, View')
          /\ RecreateHonest(n, View') /\ ~Unmoved(n)
      BY <1>4, <1>5 DEF SelectorHonest, LinksHonest, CommandHonest, RecreateHonest, Unmoved
    <2> QED BY <2>2, <2>3 DEF Honest
  <1> QED BY <1>1, <1>2, <1>3, <1>4, <1>6, <1>7, QuietlyDone

LEMMA AfterPutTags ==
  ASSUME GroupsInv, HonestInv, NEW a \in Admins, PutTags(a)
  PROVE  GroupsInv' /\ HonestInv'
  <1> DEFINE o == op[a]
             n == Then(o)
  <1>1. /\ At(a, "putTags") /\ UNCHANGED <<command, history, failures, forfeited>>
        /\ group' = [group EXCEPT !.tags = o.new.tags] /\ Becomes(a, n)
    BY DEF PutTags
  <1>2. /\ o \in Requests /\ Good(o) /\ Honest(o, View) /\ o.todo # <<>> /\ o.todo[1] = "putTags"
        /\ o.action = "rollback" => o.undo \in history
        /\ group \in GroupRows
    BY <1>1, OfRequest
  <1>3. /\ n \in Requests /\ n.todo = Tail(o.todo) /\ n.action = o.action /\ n.undo = o.undo /\ n.new = o.new
        /\ n.image = o.image /\ n.detail = o.detail /\ n.before = o.before /\ n.clean = o.clean
    BY <1>2, ThenGoesOn
  <1> HIDE DEF n
  <1>4. Good(n) /\ Job(n) = Job(o) /\ n.todo # <<>> /\ n.todo[1] = o.todo[2]
    BY <1>2, <1>3, RequestGoesOn
  <1>5. /\ Job(o) \in {"tags", "recreate"}
        /\ n.todo[1] = IF Job(o) = "recreate" /\ o.new.configs # {} THEN "map" ELSE "record"
        /\ Job(o) = "recreate" => o.new.tags # {}
    BY <1>2, <1>4, JobOf, NextOf DEF Good
  <1>6. o.new.tags \in SUBSET Tags
    BY <1>2 DEF Requests, Details
  <1>7. /\ group' \in GroupRows
        /\ group'.row = group.row /\ group'.tags = o.new.tags /\ group'.mapped = group.mapped
    BY <1>1, <1>2, <1>6 DEF GroupRows
  <1>8. Honest(n, View')
    <2> SUFFICES ASSUME o.clean PROVE Honest(n, View')
      BY <1>3 DEF Honest
    <2>1. /\ Unmoved(o) => View = o.before
          /\ LinksHonest(o, View) /\ RecreateHonest(o, View)
      BY <1>2 DEF Honest
    <2>2. View.group = group /\ View'.group = group'
      BY ViewAfter DEF View
    <2>3. LinksHonest(n, View')
      <3> SUFFICES ASSUME Job(o) = "tags" PROVE LinksHonest(n, View')
        BY <1>4, <1>5 DEF LinksHonest
      <3>1. View = o.before
        BY <1>2, <2>1 DEF Unmoved
      <3> QED BY <1>1, <1>2, <1>3, <1>4, <1>5, <2>1, <2>2, <3>1 DEF LinksHonest
    <2>4. RecreateHonest(n, View')
      BY <1>2, <1>3, <1>4, <1>5, <1>7, <2>1, <2>2 DEF RecreateHonest
    <2>5. SelectorHonest(n, View') /\ DeleteHonest(n) /\ CommandHonest(n, View') /\ ~Unmoved(n)
      BY <1>4, <1>5 DEF SelectorHonest, DeleteHonest, CommandHonest, Unmoved
    <2> QED BY <2>3, <2>4, <2>5 DEF Honest
  <1> QED BY <1>1, <1>2, <1>3, <1>4, <1>7, <1>8, QuietlyDone

(* Mappings are written one by one, until none is left.                     *)
LEMMA RestGoesOn ==
  ASSUME NEW o \in Requests, Good(o), o.todo # <<>>, o.todo[1] \in {"map", "unmap"},
         NEW c \in o.new.configs, NEW n, n = Rest(o, c)
  PROVE  /\ n \in Requests /\ Good(n) /\ Job(n) = Job(o) /\ n.todo # <<>>
         /\ n.todo[1] = IF n.new.configs = {} THEN "record" ELSE o.todo[1]
         /\ n.action = o.action /\ n.undo = o.undo /\ n.before = o.before /\ n.clean = o.clean
         /\ n.new.fields = o.new.fields /\ n.new.tags = o.new.tags /\ n.new.content = o.new.content
         /\ n.new.configs = o.new.configs \ {c} /\ n.detail.configs = o.detail.configs \cup {c}
         /\ n.detail.fields = o.detail.fields /\ n.detail.tags = o.detail.tags
         /\ n.detail.content = o.detail.content /\ n.image = o.image /\ n.listed = o.listed
         /\ Job(o) \in {"add", "remove"} => n.new.configs = {} /\ n.detail.configs = {c}
  <1> DEFINE one == [o EXCEPT !.new.configs = @ \ {c}, !.detail.configs = @ \cup {c}]
  <1>1. /\ one \in Requests /\ one.todo = o.todo /\ one.action = o.action /\ one.undo = o.undo
        /\ one.before = o.before /\ one.clean = o.clean /\ one.image = o.image /\ one.listed = o.listed
        /\ one.new.fields = o.new.fields /\ one.new.tags = o.new.tags /\ one.new.content = o.new.content
        /\ one.new.configs = o.new.configs \ {c} /\ one.detail.configs = o.detail.configs \cup {c}
        /\ one.detail.fields = o.detail.fields /\ one.detail.tags = o.detail.tags
        /\ one.detail.content = o.detail.content
    BY DEF Requests, Details
  <1>2. n = IF one.new.configs = {} THEN Then(one) ELSE one
    BY DEF Rest
  <1> HIDE DEF one
  <1>3. /\ Job(one) = Job(o) /\ OnPath(o) /\ Filled(o) /\ Restores(o) /\ Head(o.todo) = o.todo[1]
        /\ Job(o) \in {"add", "remove", "recreate"}
    BY <1>1, JobOf DEF Job, Good, Requests
  <1>4. /\ n \in Requests /\ n.action = o.action /\ n.undo = o.undo /\ n.before = o.before /\ n.clean = o.clean
        /\ n.new = one.new /\ n.detail = one.detail /\ n.image = o.image /\ n.listed = o.listed
        /\ n.todo = IF one.new.configs = {} THEN Tail(o.todo) ELSE o.todo
    BY <1>1, <1>2, ThenGoesOn
  <1>5. Job(o) \in {"add", "remove"} => o.new.configs = {c} /\ o.detail.configs = {}
    BY <1>3 DEF Filled, Facing, OneConfig
  <1>6. CASE one.new.configs = {}
    <2>1. o.new.configs = {c}
      BY <1>1, <1>6
    <2>2. Good(n) /\ Job(n) = Job(o) /\ n.todo # <<>> /\ n.todo[1] = o.todo[2]
      <3>1. /\ n.new.configs = {} /\ n.detail.configs = o.detail.configs \cup o.new.configs
            /\ n.new.fields = o.new.fields /\ n.new.tags = o.new.tags /\ n.new.content = o.new.content
            /\ n.detail.fields = o.detail.fields /\ n.todo = Tail(o.todo)
        BY <1>1, <1>4, <1>6, <2>1
      <3>2. o.todo[1] \notin {"record", "branch", "branchCommand", "readRow", "snapRow", "snapConfigs"}
        OBVIOUS
      <3> QED BY <1>4, <3>1, <3>2, RequestGoesOn
    <2>3. o.todo[2] = "record"
      BY <1>3, NextOf
    <2> QED BY <1>1, <1>4, <1>5, <1>6, <2>1, <2>2, <2>3
  <1>7. CASE one.new.configs # {}
    <2>1. Job(o) = "recreate" /\ o.todo[1] = "map" /\ n.todo = o.todo
      BY <1>1, <1>3, <1>4, <1>5, <1>7, JobOf
    <2>2. Job(n) = Job(o)
      BY <1>4 DEF Job
    <2>3. OnPath(n)
      BY <1>1, <1>3, <1>4, <1>7, <2>1, <2>2 DEF OnPath, Remaining, Is
    <2>4. Filled(n)
      BY <1>1, <1>3, <1>4, <2>1, <2>2 DEF Filled, Facing
    <2>5. Restores(n)
      BY <1>1, <1>3, <1>4, <2>1, <2>2 DEF Restores
    <2> QED BY <1>1, <1>4, <1>7, <2>1, <2>2, <2>3, <2>4, <2>5 DEF Good
  <1> QED BY <1>6, <1>7

LEMMA AfterMap ==
  ASSUME GroupsInv, HonestInv, NEW a \in Admins, Map(a)
  PROVE  GroupsInv' /\ HonestInv'
  <1> DEFINE o == op[a]
  <1>1. PICK c \in o.new.configs : group' = [group EXCEPT !.mapped = @ \cup {c}] /\ Becomes(a, Rest(o, c))
    BY DEF Map
  <1>2. At(a, "map") /\ UNCHANGED <<command, history, failures, forfeited>>
    BY DEF Map
  <1> DEFINE n == Rest(o, c)
  <1>3. /\ o \in Requests /\ Good(o) /\ Honest(o, View) /\ o.todo # <<>> /\ o.todo[1] = "map"
        /\ o.action = "rollback" => o.undo \in history
        /\ group \in GroupRows
    BY <1>2, OfRequest
  <1>4. /\ n \in Requests /\ Good(n) /\ Job(n) = Job(o) /\ n.todo # <<>>
        /\ n.todo[1] = IF n.new.configs = {} THEN "record" ELSE "map"
        /\ n.action = o.action /\ n.undo = o.undo /\ n.before = o.before /\ n.clean = o.clean
        /\ n.new.fields = o.new.fields /\ n.new.tags = o.new.tags
        /\ n.new.configs = o.new.configs \ {c} /\ n.detail.configs = o.detail.configs \cup {c}
        /\ Job(o) \in {"add", "remove"} => n.new.configs = {} /\ n.detail.configs = {c}
    BY <1>3, RestGoesOn
  <1> HIDE DEF n
  <1>5. Job(o) \in {"add", "recreate"} /\ (Job(o) = "recreate" => o.action = "rollback")
    BY <1>3, JobOf DEF Good, Job, Requests, Requested
  <1>6. c \in Configs /\ o.new.configs \subseteq Configs
    BY <1>3 DEF Requests, Details
  <1>7. /\ group' \in GroupRows
        /\ group'.row = group.row /\ group'.tags = group.tags /\ group'.mapped = group.mapped \cup {c}
    BY <1>1, <1>3, <1>6 DEF GroupRows
  <1>8. Honest(n, View')
    <2> SUFFICES ASSUME o.clean PROVE Honest(n, View')
      BY <1>4 DEF Honest
    <2>1. (Unmoved(o) => View = o.before) /\ RecreateHonest(o, View)
      BY <1>3 DEF Honest
    <2>2. View.group = group /\ View'.group = group'
      BY ViewAfter DEF View
    <2>3. LinksHonest(n, View')
      <3> SUFFICES ASSUME Job(o) = "add" PROVE LinksHonest(n, View')
        BY <1>4, <1>5 DEF LinksHonest
      <3>1. View = o.before
        BY <1>3, <2>1 DEF Unmoved
      <3> QED BY <1>1, <1>4, <1>7, <2>2, <3>1 DEF LinksHonest
    <2>4. RecreateHonest(n, View')
      <3> SUFFICES ASSUME Job(o) = "recreate" PROVE RecreateHonest(n, View')
        BY <1>4 DEF RecreateHonest
      <3>1. o.undo.detail.configs \ n.new.configs = (o.undo.detail.configs \ o.new.configs) \cup {c}
        <4>1. c \in o.undo.detail.configs
          BY <1>3, <1>5 DEF Good, Restores
        <4> QED BY <1>4, <4>1
      <3>2. View'.group.mapped = Hidden(n.before) \cup (n.undo.detail.configs \ n.new.configs)
        BY <1>3, <1>4, <1>7, <2>1, <2>2, <3>1 DEF RecreateHonest
      <3> QED BY <1>3, <1>4, <1>7, <2>1, <2>2, <3>2 DEF RecreateHonest
    <2>5. SelectorHonest(n, View') /\ DeleteHonest(n) /\ CommandHonest(n, View')
      BY <1>4, <1>5 DEF SelectorHonest, DeleteHonest, CommandHonest
    <2>6. ~Unmoved(n)
      BY <1>4, <1>5 DEF Unmoved
    <2> QED BY <2>3, <2>4, <2>5, <2>6 DEF Honest
  <1> QED BY <1>1, <1>2, <1>3, <1>4, <1>7, <1>8, QuietlyDone DEF n

LEMMA AfterUnmap ==
  ASSUME GroupsInv, HonestInv, NEW a \in Admins, Unmap(a)
  PROVE  GroupsInv' /\ HonestInv'
  <1> DEFINE o == op[a]
  <1>1. PICK c \in o.new.configs : group' = [group EXCEPT !.mapped = @ \ {c}] /\ Becomes(a, Rest(o, c))
    BY DEF Unmap
  <1>2. At(a, "unmap") /\ UNCHANGED <<command, history, failures, forfeited>>
    BY DEF Unmap
  <1> DEFINE n == Rest(o, c)
  <1>3. /\ o \in Requests /\ Good(o) /\ Honest(o, View) /\ o.todo # <<>> /\ o.todo[1] = "unmap"
        /\ o.action = "rollback" => o.undo \in history
        /\ group \in GroupRows
    BY <1>2, OfRequest
  <1>4. /\ n \in Requests /\ Good(n) /\ Job(n) = Job(o) /\ n.todo # <<>>
        /\ n.todo[1] = IF n.new.configs = {} THEN "record" ELSE "unmap"
        /\ n.action = o.action /\ n.undo = o.undo /\ n.before = o.before /\ n.clean = o.clean
        /\ Job(o) \in {"add", "remove"} => n.new.configs = {} /\ n.detail.configs = {c}
    BY <1>3, RestGoesOn
  <1> HIDE DEF n
  <1>5. Job(o) = "remove"
    BY <1>3, JobOf DEF Good
  <1>6. group' \in GroupRows
    BY <1>1, <1>3 DEF GroupRows
  <1>7. Honest(n, View')
    <2> SUFFICES ASSUME o.clean PROVE Honest(n, View')
      BY <1>4 DEF Honest
    <2>1. View = o.before
      BY <1>3, <1>5 DEF Honest, Unmoved
    <2>2. View.group = group /\ View'.group = group'
      BY ViewAfter DEF View
    <2>3. LinksHonest(n, View')
      BY <1>1, <1>3, <1>4, <1>5, <2>1, <2>2 DEF LinksHonest, GroupRows
    <2>4. /\ SelectorHonest(n, View') /\ DeleteHonest(n) /\ CommandHonest(n, View') /\ RecreateHonest(n, View')
          /\ ~Unmoved(n)
      BY <1>4, <1>5 DEF SelectorHonest, DeleteHonest, CommandHonest, RecreateHonest, Unmoved
    <2> QED BY <2>3, <2>4 DEF Honest
  <1> QED BY <1>1, <1>2, <1>3, <1>4, <1>6, <1>7, QuietlyDone DEF n

(* What is left after the row, however much that is.                        *)
LEMMA Joined ==
  ASSUME NEW s \in Seq(Statements), NEW t \in Seq(Statements)
  PROVE  /\ s \o t \in Seq(Statements) /\ Len(s \o t) = Len(s) + Len(t)
         /\ \A i \in 1..Len(s) : (s \o t)[i] = s[i]
         /\ \A i \in 1..Len(t) : (s \o t)[Len(s) + i] = t[i]
  OBVIOUS

LEMMA RecreatedIsRemaining ==
  ASSUME NEW o \in Requests
  PROVE  /\ <<"insertRow">> \o Recreated(o) \in Seq(Statements)
         /\ (<<"insertRow">> \o Recreated(o))[1] = "insertRow"
         /\ Remaining(<<"insertRow">> \o Recreated(o), 2, o.new.tags, o.new.configs)
         /\ Overriding(o) \in Seq(Statements)
         /\ Overriding(o)[1] = "saveRow" /\ Overriding(o)[2] = "list" /\ Overriding(o)[3] = "clear"
         /\ Remaining(Overriding(o), 4, o.new.tags, o.new.configs)
  <1> DEFINE tags == IF o.new.tags = {} THEN <<>> ELSE <<"putTags">>
             configs == IF o.new.configs = {} THEN <<>> ELSE <<"map">>
             last == <<"record">>
             row == <<"insertRow">>
             over == <<"saveRow", "list", "clear">>
             most == tags \o configs
             r == most \o last
             inserting == row \o r
             saving == over \o r
  <1>1. /\ tags \in Seq(Statements) /\ configs \in Seq(Statements) /\ last \in Seq(Statements)
        /\ row \in Seq(Statements) /\ over \in Seq(Statements)
        /\ Len(tags) = IF o.new.tags = {} THEN 0 ELSE 1
        /\ Len(configs) = IF o.new.configs = {} THEN 0 ELSE 1
        /\ o.new.tags # {} => tags[1] = "putTags"
        /\ o.new.configs # {} => configs[1] = "map"
        /\ Len(last) = 1 /\ last[1] = "record" /\ Len(row) = 1 /\ row[1] = "insertRow"
        /\ Len(over) = 3 /\ over[1] = "saveRow" /\ over[2] = "list" /\ over[3] = "clear"
    <2>1. /\ tags \in Seq(Statements) /\ Len(tags) = IF o.new.tags = {} THEN 0 ELSE 1
          /\ o.new.tags # {} => tags[1] = "putTags"
      <3>1. CASE o.new.tags = {}
        BY <3>1
      <3>2. CASE o.new.tags # {}
        <4>1. tags = <<"putTags">>
          BY <3>2
        <4>2. <<"putTags">> \in Seq(Statements) /\ Len(<<"putTags">>) = 1 /\ <<"putTags">>[1] = "putTags"
          BY DEF Statements
        <4> HIDE DEF tags
        <4> QED BY <3>2, <4>1, <4>2
      <3> QED BY <3>1, <3>2
    <2>2. /\ configs \in Seq(Statements) /\ Len(configs) = IF o.new.configs = {} THEN 0 ELSE 1
          /\ o.new.configs # {} => configs[1] = "map"
      <3>1. CASE o.new.configs = {}
        BY <3>1
      <3>2. CASE o.new.configs # {}
        <4>1. configs = <<"map">>
          BY <3>2
        <4>2. <<"map">> \in Seq(Statements) /\ Len(<<"map">>) = 1 /\ <<"map">>[1] = "map"
          BY DEF Statements
        <4> HIDE DEF configs
        <4> QED BY <3>2, <4>1, <4>2
      <3> QED BY <3>1, <3>2
    <2>3. /\ last \in Seq(Statements) /\ Len(last) = 1 /\ last[1] = "record"
          /\ row \in Seq(Statements) /\ Len(row) = 1 /\ row[1] = "insertRow"
      BY DEF Statements
    <2>4. /\ over \in Seq(Statements) /\ Len(over) = 3
          /\ over[1] = "saveRow" /\ over[2] = "list" /\ over[3] = "clear"
      BY DEF Statements
    <2> QED BY <2>1, <2>2, <2>3, <2>4
  <1>2. Recreated(o) = r /\ Overriding(o) = saving
    BY DEF Recreated, Overriding
  <1> HIDE DEF tags, configs, last, row, over
  <1>3. /\ most \in Seq(Statements) /\ Len(most) = Len(tags) + Len(configs)
        /\ \A i \in 1..Len(tags) : most[i] = tags[i]
        /\ \A i \in 1..Len(configs) : most[Len(tags) + i] = configs[i]
    BY <1>1, Joined
  <1> HIDE DEF most
  <1>4. /\ r \in Seq(Statements) /\ Len(r) = Len(most) + 1
        /\ \A i \in 1..Len(most) : r[i] = most[i]
        /\ r[Len(most) + 1] = "record"
    <2>1. /\ r \in Seq(Statements) /\ Len(r) = Len(most) + Len(last)
          /\ \A i \in 1..Len(most) : r[i] = most[i]
          /\ \A i \in 1..Len(last) : r[Len(most) + i] = last[i]
      BY <1>1, <1>3, Joined
    <2> QED BY <1>1, <2>1
  <1> HIDE DEF r
  <1>5. Remaining(r, 1, o.new.tags, o.new.configs)
    <2>1. CASE o.new.tags = {} /\ o.new.configs = {}
      BY <1>1, <1>3, <1>4, <2>1 DEF Remaining
    <2>2. CASE o.new.tags = {} /\ o.new.configs # {}
      <3>1. Len(tags) = 0 /\ Len(configs) = 1
        BY <1>1, <2>2
      <3>2. Len(most) = 1 /\ most[1] = configs[1]
        BY <1>3, <3>1
      <3>3. Len(r) = 2 /\ (\A i \in 1..1 : r[i] = most[i]) /\ r[2] = "record"
        BY <1>4, <3>2
      <3> QED BY <1>1, <2>2, <3>2, <3>3 DEF Remaining
    <2>3. CASE o.new.tags # {} /\ o.new.configs = {}
      <3>1. Len(tags) = 1 /\ Len(configs) = 0
        BY <1>1, <2>3
      <3>2. Len(most) = 1 /\ most[1] = tags[1]
        BY <1>3, <3>1
      <3>3. Len(r) = 2 /\ (\A i \in 1..1 : r[i] = most[i]) /\ r[2] = "record"
        BY <1>4, <3>2
      <3> QED BY <1>1, <2>3, <3>2, <3>3 DEF Remaining
    <2>4. CASE o.new.tags # {} /\ o.new.configs # {}
      <3>1. Len(tags) = 1 /\ Len(configs) = 1
        BY <1>1, <2>4
      <3>2. Len(most) = 2 /\ most[1] = tags[1] /\ most[2] = configs[1]
        BY <1>3, <3>1
      <3>3. Len(r) = 3 /\ (\A i \in 1..2 : r[i] = most[i]) /\ r[3] = "record"
        BY <1>4, <3>2
      <3> QED BY <1>1, <2>4, <3>2, <3>3 DEF Remaining
    <2> QED BY <2>1, <2>2, <2>3, <2>4
  <1>6. /\ inserting \in Seq(Statements) /\ Len(inserting) = 1 + Len(r) /\ inserting[1] = "insertRow"
        /\ \A i \in 1..Len(r) : inserting[1 + i] = r[i]
    <2>1. /\ inserting \in Seq(Statements) /\ Len(inserting) = Len(row) + Len(r)
          /\ \A i \in 1..Len(row) : inserting[i] = row[i]
          /\ \A i \in 1..Len(r) : inserting[Len(row) + i] = r[i]
      BY <1>1, <1>4, Joined
    <2> QED BY <1>1, <2>1
  <1>7. /\ saving \in Seq(Statements) /\ Len(saving) = 3 + Len(r)
        /\ saving[1] = "saveRow" /\ saving[2] = "list" /\ saving[3] = "clear"
        /\ \A i \in 1..Len(r) : saving[3 + i] = r[i]
    <2>1. /\ saving \in Seq(Statements) /\ Len(saving) = Len(over) + Len(r)
          /\ \A i \in 1..Len(over) : saving[i] = over[i]
          /\ \A i \in 1..Len(r) : saving[Len(over) + i] = r[i]
      BY <1>1, <1>4, Joined
    <2> QED BY <1>1, <2>1
  <1>8. inserting = <<"insertRow">> \o r
    BY DEF row
  <1> HIDE DEF inserting, saving
  <1>9. Remaining(inserting, 2, o.new.tags, o.new.configs)
    BY <1>4, <1>5, <1>6 DEF Remaining
  <1>10. Remaining(saving, 4, o.new.tags, o.new.configs)
    BY <1>4, <1>5, <1>7 DEF Remaining
  <1> QED BY <1>2, <1>6, <1>7, <1>8, <1>9, <1>10

LEMMA AfterBranch ==
  ASSUME GroupsInv, HonestInv, NEW a \in Admins, Branch(a)
  PROVE  GroupsInv' /\ HonestInv'
  <1> DEFINE o == op[a]
             todo == IF group.row = Absent THEN <<"insertRow">> \o Recreated(o) ELSE Overriding(o)
             n == [o EXCEPT !.image = group.row, !.detail = o.undo.detail, !.todo = todo]
  <1>1. At(a, "branch") /\ UNCHANGED <<Tables, failures, forfeited>> /\ Becomes(a, n)
    BY DEF Branch
  <1>2. /\ o \in Requests /\ Good(o) /\ Honest(o, View) /\ o.todo # <<>> /\ o.todo[1] = "branch"
        /\ o.action = "rollback" => o.undo \in history
        /\ group \in GroupRows /\ OnPath(o) /\ Filled(o) /\ Restores(o)
    BY <1>1, OfRequest
  <1>3. Job(o) = "recreate" /\ o.action = "rollback"
    BY <1>2, JobOf DEF Job, Requests, Requested
  <1>4. o.undo.detail \in Details /\ group.row \in Rows \cup {Absent}
    BY <1>2, <1>3 DEF Restores, Entries, GroupRows
  <1>5. /\ todo \in Seq(Statements) /\ todo # <<>> /\ Head(todo) = todo[1]
        /\ IF group.row = Absent
           THEN todo[1] = "insertRow" /\ Remaining(todo, 2, o.new.tags, o.new.configs)
           ELSE /\ todo[1] = "saveRow" /\ todo[2] = "list" /\ todo[3] = "clear"
                /\ Remaining(todo, 4, o.new.tags, o.new.configs)
    <2>1. /\ todo \in Seq(Statements)
          /\ IF group.row = Absent
             THEN todo[1] = "insertRow" /\ Remaining(todo, 2, o.new.tags, o.new.configs)
             ELSE /\ todo[1] = "saveRow" /\ todo[2] = "list" /\ todo[3] = "clear"
                  /\ Remaining(todo, 4, o.new.tags, o.new.configs)
      BY <1>2, RecreatedIsRemaining
    <2> HIDE DEF todo
    <2>2. Len(todo) > 1
      BY <2>1 DEF Remaining
    <2> QED BY <2>1, <2>2
  <1> HIDE DEF todo
  <1>6. /\ n \in Requests /\ n.todo = todo /\ n.action = o.action /\ n.undo = o.undo /\ n.new = o.new
        /\ n.image = group.row /\ n.before = o.before /\ n.clean = o.clean /\ n.detail = o.undo.detail
    BY <1>2, <1>4, <1>5 DEF Requests
  <1> HIDE DEF n
  <1>7. Job(n) = "recreate"
    BY <1>3, <1>6 DEF Job
  <1>8. OnPath(n)
    BY <1>5, <1>6, <1>7 DEF OnPath
  <1>9. Filled(n) /\ Restores(n)
    <2>1. Filled(n)
      BY <1>2, <1>3, <1>5, <1>6, <1>7 DEF Filled, Facing
    <2>2. Restores(n)
      BY <1>2, <1>3, <1>6, <1>7 DEF Restores
    <2> QED BY <2>1, <2>2
  <1>10. Good(n)
    BY <1>6, <1>8, <1>9 DEF Good
  <1>11. View' = View
    BY <1>1, ViewAfter DEF Tables, Becomes
  <1>12. Honest(n, View')
    <2> SUFFICES ASSUME o.clean PROVE Honest(n, View)
      BY <1>6, <1>11 DEF Honest
    <2>1. View = o.before /\ o.before.group = group
      BY <1>2, <1>3 DEF Honest, Unmoved, View
    <2>2. RecreateHonest(n, View)
      BY <1>5, <1>6, <1>7, <2>1 DEF RecreateHonest
    <2>3. SelectorHonest(n, View) /\ LinksHonest(n, View) /\ DeleteHonest(n) /\ CommandHonest(n, View)
      BY <1>7 DEF SelectorHonest, LinksHonest, DeleteHonest, CommandHonest
    <2> QED BY <1>6, <2>1, <2>2, <2>3 DEF Honest
  <1> QED BY <1>1, <1>2, <1>3, <1>6, <1>10, <1>12, QuietlyDone DEF Tables

LEMMA AfterListConfigs ==
  ASSUME GroupsInv, HonestInv, NEW a \in Admins, ListConfigs(a)
  PROVE  GroupsInv' /\ HonestInv'
  <1> DEFINE o == op[a]
             n == [Then(o) EXCEPT !.listed = group.mapped \cap Existing]
  <1>1. At(a, "list") /\ UNCHANGED <<Tables, failures, forfeited>> /\ Becomes(a, n)
    BY DEF ListConfigs
  <1>2. /\ o \in Requests /\ Good(o) /\ Honest(o, View) /\ o.todo # <<>> /\ o.todo[1] = "list"
        /\ o.action = "rollback" => o.undo \in history
        /\ group \in GroupRows
    BY <1>1, OfRequest
  <1>3. group.mapped \cap Existing \in SUBSET Configs
    BY <1>2 DEF GroupRows
  <1>4. /\ n \in Requests /\ n.todo = Tail(o.todo) /\ n.action = o.action /\ n.undo = o.undo /\ n.new = o.new
        /\ n.image = o.image /\ n.detail = o.detail /\ n.before = o.before /\ n.clean = o.clean
        /\ n.listed = group.mapped \cap Existing
    BY <1>2, <1>3, ThenGoesOn DEF Requests
  <1> HIDE DEF n
  <1>5. Good(n) /\ Job(n) = Job(o) /\ n.todo # <<>> /\ n.todo[1] = o.todo[2]
    BY <1>2, <1>4, RequestGoesOn
  <1>6. Job(o) = "recreate" /\ n.todo[1] = "clear"
    BY <1>2, <1>5, JobOf, NextOf DEF Good
  <1>7. View' = View
    BY <1>1, ViewAfter DEF Tables, Becomes
  <1>8. Honest(n, View')
    <2> SUFFICES ASSUME o.clean PROVE Honest(n, View)
      BY <1>4, <1>7 DEF Honest
    <2>1. RecreateHonest(o, View) /\ View.group = group /\ View.existing = Existing
      BY <1>2 DEF Honest, View
    <2>2. RecreateHonest(n, View)
      BY <1>2, <1>4, <1>5, <1>6, <2>1 DEF RecreateHonest
    <2>3. /\ SelectorHonest(n, View) /\ LinksHonest(n, View) /\ DeleteHonest(n) /\ CommandHonest(n, View)
          /\ ~Unmoved(n)
      BY <1>5, <1>6 DEF SelectorHonest, LinksHonest, DeleteHonest, CommandHonest, Unmoved
    <2> QED BY <2>2, <2>3 DEF Honest
  <1> QED BY <1>1, <1>2, <1>4, <1>5, <1>8, QuietlyDone DEF GroupsInv, StoreOK, Tables

LEMMA ClearedOne ==
  ASSUME NEW o \in Requests, Good(o), o.todo # <<>>, o.todo[1] = "clear",
         NEW n \in Requests, n.todo = o.todo, n.action = o.action, n.undo = o.undo, n.new = o.new,
         n.image = o.image, n.detail = o.detail
  PROVE  Good(n) /\ Job(n) = Job(o) /\ Job(o) = "recreate"
  <1>1. Job(n) = Job(o) /\ Job(o) = "recreate"
    BY JobOf DEF Job, Good
  <1>2. OnPath(n)
    BY <1>1 DEF Good, OnPath
  <1>3. Filled(n) /\ Restores(n)
    BY <1>1 DEF Good, Filled, Restores, Facing
  <1> QED BY <1>1, <1>2, <1>3 DEF Good

LEMMA AfterClear ==
  ASSUME GroupsInv, HonestInv, NEW a \in Admins, Clear(a)
  PROVE  GroupsInv' /\ HonestInv'
  <1> DEFINE o == op[a]
  <1>1. At(a, "clear") /\ UNCHANGED <<command, history, failures, forfeited>>
    BY DEF Clear
  <1>2. /\ o \in Requests /\ Good(o) /\ Honest(o, View) /\ o.todo # <<>> /\ o.todo[1] = "clear"
        /\ o.action = "rollback" => o.undo \in history
        /\ group \in GroupRows
        /\ View.group = group /\ View.existing = Existing
    BY <1>1, OfRequest
  <1>3. Job(o) = "recreate" /\ o.action = "rollback"
    BY <1>2, JobOf DEF Good, Job, Requests, Requested
  <1>4. o.clean => RecreateHonest(o, View)
    BY <1>2 DEF Honest
  <1>5. CASE o.listed = {}
    <2> DEFINE n == Then(o)
    <2>1. UNCHANGED group /\ Becomes(a, n)
      BY <1>5 DEF Clear
    <2>2. /\ n \in Requests /\ n.todo = Tail(o.todo) /\ n.action = o.action /\ n.undo = o.undo /\ n.new = o.new
          /\ n.image = o.image /\ n.detail = o.detail /\ n.before = o.before /\ n.clean = o.clean
          /\ n.listed = o.listed
      BY <1>2, ThenGoesOn
    <2> HIDE DEF n
    <2>3. Good(n) /\ Job(n) = Job(o) /\ n.todo # <<>> /\ n.todo[1] = o.todo[2]
      BY <1>2, <2>2, RequestGoesOn
    <2>4. n.todo[1] = IF o.new.tags # {} THEN "putTags" ELSE IF o.new.configs # {} THEN "map" ELSE "record"
      BY <1>2, <1>3, <2>3, NextOf DEF Good
    <2>5. View' = View
      BY <1>1, <2>1, ViewAfter DEF Becomes
    <2>6. Honest(n, View')
      <3> SUFFICES ASSUME o.clean PROVE Honest(n, View)
        BY <2>2, <2>5 DEF Honest
      <3>1. o.undo.detail.configs = o.new.configs
        BY <1>2, <1>3 DEF Good, Restores
      <3>2. View.group.mapped = Hidden(n.before) \cup (n.undo.detail.configs \ n.new.configs)
        BY <1>2, <1>3, <1>4, <1>5, <2>2, <3>1 DEF RecreateHonest, Hidden
      <3>3. RecreateHonest(n, View)
        BY <1>2, <1>3, <1>4, <2>2, <2>3, <2>4, <3>2 DEF RecreateHonest
      <3>4. /\ SelectorHonest(n, View) /\ LinksHonest(n, View) /\ DeleteHonest(n) /\ CommandHonest(n, View)
            /\ ~Unmoved(n)
        BY <1>3, <2>3, <2>4 DEF SelectorHonest, LinksHonest, DeleteHonest, CommandHonest, Unmoved
      <3> QED BY <3>3, <3>4 DEF Honest
    <2> QED BY <1>1, <1>2, <2>1, <2>2, <2>3, <2>6, QuietlyDone
  <1>6. CASE o.listed # {}
    <2>1. PICK c \in o.listed : group' = [group EXCEPT !.mapped = @ \ {c}] /\ Becomes(a, [o EXCEPT !.listed = @ \ {c}])
      BY <1>6 DEF Clear
    <2> DEFINE n == [o EXCEPT !.listed = @ \ {c}]
    <2>2. /\ n \in Requests /\ n.todo = o.todo /\ n.action = o.action /\ n.undo = o.undo /\ n.new = o.new
          /\ n.image = o.image /\ n.detail = o.detail /\ n.before = o.before /\ n.clean = o.clean
          /\ n.listed = o.listed \ {c}
      BY <1>2 DEF Requests
    <2> HIDE DEF n
    <2>3. Good(n) /\ Job(n) = Job(o)
      BY <1>2, <2>2, ClearedOne
    <2>4. /\ group' \in GroupRows
          /\ group'.row = group.row /\ group'.tags = group.tags /\ group'.mapped = group.mapped \ {c}
      BY <1>2, <2>1 DEF GroupRows
    <2>5. Honest(n, View')
      <3> SUFFICES ASSUME o.clean PROVE Honest(n, View')
        BY <2>2 DEF Honest
      <3>1. View'.group = group'
        BY ViewAfter
      <3>2. c \in o.before.existing
        BY <1>2, <1>3, <1>4 DEF RecreateHonest
      <3>3. View'.group.mapped = (n.before.group.mapped \ n.before.existing) \cup n.listed
        BY <1>2, <1>3, <1>4, <2>2, <2>4, <3>1, <3>2 DEF RecreateHonest
      <3>4. RecreateHonest(n, View')
        BY <1>2, <1>3, <1>4, <2>2, <2>3, <2>4, <3>1, <3>3 DEF RecreateHonest
      <3>5. /\ SelectorHonest(n, View') /\ LinksHonest(n, View') /\ DeleteHonest(n) /\ CommandHonest(n, View')
            /\ ~Unmoved(n)
        BY <1>2, <1>3, <2>2, <2>3 DEF SelectorHonest, LinksHonest, DeleteHonest, CommandHonest, Unmoved
      <3> QED BY <3>4, <3>5 DEF Honest
    <2> QED BY <1>1, <1>2, <2>1, <2>2, <2>3, <2>4, <2>5, QuietlyDone DEF n
  <1> QED BY <1>5, <1>6

(* The statements on the command.                                           *)
LEMMA AfterFindCommand ==
  ASSUME GroupsInv, HonestInv, NEW a \in Admins, FindCommand(a)
  PROVE  GroupsInv' /\ HonestInv'
  <1> DEFINE o == op[a]
             told(seen) == Believing(Then(o), seen)
  <1>1. /\ At(a, "findCommand") /\ UNCHANGED <<Tables, failures, forfeited>>
        /\ \E seen \in Told : Becomes(a, IF seen = Absent THEN told(seen) ELSE Idle)
    BY DEF FindCommand
  <1>2. PICK seen \in Told : Becomes(a, IF seen = Absent THEN told(seen) ELSE Idle)
    BY <1>1
  <1> DEFINE n == told(seen)
  <1>3. CASE seen # Absent
    BY <1>1, <1>2, <1>3, IdleNow
  <1>4. CASE seen = Absent
    <2>1. /\ o \in Requests /\ Good(o) /\ Honest(o, View) /\ o.todo # <<>> /\ o.todo[1] = "findCommand"
          /\ o.action = "rollback" => o.undo \in history
      BY <1>1, OfRequest
    <2>2. /\ n \in Requests /\ n.todo = Tail(o.todo) /\ n.action = o.action /\ n.undo = o.undo /\ n.new = o.new
          /\ n.image = o.image /\ n.detail = o.detail /\ n.before = o.before /\ (n.clean => o.clean)
      BY <2>1, ThenGoesOn, BelievingGoesOn
    <2> HIDE DEF n
    <2>3. Good(n) /\ Job(n) = Job(o) /\ n.todo # <<>> /\ n.todo[1] = o.todo[2]
      BY <2>1, <2>2, RequestGoesOn
    <2>4. Job(o) = "createCommand" /\ n.todo[1] = "insertCommand"
      BY <2>1, <2>3, JobOf, NextOf DEF Good
    <2>5. View' = View
      BY <1>1, <1>2, ViewAfter DEF Tables, Becomes
    <2>6. Honest(n, View')
      <3> SUFFICES ASSUME o.clean PROVE Honest(n, View)
        BY <2>2, <2>5 DEF Honest
      <3>1. View = o.before
        BY <2>1, <2>4 DEF Honest, Unmoved
      <3>2. SelectorHonest(n, View) /\ LinksHonest(n, View)
        BY <2>3, <2>4 DEF SelectorHonest, LinksHonest
      <3>3. DeleteHonest(n) /\ CommandHonest(n, View) /\ RecreateHonest(n, View)
        BY <2>3, <2>4 DEF DeleteHonest, CommandHonest, RecreateHonest
      <3> QED BY <2>2, <3>1, <3>2, <3>3 DEF Honest
    <2>7. Becomes(a, n)
      BY <1>2, <1>4 DEF n
    <2> QED BY <1>1, <2>1, <2>2, <2>3, <2>6, <2>7, QuietlyDone DEF GroupsInv, StoreOK, Tables
  <1> QED BY <1>3, <1>4

LEMMA AfterInsertCommand ==
  ASSUME GroupsInv, HonestInv, NEW a \in Admins, InsertCommand(a)
  PROVE  GroupsInv' /\ HonestInv'
  <1> DEFINE o == op[a]
             content == IF o.action = "rollback" THEN Absent ELSE command'
             n == [Then(o) EXCEPT !.detail.content = content]
  <1>1. /\ At(a, "insertCommand") /\ UNCHANGED <<group, history, failures, forfeited>>
        /\ IF command = Absent THEN command' = o.new.content /\ Becomes(a, n)
           ELSE UNCHANGED command /\ Becomes(a, Idle)
    BY DEF InsertCommand
  <1>2. CASE command # Absent
    BY <1>1, <1>2, IdleNow DEF Tables
  <1>3. CASE command = Absent
    <2>1. /\ o \in Requests /\ Good(o) /\ Honest(o, View) /\ o.todo # <<>> /\ o.todo[1] = "insertCommand"
          /\ o.action = "rollback" => o.undo \in history
      BY <1>1, OfRequest
    <2>2. command' \in Contents \cup {Absent} /\ content \in Contents \cup {Absent}
      BY <1>1, <1>3, <2>1 DEF Requests, Details
    <2> HIDE DEF content
    <2>3. /\ n \in Requests /\ n.todo = Tail(o.todo) /\ n.action = o.action /\ n.undo = o.undo /\ n.new = o.new
          /\ n.image = o.image /\ n.detail.fields = o.detail.fields /\ n.detail.configs = o.detail.configs
          /\ n.before = o.before /\ n.clean = o.clean
      BY <2>1, <2>2, ThenGoesOn DEF Requests, Details
    <2> HIDE DEF n
    <2>4. Good(n) /\ Job(n) = Job(o) /\ n.todo # <<>> /\ n.todo[1] = o.todo[2]
      BY <2>1, <2>3, RequestGoesOn
    <2>5. Job(o) \in {"createCommand", "putBack"} /\ n.todo[1] = "record"
      BY <2>1, <2>4, JobOf, NextOf DEF Good
    <2>6. View'.command = command' /\ command' = n.new.content
      BY <1>1, <1>3, <2>3, ViewAfter
    <2>7. Honest(n, View')
      <3>1. SelectorHonest(n, View') /\ LinksHonest(n, View') /\ ~Unmoved(n)
        BY <2>4, <2>5 DEF SelectorHonest, LinksHonest, Unmoved
      <3>2. DeleteHonest(n) /\ CommandHonest(n, View') /\ RecreateHonest(n, View')
        BY <2>4, <2>5, <2>6 DEF DeleteHonest, CommandHonest, RecreateHonest
      <3> QED BY <3>1, <3>2 DEF Honest
    <2>8. stored \subseteq stored'
      BY <1>1, <1>3 DEF Becomes
    <2>9. group' \in GroupRows /\ forfeited' \subseteq stored' \ {Absent} /\ failures' \in 0..MaxFailures
      BY <1>1, <2>8 DEF GroupsInv, StoreOK
    <2> QED BY <1>1, <1>3, <2>1, <2>2, <2>3, <2>4, <2>7, <2>9, Done
  <1> QED BY <1>2, <1>3

LEMMA AfterSnapCommand ==
  ASSUME GroupsInv, HonestInv, NEW a \in Admins, SnapCommand(a)
  PROVE  GroupsInv' /\ HonestInv'
  <1> DEFINE o == op[a]
             told(seen) == [Believing(Then(o), seen) EXCEPT !.detail.content = seen]
  <1>1. /\ At(a, "snapCommand") /\ UNCHANGED <<Tables, failures, forfeited>>
        /\ \E seen \in Told : Becomes(a, IF seen = Absent THEN Idle ELSE told(seen))
    BY DEF SnapCommand
  <1>2. PICK seen \in Told : Becomes(a, IF seen = Absent THEN Idle ELSE told(seen))
    BY <1>1
  <1> DEFINE n == told(seen)
  <1>3. CASE seen = Absent
    BY <1>1, <1>2, <1>3, IdleNow
  <1>4. CASE seen # Absent
    <2>1. /\ o \in Requests /\ Good(o) /\ Honest(o, View) /\ o.todo # <<>> /\ o.todo[1] = "snapCommand"
          /\ o.action = "rollback" => o.undo \in history
      BY <1>1, OfRequest
    <2>2. seen \in Contents \cup {Absent}
      BY <1>2 DEF Told, GroupsInv, StoreOK
    <2> DEFINE b == Believing(Then(o), seen)
    <2>3. /\ b \in Requests /\ b.todo = Tail(o.todo) /\ b.action = o.action /\ b.undo = o.undo /\ b.new = o.new
          /\ b.image = o.image /\ b.detail = o.detail /\ b.before = o.before
          /\ b.clean => o.clean /\ seen = command
      BY <2>1, ThenGoesOn, BelievingGoesOn
    <2>4. n = [b EXCEPT !.detail.content = seen]
      OBVIOUS
    <2> HIDE DEF n, b
    <2>5. /\ n \in Requests /\ n.todo = Tail(o.todo) /\ n.action = o.action /\ n.undo = o.undo /\ n.new = o.new
          /\ n.image = o.image /\ n.detail.fields = o.detail.fields /\ n.detail.configs = o.detail.configs
          /\ n.before = o.before /\ n.detail.content = seen
          /\ n.clean => o.clean /\ seen = command
      BY <2>2, <2>3, <2>4 DEF Requests, Details
    <2>6. Good(n) /\ Job(n) = Job(o) /\ n.todo # <<>> /\ n.todo[1] = o.todo[2]
      BY <2>1, <2>5, RequestGoesOn
    <2>7. Job(o) = "deleteCommand" /\ n.todo[1] = "dropCommand"
      BY <2>1, <2>6, JobOf, NextOf DEF Good
    <2>8. View' = View
      BY <1>1, <1>2, ViewAfter DEF Tables, Becomes
    <2>9. Honest(n, View')
      <3> SUFFICES ASSUME o.clean, seen = command PROVE Honest(n, View)
        BY <2>5, <2>8 DEF Honest
      <3>1. View = o.before /\ o.before.command = command
        BY <2>1, <2>7 DEF Honest, Unmoved, View
      <3>2. SelectorHonest(n, View) /\ LinksHonest(n, View)
        BY <2>6, <2>7 DEF SelectorHonest, LinksHonest
      <3>3. DeleteHonest(n) /\ CommandHonest(n, View) /\ RecreateHonest(n, View)
        BY <2>5, <2>6, <2>7, <3>1 DEF DeleteHonest, CommandHonest, RecreateHonest
      <3> QED BY <2>5, <3>1, <3>2, <3>3 DEF Honest
    <2>10. Becomes(a, n)
      BY <1>2, <1>4 DEF n
    <2> QED BY <1>1, <2>1, <2>5, <2>6, <2>9, <2>10, QuietlyDone DEF GroupsInv, StoreOK, Tables
  <1> QED BY <1>3, <1>4

LEMMA AfterDropCommand ==
  ASSUME GroupsInv, HonestInv, NEW a \in Admins, DropCommand(a)
  PROVE  GroupsInv' /\ HonestInv'
  <1> DEFINE o == op[a]
             n == Then(o)
  <1>1. /\ At(a, "dropCommand") /\ UNCHANGED <<history, failures>>
        /\ command' = Absent /\ group' = [group EXCEPT !.mapped = @ \ {Onetime}]
        /\ forfeited' \subseteq forfeited \cup ({command} \ {Absent})
        /\ Becomes(a, n)
    BY DEF DropCommand
  <1>2. /\ o \in Requests /\ Good(o) /\ Honest(o, View) /\ o.todo # <<>> /\ o.todo[1] = "dropCommand"
        /\ o.action = "rollback" => o.undo \in history
        /\ group \in GroupRows
    BY <1>1, OfRequest
  <1>3. /\ n \in Requests /\ n.todo = Tail(o.todo) /\ n.action = o.action /\ n.undo = o.undo /\ n.new = o.new
        /\ n.image = o.image /\ n.detail = o.detail /\ n.before = o.before /\ n.clean = o.clean
    BY <1>2, ThenGoesOn
  <1> HIDE DEF n
  <1>4. Good(n) /\ Job(n) = Job(o) /\ n.todo # <<>> /\ n.todo[1] = o.todo[2]
    BY <1>2, <1>3, RequestGoesOn
  <1>5. /\ Job(o) \in {"deleteCommand", "putBack"}
        /\ n.todo[1] = IF Job(o) = "deleteCommand" THEN "record" ELSE "insertCommand"
    BY <1>2, <1>4, JobOf, NextOf DEF Good
  <1>6. group' \in GroupRows
    BY <1>1, <1>2 DEF GroupRows
  <1>7. Honest(n, View')
    <2> SUFFICES ASSUME o.clean PROVE Honest(n, View')
      BY <1>3 DEF Honest
    <2>1. CommandHonest(o, View)
      BY <1>2 DEF Honest
    <2>2. CommandHonest(n, View')
      BY <1>2, <1>3, <1>4, <1>5, <2>1 DEF CommandHonest
    <2>3. /\ SelectorHonest(n, View') /\ LinksHonest(n, View') /\ DeleteHonest(n) /\ RecreateHonest(n, View')
          /\ ~Unmoved(n)
      BY <1>4, <1>5 DEF SelectorHonest, LinksHonest, DeleteHonest, RecreateHonest, Unmoved
    <2> QED BY <2>2, <2>3 DEF Honest
  <1>8. stored \subseteq stored'
    BY <1>1 DEF Becomes
  <1>9. command' \in Contents \cup {Absent} /\ forfeited' \subseteq stored' \ {Absent} /\ failures' \in 0..MaxFailures
    BY <1>1, <1>8 DEF GroupsInv, StoreOK
  <1> QED BY <1>1, <1>2, <1>3, <1>4, <1>6, <1>7, <1>9, Done

LEMMA AfterBranchCommand ==
  ASSUME GroupsInv, HonestInv, NEW a \in Admins, BranchCommand(a)
  PROVE  GroupsInv' /\ HonestInv'
  <1> DEFINE o == op[a]
             way(seen) == (IF seen = Absent THEN <<>> ELSE <<"dropCommand">>) \o <<"insertCommand", "record">>
  <1>0. PICK seen \in Told : Becomes(a, [o EXCEPT !.todo = way(seen)])
    BY DEF BranchCommand
  <1> DEFINE todo == way(seen)
             n == [o EXCEPT !.todo = todo]
  <1>1. At(a, "branchCommand") /\ UNCHANGED <<Tables, failures, forfeited>> /\ Becomes(a, n)
    BY <1>0 DEF BranchCommand
  <1>2. /\ o \in Requests /\ Good(o) /\ Honest(o, View) /\ o.todo # <<>> /\ o.todo[1] = "branchCommand"
        /\ o.action = "rollback" => o.undo \in history
    BY <1>1, OfRequest
  <1>3. Job(o) = "putBack" /\ o.action = "rollback"
    BY <1>2, JobOf DEF Good, Job, Requests, Requested
  <1>4. /\ todo \in Seq(Statements) /\ Head(todo) = todo[1] /\ todo # <<>>
        /\ Are3(todo, "dropCommand", "insertCommand", "record") \/ Are2(todo, "insertCommand", "record")
    <2> DEFINE rest == <<"insertCommand", "record">>
               drop == <<"dropCommand">>
               none == <<>>
    <2>1. /\ rest \in Seq(Statements) /\ Len(rest) = 2 /\ rest[1] = "insertCommand" /\ rest[2] = "record"
          /\ drop \in Seq(Statements) /\ Len(drop) = 1 /\ drop[1] = "dropCommand"
          /\ none \in Seq(Statements) /\ Len(none) = 0
      BY DEF Statements
    <2>2. todo = IF seen = Absent THEN none \o rest ELSE drop \o rest
      OBVIOUS
    <2> HIDE DEF rest, drop, none
    <2>3. CASE seen = Absent
      <3>1. /\ none \o rest \in Seq(Statements) /\ Len(none \o rest) = 2
            /\ (none \o rest)[1] = "insertCommand" /\ (none \o rest)[2] = "record"
        BY <2>1, Joined
      <3>2. todo = none \o rest
        BY <2>2, <2>3
      <3> HIDE DEF todo
      <3> QED BY <3>1, <3>2 DEF Are2
    <2>4. CASE seen # Absent
      <3> DEFINE both == drop \o rest
      <3>1. /\ both \in Seq(Statements) /\ Len(both) = 1 + 2
            /\ \A i \in 1..1 : both[i] = drop[i]
            /\ \A i \in 1..2 : both[1 + i] = rest[i]
        <4>1. /\ both \in Seq(Statements) /\ Len(both) = Len(drop) + Len(rest)
              /\ \A i \in 1..Len(drop) : both[i] = drop[i]
              /\ \A i \in 1..Len(rest) : both[Len(drop) + i] = rest[i]
          BY <2>1, Joined
        <4> HIDE DEF both
        <4> QED BY <2>1, <4>1
      <3>2. todo = both
        BY <2>2, <2>4
      <3> HIDE DEF todo, both
      <3>3. both[1] = "dropCommand" /\ both[2] = "insertCommand" /\ both[3] = "record"
        BY <2>1, <3>1
      <3> QED BY <3>1, <3>2, <3>3 DEF Are3
    <2> QED BY <2>3, <2>4
  <1> HIDE DEF todo
  <1>5. /\ n \in Requests /\ n.todo = todo /\ n.action = o.action /\ n.undo = o.undo /\ n.new = o.new
        /\ n.image = o.image /\ n.detail = o.detail /\ n.before = o.before /\ n.clean = o.clean
    BY <1>2, <1>4 DEF Requests
  <1> HIDE DEF n
  <1>6. Job(n) = "putBack"
    BY <1>3, <1>5 DEF Job
  <1>7. OnPath(n)
    BY <1>4, <1>5, <1>6 DEF OnPath
  <1>8. n.todo[1] \in {"dropCommand", "insertCommand"}
    BY <1>4, <1>5 DEF Are2, Are3
  <1>9. Filled(n) /\ Restores(n)
    BY <1>2, <1>3, <1>4, <1>5, <1>6, <1>8 DEF Good, Filled, Facing, Restores
  <1>10. Good(n)
    BY <1>5, <1>7, <1>9 DEF Good
  <1>11. View' = View
    BY <1>1, ViewAfter DEF Tables, Becomes
  <1>12. Honest(n, View')
    <2> SUFFICES ASSUME o.clean PROVE Honest(n, View)
      BY <1>5, <1>11 DEF Honest
    <2>1. View = o.before
      BY <1>2, <1>3 DEF Honest, Unmoved
    <2>2. /\ SelectorHonest(n, View) /\ LinksHonest(n, View) /\ DeleteHonest(n) /\ CommandHonest(n, View)
          /\ RecreateHonest(n, View)
      BY <1>6, <1>8 DEF SelectorHonest, LinksHonest, DeleteHonest, CommandHonest, RecreateHonest
    <2> QED BY <1>5, <2>1, <2>2 DEF Honest
  <1> QED BY <1>1, <1>2, <1>5, <1>10, <1>12, QuietlyDone DEF GroupsInv, StoreOK, Tables

(* The entry that a request leaves in the history.                          *)
Entry(a) ==
  [action |-> op[a].action, detail |-> op[a].detail, was |-> op[a].before, now |-> View, clean |-> op[a].clean]

LEMMA EntryIsTrue ==
  ASSUME GroupsInv, HonestInv, NEW a \in Admins, At(a, "record")
  PROVE  Sound(Entry(a)) /\ True(Entry(a))
  <1> DEFINE o == op[a]
             e == Entry(a)
  <1>1. /\ o \in Requests /\ Good(o) /\ Honest(o, View) /\ o.todo # <<>> /\ o.todo[1] = "record"
        /\ Filled(o) /\ OnPath(o) /\ Facing(o, "record") /\ ~Facing(o, "snapRow") /\ View \in Views
    BY OfRequest DEF At, Facing
  <1>2. Job(o) # "none" /\ (o.action # "rollback" => Job(o) = o.action)
    BY <1>1, JobOf DEF Job
  <1>3. o.action \in Requested
    BY <1>1, <1>2 DEF Requests
  <1>4. /\ e \in Entries /\ e.action = o.action /\ e.detail = o.detail /\ e.was = o.before /\ e.now = View
        /\ e.clean = o.clean
    BY <1>1, <1>3 DEF Entry, Entries, Requests
  <1> HIDE DEF e
  <1>5. Sound(e)
    BY <1>1, <1>2, <1>4 DEF Sound, Filled
  <1>6. True(e)
    <2> SUFFICES ASSUME o.clean PROVE True(e)
      BY <1>4 DEF True
    <2>1. SelectorHonest(o, View) /\ LinksHonest(o, View) /\ DeleteHonest(o) /\ CommandHonest(o, View)
      BY <1>1 DEF Honest
    <2>2. CASE o.action = "selector"
      <3>1. /\ o.before.group.row \in Rows /\ o.detail.fields = [selector |-> o.before.group.row.selector]
            /\ View.group = [o.before.group EXCEPT !.row = Edited(o.before.group.row, o.new.fields)]
        BY <1>1, <1>2, <2>1, <2>2 DEF SelectorHonest
      <3>2. o.new.fields \in [selector : Selectors \cup {Blank}]
        BY <1>1, <1>2, <2>2 DEF Filled
      <3> QED BY <1>4, <2>2, <3>1, <3>2 DEF True
    <2>3. CASE o.action = "tags"
      <3>1. /\ o.detail.tags = o.before.group.tags
            /\ View.group = [o.before.group EXCEPT !.tags = o.new.tags] /\ o.new.tags \in SUBSET Tags
        BY <1>1, <1>2, <2>1, <2>3 DEF LinksHonest, Requests, Details
      <3> QED BY <1>4, <2>3, <3>1 DEF True
    <2>4. CASE o.action \in {"add", "remove"}
      BY <1>1, <1>2, <1>4, <2>1, <2>4 DEF True, LinksHonest
    <2>5. CASE o.action = "delete"
      BY <1>1, <1>2, <1>4, <2>1, <2>5 DEF True, DeleteHonest, Snapped
    <2>6. CASE o.action = "deleteCommand"
      BY <1>1, <1>2, <1>4, <2>1, <2>6 DEF True, CommandHonest
    <2>7. CASE o.action \notin {"selector", "tags", "add", "remove", "delete", "deleteCommand"}
      BY <1>4, <2>7 DEF True
    <2> QED BY <2>2, <2>3, <2>4, <2>5, <2>6, <2>7
  <1> QED BY <1>5, <1>6 DEF e

LEMMA AfterRecord ==
  ASSUME GroupsInv, HonestInv, NEW a \in Admins, Record(a)
  PROVE  GroupsInv' /\ HonestInv'
  <1>1. /\ At(a, "record") /\ UNCHANGED <<group, command, failures, forfeited>>
        /\ history' = history \cup {Entry(a)} /\ Becomes(a, Idle)
    BY DEF Record, Entry
  <1>2. (\A e \in history' : Sound(e)) /\ (\A e \in history' : True(e))
    BY <1>1, EntryIsTrue DEF GroupsInv, HonestInv
  <1>3. stored \subseteq stored'
    BY <1>1 DEF Becomes
  <1>4. /\ group' \in GroupRows /\ command' \in Contents \cup {Absent} /\ forfeited' \subseteq stored' \ {Absent}
        /\ failures' \in 0..MaxFailures /\ history \subseteq history'
    BY <1>1, <1>3 DEF GroupsInv, StoreOK
  <1>5. /\ GroupsInv' /\ op'[a] = Idle
        /\ \A b \in Admins \ {a} : SameRequest(op'[b], op[b]) /\ (op'[b].clean => View' = View)
    BY <1>1, <1>2, <1>4, IdleIsGood, Became
  <1> QED BY <1>2, <1>5, Nothing, HonestAfter

(* Failures, and configurations that come and go.                           *)
LEMMA AfterAbort ==
  ASSUME GroupsInv, HonestInv, NEW a \in Admins, Abort(a)
  PROVE  GroupsInv' /\ HonestInv'
  <1>1. /\ UNCHANGED Tables /\ failures < MaxFailures /\ failures' = failures + 1
        /\ forfeited' \subseteq forfeited \cup ({op[a].before.command} \ {Absent})
        /\ Becomes(a, Idle)
    BY DEF Abort, Fail
  <1>2. stored \subseteq stored'
    BY <1>1 DEF Becomes
  <1>3. op[a].before.command \in stored \cup {Absent}
    BY DEF GroupsInv
  <1>4. /\ group' \in GroupRows /\ command' \in Contents \cup {Absent} /\ forfeited' \subseteq stored' \ {Absent}
        /\ failures' \in 0..MaxFailures
    BY <1>1, <1>2, <1>3, LimitAssumption DEF GroupsInv, StoreOK, Tables
  <1> QED BY <1>1, <1>4, IdleIsGood, Nothing, Done DEF Tables

LEMMA GoesOnAnyway ==
  ASSUME GroupsInv, HonestInv, NEW a \in Admins, NEW n, Becomes(a, n), Good(n), n.clean = FALSE,
         n.undo = op[a].undo, n.action = op[a].action, n.before = op[a].before, Fail, UNCHANGED <<Tables, forfeited>>
  PROVE  GroupsInv' /\ HonestInv'
  <1>1. stored \subseteq stored' /\ failures < MaxFailures /\ failures' = failures + 1
    BY DEF Becomes, Fail
  <1>2. /\ group' \in GroupRows /\ command' \in Contents \cup {Absent} /\ forfeited' \subseteq stored' \ {Absent}
        /\ failures' \in 0..MaxFailures
    BY <1>1, LimitAssumption DEF GroupsInv, StoreOK, Tables
  <1>3. n.action = "rollback" => n.undo \in history
    BY DEF GroupsInv
  <1>4. Honest(n, View')
    BY DEF Honest
  <1> QED BY <1>2, <1>3, <1>4, Done DEF Tables

LEMMA AfterSkip ==
  ASSUME GroupsInv, HonestInv, NEW a \in Admins, Skip(a)
  PROVE  GroupsInv' /\ HonestInv'
  <1> DEFINE o == op[a]
  <1>1. Fail /\ UNCHANGED <<Tables, forfeited>> /\ o \in Requests /\ Good(o)
    BY DEF Skip, GroupsInv
  <1>2. CASE At(a, "snapRow") /\ Becomes(a, [Then(o) EXCEPT !.detail.fields = BlankRow, !.clean = FALSE])
    <2> DEFINE n == [Then(o) EXCEPT !.detail.fields = BlankRow, !.clean = FALSE]
    <2>1. o.todo # <<>> /\ o.todo[1] = "snapRow"
      BY <1>2, OfRequest
    <2>2. BlankRow \in Rows /\ BlankRow \in Edits
      BY BlankIsRow DEF Edits
    <2>3. /\ n \in Requests /\ n.todo = Tail(o.todo) /\ n.action = o.action /\ n.undo = o.undo /\ n.new = o.new
          /\ n.image = o.image /\ n.detail.fields = BlankRow /\ n.detail.configs = o.detail.configs
          /\ n.before = o.before /\ n.clean = FALSE
      BY <1>1, <2>1, <2>2, ThenGoesOn DEF Requests, Details
    <2> HIDE DEF n
    <2>4. Good(n)
      BY <1>1, <2>1, <2>2, <2>3, RequestGoesOn
    <2> QED BY <1>1, <1>2, <2>3, <2>4, GoesOnAnyway DEF n
  <1>3. ASSUME NEW step \in {"snapTags", "snapConfigs", "list"}, At(a, step),
               Becomes(a, [Then(o) EXCEPT !.clean = FALSE])
        PROVE  GroupsInv' /\ HonestInv'
    <2> DEFINE n == [Then(o) EXCEPT !.clean = FALSE]
    <2>1. o.todo # <<>> /\ o.todo[1] = step
      BY <1>3, OfRequest
    <2>2. /\ n \in Requests /\ n.todo = Tail(o.todo) /\ n.action = o.action /\ n.undo = o.undo /\ n.new = o.new
          /\ n.image = o.image /\ n.detail = o.detail /\ n.before = o.before /\ n.clean = FALSE
      BY <1>1, <2>1, ThenGoesOn DEF Requests
    <2> HIDE DEF n
    <2>3. Good(n)
      BY <1>1, <2>1, <2>2, RequestGoesOn
    <2> QED BY <1>1, <1>3, <2>2, <2>3, GoesOnAnyway DEF n
  <1>4. ASSUME At(a, "clear"), NEW c \in o.listed, Becomes(a, [o EXCEPT !.listed = @ \ {c}, !.clean = FALSE])
        PROVE  GroupsInv' /\ HonestInv'
    <2> DEFINE n == [o EXCEPT !.listed = @ \ {c}, !.clean = FALSE]
    <2>1. o.todo # <<>> /\ o.todo[1] = "clear"
      BY <1>4, OfRequest
    <2>2. /\ n \in Requests /\ n.todo = o.todo /\ n.action = o.action /\ n.undo = o.undo /\ n.new = o.new
          /\ n.image = o.image /\ n.detail = o.detail /\ n.before = o.before /\ n.clean = FALSE
      BY <1>1 DEF Requests
    <2> HIDE DEF n
    <2>3. Good(n)
      BY <1>1, <2>1, <2>2, ClearedOne
    <2> QED BY <1>1, <1>4, <2>2, <2>3, GoesOnAnyway DEF n
  <1>5. ASSUME At(a, "map"), NEW c \in o.new.configs, Becomes(a, [Rest(o, c) EXCEPT !.clean = FALSE])
        PROVE  GroupsInv' /\ HonestInv'
    <2> DEFINE m == Rest(o, c)
               n == [m EXCEPT !.clean = FALSE]
    <2>1. o.todo # <<>> /\ o.todo[1] = "map"
      BY <1>5, OfRequest
    <2>2. m \in Requests /\ Good(m) /\ m.action = o.action /\ m.undo = o.undo /\ m.before = o.before
      BY <1>1, <2>1, RestGoesOn
    <2> HIDE DEF m
    <2>3. n.clean = FALSE
      BY <2>2 DEF Requests
    <2>4. Good(n) /\ SameRequest(n, m)
      BY <2>2, SameRequestIsGood
    <2> HIDE DEF n
    <2>5. n.action = o.action /\ n.undo = o.undo /\ n.before = o.before
      BY <2>2, <2>4 DEF SameRequest
    <2> QED BY <1>1, <1>5, <2>3, <2>4, <2>5, GoesOnAnyway DEF n, m
  <1> QED BY <1>2, <1>3, <1>4, <1>5 DEF Skip

LEMMA AfterCreateOrDeleteFile ==
  ASSUME GroupsInv, HonestInv, NEW c \in Files, CreateOrDeleteFile(c)
  PROVE  GroupsInv' /\ HonestInv'
  <1>1. /\ requests < MaxRequests /\ requests' = requests + 1
        /\ files' = (files \ {c}) \cup ({c} \ files)
        /\ group' = [group EXCEPT !.mapped = IF c \in files THEN @ \ {c} ELSE @]
        /\ op' = [b \in Admins |-> [op[b] EXCEPT !.clean = FALSE]]
        /\ UNCHANGED <<command, history, failures, stored, forfeited>>
    BY DEF CreateOrDeleteFile, Count
  <1>2. ASSUME NEW b \in Admins
        PROVE  /\ op'[b] \in Requests /\ Good(op'[b]) /\ SameRequest(op'[b], op[b])
               /\ op'[b].clean = FALSE
    <2>1. op[b] \in Requests /\ Good(op[b])
      BY DEF GroupsInv
    <2>2. op'[b] = [op[b] EXCEPT !.clean = FALSE]
      BY <1>1
    <2>3. op'[b].clean = FALSE
      BY <2>1, <2>2 DEF Requests
    <2> QED BY <2>1, <2>2, <2>3, SameRequestIsGood
  <1>3. op' \in [Admins -> Requests]
    <2>1. \A b \in Admins : op'[b] \in Requests
      BY <1>2
    <2>2. op' = [b \in Admins |-> op'[b]]
      BY <1>1
    <2> QED BY <2>1, <2>2
  <1>4. group' \in GroupRows
    BY <1>1 DEF GroupsInv, StoreOK, GroupRows
  <1>5. StoreOK'
    BY <1>1, <1>4, LimitAssumption DEF GroupsInv, StoreOK
  <1>6. ASSUME NEW b \in Admins
        PROVE  /\ op'[b].action = "rollback" => op'[b].undo \in history'
               /\ op'[b].before.command \in stored' \cup {Absent}
               /\ Honest(op'[b], View')
    <2>1. op[b].before.command \in stored \cup {Absent} /\ (op[b].action = "rollback" => op[b].undo \in history)
      BY DEF GroupsInv
    <2>2. Honest(op'[b], View')
      BY <1>2 DEF Honest
    <2>3. op'[b].action = op[b].action /\ op'[b].undo = op[b].undo /\ op'[b].before = op[b].before
      BY <1>2 DEF SameRequest
    <2>4. history' = history /\ stored' = stored
      BY <1>1
    <2> QED BY <2>1, <2>2, <2>3, <2>4
  <1>7. GroupsInv'
    BY <1>1, <1>2, <1>3, <1>5, <1>6 DEF GroupsInv
  <1>8. HonestInv'
    BY <1>1, <1>6 DEF HonestInv
  <1> QED BY <1>7, <1>8

-----------------------------------------------------------------------------
LEMMA GroupsNext ==
  ASSUME GroupsInv, HonestInv, [NextGroups]_groupVars
  PROVE  GroupsInv' /\ HonestInv'
  <1>1. ASSUME NEW a \in Admins, Request(a) PROVE GroupsInv' /\ HonestInv'
    BY <1>1, Requesting, RollingBack
  <1>2. ASSUME NEW a \in Admins, Statement(a) PROVE GroupsInv' /\ HonestInv'
    BY <1>2, AfterReadRow, AfterSaveRow, AfterInsertRow, AfterSnapRow, AfterSnapTags, AfterSnapConfigs,
       AfterDropGroup, AfterPutTags, AfterMap, AfterUnmap, AfterBranch, AfterListConfigs, AfterClear,
       AfterFindCommand, AfterInsertCommand, AfterSnapCommand, AfterDropCommand, AfterBranchCommand,
       AfterRecord DEF Statement
  <1>3. CASE UNCHANGED groupVars
    <2>1. View' = View
      BY <1>3 DEF groupVars, View, Existing
    <2>2. GroupsInv'
      BY <1>3 DEF groupVars, GroupsInv, StoreOK
    <2>3. HonestInv'
      BY <1>3, <2>1 DEF groupVars, HonestInv
    <2> QED BY <2>2, <2>3
  <1> QED BY <1>1, <1>2, <1>3, AfterAbort, AfterSkip, AfterCreateOrDeleteFile DEF NextGroups

LEMMA GroupsInit == InitGroups => GroupsInv /\ HonestInv
  <1> SUFFICES ASSUME InitGroups PROVE GroupsInv /\ HonestInv
    OBVIOUS
  <1>1. \A a \in Admins : op[a] = Idle
    BY DEF InitGroups
  <1>2. group \in GroupRows
    <2>1. [row : Rows, tags : SUBSET Tags, mapped : SUBSET (Files \cup {Onetime})] \subseteq GroupRows
      BY DEF GroupRows, Configs
    <2> QED BY <2>1, BlankIsRow DEF InitGroups
  <1>3. StoreOK
    BY <1>2, LimitAssumption DEF InitGroups, StoreOK
  <1>4. op \in [Admins -> Requests]
    BY IdleIsGood DEF InitGroups, Good
  <1>5. GroupsInv
    BY <1>1, <1>3, <1>4, IdleIsGood DEF InitGroups, GroupsInv
  <1>6. HonestInv
    BY <1>1, Nothing DEF InitGroups, HonestInv
  <1> QED BY <1>5, <1>6

-----------------------------------------------------------------------------
(***************************************************************************)
(* The properties.                                                         *)
(***************************************************************************)
LEMMA TypedThen == GroupsInv => GroupsTypeOK
  <1> SUFFICES ASSUME GroupsInv PROVE GroupsTypeOK
    OBVIOUS
  <1>1. /\ group.row \in Rows \cup {Absent} /\ group.tags \subseteq Tags
        /\ group.mapped \subseteq Files \cup {Onetime}
        /\ files \subseteq Files /\ command \in Contents \cup {Absent}
        /\ command \in stored /\ stored \subseteq Contents \cup {Absent} /\ forfeited \subseteq stored \ {Absent}
        /\ requests \in 0..MaxRequests /\ failures \in 0..MaxFailures
    BY DEF GroupsInv, StoreOK, GroupRows, Configs
  <1>2. ASSUME NEW a \in Admins
        PROVE  /\ op[a].image \in Rows \cup {Absent} /\ op[a].listed \subseteq Files \cup {Onetime}
               /\ op[a].todo # <<>> => op[a].action # "none"
               /\ At(a, "saveRow") => op[a].image # Absent /\ DOMAIN op[a].new.fields # {}
    <2> DEFINE o == op[a]
    <2>1. o \in Requests /\ OnPath(o) /\ Filled(o)
      BY DEF GroupsInv, Good
    <2>2. o.image \in Rows \cup {Absent} /\ o.listed \subseteq Files \cup {Onetime}
      BY <2>1 DEF Requests, Configs
    <2>3. o.todo # <<>> => o.action # "none"
      BY <2>1, JobOf DEF Job
    <2>4. ASSUME At(a, "saveRow") PROVE o.image # Absent /\ DOMAIN o.new.fields # {}
      <3>1. o.todo # <<>> /\ o.todo[1] = "saveRow" /\ Facing(o, "saveRow")
        BY <2>1, <2>4 DEF At, Facing, Requests
      <3>2. Job(o) \in {"update", "selector", "recreate"}
        BY <2>1, <3>1, JobOf
      <3>3. o.new.fields \in Rows \cup [description : Descriptions \cup {Blank}] \cup [selector : Selectors \cup {Blank}]
        BY <2>1, <3>2 DEF Filled
      <3>4. CASE o.new.fields \in Rows
        BY <2>1, <3>1, <3>4 DEF Filled, Rows
      <3>5. CASE o.new.fields \in [description : Descriptions \cup {Blank}]
        BY <2>1, <3>1, <3>5 DEF Filled
      <3>6. CASE o.new.fields \in [selector : Selectors \cup {Blank}]
        BY <2>1, <3>1, <3>6 DEF Filled
      <3> QED BY <3>3, <3>4, <3>5, <3>6
    <2> QED BY <2>2, <2>3, <2>4
  <1> QED BY <1>1, <1>2 DEF GroupsTypeOK

(* Types: what a request has read, listed and is going to write is of its   *)
(* kind; no Save writes a row that was not there or a field nobody set.     *)
THEOREM GroupsTypeCorrect == SpecGroups => []GroupsTypeOK
  <1>1. InitGroups => GroupsInv /\ HonestInv
    BY GroupsInit
  <1>2. (GroupsInv /\ HonestInv) /\ [NextGroups]_groupVars => (GroupsInv /\ HonestInv)'
    BY GroupsNext
  <1>3. GroupsInv /\ HonestInv => GroupsTypeOK
    BY TypedThen
  <1> QED BY <1>1, <1>2, <1>3, PTL DEF SpecGroups

LEMMA EditedBack ==
  ASSUME NEW r \in Rows, NEW f \in [selector : Selectors \cup {Blank}]
  PROVE  Edited(Edited(r, f), [selector |-> r.selector]) = r
  <1> DEFINE s == Edited(r, f)
             b == [selector |-> r.selector]
  <1>1. DOMAIN r = {"description", "selector"} /\ DOMAIN f = {"selector"} /\ DOMAIN b = {"selector"} /\ b.selector = r.selector
    BY DEF Rows
  <1>2. DOMAIN s = {"description", "selector"} /\ s["description"] = r["description"]
    BY <1>1 DEF Edited
  <1> HIDE DEF s, b
  <1>3. /\ DOMAIN Edited(s, b) = {"description", "selector"}
        /\ Edited(s, b)["description"] = r["description"] /\ Edited(s, b)["selector"] = r.selector
        /\ Edited(s, b) = [x \in {"description", "selector"} |-> Edited(s, b)[x]]
    BY <1>1, <1>2 DEF Edited
  <1>4. r = [x \in {"description", "selector"} |-> r[x]]
    BY DEF Rows
  <1> QED BY <1>3, <1>4 DEF s, b

LEMMA SameGroup ==
  ASSUME NEW g \in GroupRows, NEW h \in GroupRows, g.row = h.row, g.tags = h.tags, g.mapped = h.mapped
  PROVE  g = h
  BY DEF GroupRows

(* A rollback that was alone has undone a request that was alone.           *)
LEMMA RestoredThen == GroupsInv /\ HonestInv => UndoRestores
  <1> SUFFICES ASSUME GroupsInv, HonestInv, NEW a \in Admins, At(a, "record"), op[a].action = "rollback",
                      op[a].clean, op[a].undo.clean
               PROVE  Restored(op[a].undo, op[a].before, View)
    BY DEF UndoRestores
  <1> DEFINE o == op[a]
             u == o.undo
             was == o.before
  <1>1. /\ o \in Requests /\ Good(o) /\ Honest(o, View) /\ o.todo # <<>> /\ o.todo[1] = "record"
        /\ u \in history /\ OnPath(o) /\ Filled(o) /\ Restores(o) /\ Facing(o, "record") /\ View.group \in GroupRows
    BY OfRequest
  <1>2. Sound(u) /\ True(u) /\ u \in Entries
    BY <1>1 DEF GroupsInv, HonestInv, Sound
  <1>3. /\ SelectorHonest(o, View) /\ LinksHonest(o, View) /\ CommandHonest(o, View) /\ RecreateHonest(o, View)
    BY <1>1 DEF Honest
  <1>4. /\ u.action \in {"selector", "tags", "add", "remove", "delete", "deleteCommand"}
        /\ o.new.fields = u.detail.fields /\ o.new.tags = u.detail.tags /\ o.new.content = u.detail.content
        /\ Job(o) \in {"add", "remove"} => u.detail.configs = o.new.configs \cup o.detail.configs
    BY <1>1 DEF Restores
  <1>5. u.was.group \in GroupRows /\ u.now.group \in GroupRows /\ was.group \in GroupRows
    BY <1>1, <1>2 DEF Entries, Views, Requests
  <1>6. CASE u.action = "selector"
    <2>1. Job(o) = "selector"
      BY <1>6 DEF Job
    <2>2. /\ was.group.row \in Rows
          /\ View.group = [was.group EXCEPT !.row = Edited(was.group.row, u.detail.fields)]
      BY <1>1, <1>3, <1>4, <2>1 DEF SelectorHonest
    <2>3. /\ u.was.group.row \in Rows /\ u.detail.fields = [selector |-> u.was.group.row.selector]
      BY <1>2, <1>6 DEF True
    <2>4. PICK f \in [selector : Selectors \cup {Blank}] :
            u.now.group = [u.was.group EXCEPT !.row = Edited(u.was.group.row, f)]
      BY <1>2, <1>6 DEF True
    <2>5. was.group = u.now.group => View.group = u.was.group
      <3> SUFFICES ASSUME was.group = u.now.group PROVE View.group = u.was.group
        OBVIOUS
      <3>1. was.group.row = Edited(u.was.group.row, f)
        BY <1>5, <2>4 DEF GroupRows
      <3>2. Edited(was.group.row, u.detail.fields) = u.was.group.row
        BY <2>3, <3>1, EditedBack
      <3>3. View.group = [u.now.group EXCEPT !.row = u.was.group.row]
        BY <2>2, <3>2
      <3> QED BY <1>5, <2>4, <3>3 DEF GroupRows
    <2> QED BY <1>6, <2>5 DEF Restored
  <1>7. CASE u.action = "tags"
    <2>1. Job(o) = "tags"
      BY <1>7 DEF Job
    <2>2. View.group = [was.group EXCEPT !.tags = u.was.group.tags]
      BY <1>1, <1>2, <1>3, <1>4, <1>7, <2>1 DEF LinksHonest, True
    <2>3. PICK t \in SUBSET Tags : u.now.group = [u.was.group EXCEPT !.tags = t]
      BY <1>2, <1>7 DEF True
    <2>4. was.group = u.now.group => View.group = u.was.group
      <3> SUFFICES ASSUME was.group = u.now.group PROVE View.group = u.was.group
        OBVIOUS
      <3>1. u.now.group.row = u.was.group.row /\ u.now.group.mapped = u.was.group.mapped
        BY <1>5, <2>3 DEF GroupRows
      <3>2. View.group.row = was.group.row /\ View.group.mapped = was.group.mapped /\ View.group.tags = u.was.group.tags
        BY <1>5, <2>2 DEF GroupRows
      <3> QED BY <1>1, <1>5, <3>1, <3>2, SameGroup
    <2> QED BY <1>7, <2>4 DEF Restored
  <1>8. CASE u.action = "add"
    <2>1. Job(o) = "remove"
      BY <1>8 DEF Job
    <2>2. o.new.configs = {} /\ u.detail.configs = o.detail.configs /\ OneConfig(u.detail.configs)
      BY <1>1, <1>2, <1>4, <1>8, <2>1 DEF Filled, Sound
    <2>3. View.group = [was.group EXCEPT !.mapped = was.group.mapped \ u.detail.configs]
      BY <1>1, <1>3, <2>1, <2>2 DEF LinksHonest
    <2>4. u.now.group = [u.was.group EXCEPT !.mapped = u.was.group.mapped \cup u.detail.configs]
      BY <1>2, <1>8 DEF True
    <2>5. was.group = u.now.group /\ u.was.group # u.now.group => View.group = u.was.group
      <3> SUFFICES ASSUME was.group = u.now.group, u.was.group # u.now.group PROVE View.group = u.was.group
        OBVIOUS
      <3>1. PICK c \in Configs : u.detail.configs = {c}
        BY <2>2 DEF OneConfig
      <3>2. c \notin u.was.group.mapped
        <4> SUFFICES ASSUME c \in u.was.group.mapped PROVE FALSE
          OBVIOUS
        <4>1. u.was.group.mapped \cup u.detail.configs = u.was.group.mapped
          BY <3>1
        <4> QED BY <1>5, <2>4, <4>1 DEF GroupRows
      <3>3. (u.was.group.mapped \cup u.detail.configs) \ u.detail.configs = u.was.group.mapped
        BY <3>1, <3>2
      <3>4. /\ u.now.group.row = u.was.group.row /\ u.now.group.tags = u.was.group.tags
            /\ u.now.group.mapped = u.was.group.mapped \cup u.detail.configs
        BY <1>5, <2>4 DEF GroupRows
      <3>5. /\ View.group.row = was.group.row /\ View.group.tags = was.group.tags
            /\ View.group.mapped = was.group.mapped \ u.detail.configs
        BY <1>5, <2>3 DEF GroupRows
      <3>6. View.group.mapped = u.was.group.mapped
        BY <3>3, <3>4, <3>5
      <3>7. View.group.row = u.was.group.row /\ View.group.tags = u.was.group.tags
        BY <3>4, <3>5
      <3> HIDE DEF u, was
      <3> QED BY <1>1, <1>5, <3>6, <3>7, SameGroup
    <2> QED BY <1>8, <2>5 DEF Restored
  <1>9. CASE u.action = "remove"
    <2>1. Job(o) = "add"
      BY <1>9 DEF Job
    <2>2. o.new.configs = {} /\ u.detail.configs = o.detail.configs /\ OneConfig(u.detail.configs)
      BY <1>1, <1>2, <1>4, <1>9, <2>1 DEF Filled, Sound
    <2>3. View.group = [was.group EXCEPT !.mapped = was.group.mapped \cup u.detail.configs]
      BY <1>1, <1>3, <2>1, <2>2 DEF LinksHonest
    <2>4. u.now.group = [u.was.group EXCEPT !.mapped = u.was.group.mapped \ u.detail.configs]
      BY <1>2, <1>9 DEF True
    <2>5. was.group = u.now.group /\ u.was.group # u.now.group => View.group = u.was.group
      <3> SUFFICES ASSUME was.group = u.now.group, u.was.group # u.now.group PROVE View.group = u.was.group
        OBVIOUS
      <3>1. PICK c \in Configs : u.detail.configs = {c}
        BY <2>2 DEF OneConfig
      <3>2. c \in u.was.group.mapped
        <4> SUFFICES ASSUME c \notin u.was.group.mapped PROVE FALSE
          OBVIOUS
        <4>1. u.was.group.mapped \ u.detail.configs = u.was.group.mapped
          BY <3>1
        <4> QED BY <1>5, <2>4, <4>1 DEF GroupRows
      <3>3. (u.was.group.mapped \ u.detail.configs) \cup u.detail.configs = u.was.group.mapped
        BY <3>1, <3>2
      <3>4. /\ u.now.group.row = u.was.group.row /\ u.now.group.tags = u.was.group.tags
            /\ u.now.group.mapped = u.was.group.mapped \ u.detail.configs
        BY <1>5, <2>4 DEF GroupRows
      <3>5. /\ View.group.row = was.group.row /\ View.group.tags = was.group.tags
            /\ View.group.mapped = was.group.mapped \cup u.detail.configs
        BY <1>5, <2>3 DEF GroupRows
      <3>6. View.group.mapped = u.was.group.mapped
        BY <3>3, <3>4, <3>5
      <3>7. View.group.row = u.was.group.row /\ View.group.tags = u.was.group.tags
        BY <3>4, <3>5
      <3> HIDE DEF u, was
      <3> QED BY <1>1, <1>5, <3>6, <3>7, SameGroup
    <2> QED BY <1>9, <2>5 DEF Restored
  <1>10. CASE u.action = "delete"
    <2>1. Job(o) = "recreate"
      BY <1>10 DEF Job
    <2>2. Snapped(u.detail, u.was)
      BY <1>2, <1>10 DEF True
    <2>3. o.new.configs = {}
      BY <1>1, <2>1, RecordIsLast
    <2>4. /\ View.group.row = u.detail.fields
          /\ View.group.mapped = Hidden(was) \cup u.detail.configs
          /\ View.group.tags = IF u.detail.tags = {} THEN was.group.tags ELSE u.detail.tags
      BY <1>1, <1>3, <1>4, <2>1, <2>3 DEF RecreateHonest
    <2> QED BY <1>10, <2>2, <2>4 DEF Restored, Snapped, Hidden
  <1>11. CASE u.action = "deleteCommand"
    <2>1. Job(o) = "putBack"
      BY <1>11 DEF Job
    <2>2. View.command = u.detail.content /\ u.detail.content = u.was.command
      BY <1>1, <1>2, <1>3, <1>4, <1>11, <2>1 DEF CommandHonest, True
    <2> QED BY <1>11, <2>2 DEF Restored
  <1> QED BY <1>4, <1>6, <1>7, <1>8, <1>9, <1>10, <1>11

(* RollbackConfig undoes what the entry is about, over all the statements   *)
(* of both requests, as long as nobody interferes with either.              *)
THEOREM RollbacksUndo == SpecGroups => []UndoRestores
  <1>1. InitGroups => GroupsInv /\ HonestInv
    BY GroupsInit
  <1>2. (GroupsInv /\ HonestInv) /\ [NextGroups]_groupVars => (GroupsInv /\ HonestInv)'
    BY GroupsNext
  <1>3. GroupsInv /\ HonestInv => UndoRestores
    BY RestoredThen
  <1> QED BY <1>1, <1>2, <1>3, PTL DEF SpecGroups

-----------------------------------------------------------------------------
(* Who writes the row of the group, and who leaves it alone.                *)
LEMMA TodoShrinks ==
  ASSUME GroupsInv, NEW a \in Admins, op[a].todo # <<>>, Becomes(a, Then(op[a]))
  PROVE  op'[a] # op[a]
  <1>1. op[a] \in Requests /\ op[a].todo \in Seq(Statements)
    BY DEF GroupsInv, Requests
  <1>2. op'[a] = Then(op[a])
    BY DEF Becomes
  <1>3. op'[a].todo = Tail(op[a].todo)
    BY <1>1, <1>2, ThenGoesOn
  <1>4. Len(Tail(op[a].todo)) # Len(op[a].todo)
    BY <1>1
  <1>5. Tail(op[a].todo) # op[a].todo
    BY <1>4
  <1> QED BY <1>3, <1>5

LEMMA RowsOfStatements ==
  ASSUME GroupsInv, HonestInv, NEW a \in Admins, Statement(a), ~SaveRow(a), ~InsertRow(a)
  PROVE  group'.row \in {group.row, Absent}
  <1>1. group \in GroupRows
    BY DEF GroupsInv, StoreOK
  <1>2. CASE UNCHANGED Tables \/ UNCHANGED group
    BY <1>2 DEF Tables
  <1>3. CASE DropGroup(a)
    BY <1>3 DEF DropGroup, NoGroup
  <1>4. CASE PutTags(a)
    BY <1>1, <1>4 DEF PutTags, GroupRows
  <1>5. CASE Map(a)
    BY <1>1, <1>5 DEF Map, GroupRows
  <1>6. CASE Unmap(a)
    BY <1>1, <1>6 DEF Unmap, GroupRows
  <1>7. CASE Clear(a)
    BY <1>1, <1>7 DEF Clear, GroupRows
  <1>8. CASE DropCommand(a)
    BY <1>1, <1>8 DEF DropCommand, GroupRows
  <1>9. CASE InsertCommand(a) \/ Record(a)
    BY <1>9 DEF InsertCommand, Record
  <1>10. CASE ReadRow(a) \/ SnapRow(a) \/ SnapTags(a) \/ SnapConfigs(a) \/ Branch(a) \/ ListConfigs(a)
    BY <1>2, <1>10 DEF ReadRow, SnapRow, SnapTags, SnapConfigs, Branch, ListConfigs
  <1>11. CASE FindCommand(a) \/ SnapCommand(a) \/ BranchCommand(a)
    BY <1>2, <1>11 DEF FindCommand, SnapCommand, BranchCommand
  <1> QED BY <1>3, <1>4, <1>5, <1>6, <1>7, <1>8, <1>9, <1>10, <1>11 DEF Statement

LEMMA RequestsWriteNothing ==
  ASSUME NEW a \in Admins, Request(a)
  PROVE  /\ op[a] = Idle /\ UNCHANGED <<group, files, command, history, failures, stored, forfeited>>
         /\ \E o : op' = [op EXCEPT ![a] = o]
  <1>1. CASE CreateGroup(a) \/ UpdateGroup(a) \/ SetSelector(a) \/ DeleteGroup(a) \/ SetGroupTags(a)
    BY <1>1 DEF CreateGroup, UpdateGroup, SetSelector, DeleteGroup, SetGroupTags, Begin, BeginUndo
  <1>2. CASE AddGroupConfig(a) \/ RemoveGroupConfig(a)
    BY <1>2 DEF AddGroupConfig, RemoveGroupConfig, Begin, BeginUndo
  <1>3. CASE CreateOnetimeCommand(a) \/ DeleteOnetimeCommand(a) \/ RollbackConfig(a)
    BY <1>3 DEF CreateOnetimeCommand, DeleteOnetimeCommand, RollbackConfig, Begin, BeginUndo
  <1> QED BY <1>1, <1>2, <1>3 DEF Request

EditKept(f) ==
  group'.row \notin {group.row, Absent} /\ (group.row = Absent \/ group'.row[f] # group.row[f]) =>
    \E a \in Admins :
      /\ op'[a] # op[a]
      /\ At(a, "insertRow") \/ op[a].image # group.row \/ f \in DOMAIN op[a].new.fields

LEMMA EditKeptNext ==
  ASSUME GroupsInv, HonestInv, [NextGroups]_groupVars, NEW f \in DOMAIN BlankRow
  PROVE  EditKept(f)
  <1>1. ASSUME group'.row \in {group.row, Absent} PROVE EditKept(f)
    BY <1>1 DEF EditKept
  <1>2. group \in GroupRows
    BY DEF GroupsInv, StoreOK
  <1>3. ASSUME NEW a \in Admins, SaveRow(a) PROVE EditKept(f)
    <2> DEFINE o == op[a]
    <2>1. /\ At(a, "saveRow") /\ group' = [group EXCEPT !.row = Saved(o)] /\ Becomes(a, Then(o))
      BY <1>3 DEF SaveRow
    <2>2. /\ o \in Requests /\ o.todo # <<>> /\ Filled(o) /\ Facing(o, "saveRow")
      BY <2>1, OfRequest
    <2>3. op'[a] # o
      BY <2>1, <2>2, TodoShrinks
    <2>4. o.image \in Rows /\ o.new.fields \in Edits /\ o.image # Absent
      BY <2>2 DEF Filled, Requests, Details
    <2>5. group'.row = Edited(o.image, o.new.fields)
      BY <1>2, <2>1 DEF Saved, GroupRows
    <2>6. f \notin DOMAIN o.new.fields => group'.row[f] = o.image[f]
      BY <2>4, <2>5, EditedRow
    <2> QED BY <2>3, <2>4, <2>6 DEF EditKept
  <1>4. ASSUME NEW a \in Admins, InsertRow(a) PROVE EditKept(f)
    <2> DEFINE o == op[a]
    <2>1. CASE group.row = Absent
      <3>1. At(a, "insertRow") /\ Becomes(a, Then(o))
        BY <1>4, <2>1 DEF InsertRow
      <3>2. op'[a] # o
        BY <3>1, TodoShrinks DEF At
      <3> QED BY <3>1, <3>2 DEF EditKept
    <2>2. CASE group.row # Absent
      BY <1>1, <1>4, <2>2 DEF InsertRow
    <2> QED BY <2>1, <2>2
  <1>5. ASSUME NEW a \in Admins, Statement(a) PROVE EditKept(f)
    BY <1>1, <1>3, <1>4, <1>5, RowsOfStatements
  <1>6. ASSUME NEW a \in Admins, Request(a) PROVE EditKept(f)
    BY <1>1, <1>6, RequestsWriteNothing
  <1>7. ASSUME NEW a \in Admins, Abort(a) \/ Skip(a) PROVE EditKept(f)
    BY <1>1, <1>7 DEF Abort, Skip, Tables
  <1>8. ASSUME NEW c \in Files, CreateOrDeleteFile(c) PROVE EditKept(f)
    BY <1>1, <1>2, <1>8 DEF CreateOrDeleteFile, GroupRows
  <1>9. CASE UNCHANGED groupVars
    BY <1>1, <1>9 DEF groupVars
  <1> QED BY <1>5, <1>6, <1>7, <1>8, <1>9 DEF NextGroups

(* A request changes only the fields it is about, although it writes the    *)
(* whole row, and a deleted group comes back only when it is created: what  *)
(* breaks this is only another one in between.                              *)
THEOREM EditsStay == SpecGroups => EditsKept
  <1>1. InitGroups => GroupsInv /\ HonestInv
    BY GroupsInit
  <1>2. (GroupsInv /\ HonestInv) /\ [NextGroups]_groupVars => (GroupsInv /\ HonestInv)'
    BY GroupsNext
  <1> DEFINE Kept ==
        \A f \in DOMAIN BlankRow :
          LET old == group.row  new == group'.row
          IN  new \notin {old, Absent} /\ (old = Absent \/ new[f] # old[f]) =>
                \E a \in Admins :
                  /\ op'[a] # op[a]
                  /\ At(a, "insertRow") \/ op[a].image # old \/ f \in DOMAIN op[a].new.fields
  <1>3. GroupsInv /\ HonestInv /\ [NextGroups]_groupVars => [Kept]_groupVars
    BY EditKeptNext DEF EditKept
  <1>4. ([][Kept]_groupVars) => EditsKept
    BY DEF EditsKept
  <1> HIDE DEF Kept
  <1> QED BY <1>1, <1>2, <1>3, <1>4, PTL DEF SpecGroups

-----------------------------------------------------------------------------
(* Where the contents of the command are.                                   *)
About(o, v) ==
  /\ o.todo # <<>> /\ Head(o.todo) = "record" /\ o.action = "deleteCommand"
  /\ o.detail.content = v /\ o.before.command = v

Noted(v) == \E e \in history : e.action = "deleteCommand" /\ e.detail.content = v

Recoverable(v) ==
  v = command \/ v \in forfeited \/ Noted(v) \/ \E a \in Admins : About(op[a], v)

RecoverInv == \A v \in stored \ {Absent} : Recoverable(v)

(* What every step leaves as it is, of all but the request it is of.        *)
LEMMA StillRecoverable ==
  ASSUME GroupsInv, HonestInv, NEW a \in Admins, NEW o, Becomes(a, o), forfeited \subseteq forfeited',
         history \subseteq history', RecoverInv,
         \A v \in stored \ {Absent} : v = command => v = command' \/ v \in forfeited' \/ About(o, v),
         \A v \in stored \ {Absent} : About(op[a], v) => v \in forfeited' \/ Noted(v)'
  PROVE  RecoverInv'
  <1>1. /\ stored' = stored \cup {command'}
        /\ op' = [b \in Admins |-> IF b = a THEN o ELSE IF View' = View THEN op[b]
                                   ELSE [op[b] EXCEPT !.clean = FALSE]]
    BY DEF Becomes
  <1>2. op'[a] = o
    BY <1>1
  <1>3. ASSUME NEW v \in stored \ {Absent} PROVE Recoverable(v)'
    <2>1. CASE v = command
      BY <1>2, <2>1 DEF Recoverable
    <2>2. CASE v \in forfeited
      BY <2>2 DEF Recoverable
    <2>3. CASE Noted(v)
      BY <2>3 DEF Recoverable, Noted
    <2>4. ASSUME NEW b \in Admins, About(op[b], v) PROVE Recoverable(v)'
      <3>1. CASE b = a
        BY <2>4, <3>1 DEF Recoverable
      <3>2. CASE b # a
        <4>1. op[b] \in Requests /\ Good(op[b])
          BY DEF GroupsInv
        <4>2. op'[b] \in {op[b], [op[b] EXCEPT !.clean = FALSE]}
          BY <1>1, <3>2
        <4>3. SameRequest(op'[b], op[b])
          BY <4>1, <4>2, SameRequestIsGood
        <4>4. About(op'[b], v)
          BY <2>4, <4>3 DEF About, SameRequest
        <4> QED BY <4>4 DEF Recoverable
      <3> QED BY <3>1, <3>2
    <2> QED BY <2>1, <2>2, <2>3, <2>4 DEF RecoverInv, Recoverable
  <1>4. ASSUME NEW v \in stored' \ stored PROVE Recoverable(v)'
    <2>1. v = command'
      BY <1>1, <1>4
    <2> QED BY <2>1 DEF Recoverable
  <1> QED BY <1>3, <1>4 DEF RecoverInv

LEMMA RecoverableAfterStatement ==
  ASSUME GroupsInv, HonestInv, RecoverInv, NEW a \in Admins, Statement(a)
  PROVE  RecoverInv'
  <1> DEFINE o == op[a]
  <1>1. ASSUME NEW step, step # "record", At(a, step), NEW v PROVE ~About(o, v)
    BY <1>1 DEF About, At
  <1>2. ASSUME NEW step, step # "record", At(a, step), NEW n, Becomes(a, n),
               UNCHANGED <<command, history, forfeited>>
        PROVE  RecoverInv'
    BY <1>1, <1>2, StillRecoverable
  <1>3. CASE ReadRow(a) \/ SaveRow(a) \/ SnapRow(a) \/ SnapTags(a) \/ SnapConfigs(a) \/ DropGroup(a) \/ PutTags(a)
    BY <1>2, <1>3 DEF ReadRow, SaveRow, SnapRow, SnapTags, SnapConfigs, DropGroup, PutTags, Tables
  <1>4. CASE InsertRow(a)
    <2>1. At(a, "insertRow") /\ UNCHANGED <<command, history, forfeited>> /\ \E n : Becomes(a, n)
      BY <1>4 DEF InsertRow
    <2> QED BY <1>2, <2>1
  <1>5. CASE Map(a) \/ Unmap(a) \/ Branch(a) \/ ListConfigs(a)
    BY <1>2, <1>5 DEF Map, Unmap, Branch, ListConfigs, Tables
  <1>6. CASE Clear(a)
    <2>1. At(a, "clear") /\ UNCHANGED <<command, history, forfeited>> /\ \E n : Becomes(a, n)
      BY <1>6 DEF Clear
    <2> QED BY <1>2, <2>1
  <1>7. CASE FindCommand(a) \/ SnapCommand(a) \/ BranchCommand(a)
    BY <1>2, <1>7 DEF FindCommand, SnapCommand, BranchCommand, Tables
  <1>8. CASE InsertCommand(a)
    <2>1. /\ At(a, "insertCommand") /\ UNCHANGED <<history, forfeited>>
          /\ command = Absent \/ command' = command
      BY <1>8 DEF InsertCommand
    <2>2. PICK n : Becomes(a, n)
      BY <1>8 DEF InsertCommand
    <2> QED BY <1>1, <2>1, <2>2, StillRecoverable
  <1>9. CASE DropCommand(a)
    <2> DEFINE n == Then(o)
    <2>1. /\ At(a, "dropCommand") /\ UNCHANGED history /\ Becomes(a, n)
          /\ forfeited' = forfeited \cup
               (IF o.action # "rollback" /\ o.clean THEN {} ELSE {command} \ {Absent})
      BY <1>9 DEF DropCommand
    <2>2. /\ o \in Requests /\ Good(o) /\ Honest(o, View) /\ o.todo # <<>> /\ o.todo[1] = "dropCommand"
          /\ View.command = command
      BY <2>1, OfRequest
    <2>3. ASSUME NEW v \in stored, v = command, o.action # "rollback", o.clean PROVE About(n, v)
      <3>1. Job(o) = "deleteCommand" /\ o.action = "deleteCommand" /\ o.todo[2] = "record"
        <4>1. Job(o) \in {"deleteCommand", "putBack"} /\ Job(o) = o.action /\ o.action # "putBack"
          BY <2>2, <2>3, JobOf DEF Good, Job, Requests, Requested
        <4>2. Job(o) = "deleteCommand"
          BY <4>1
        <4> QED BY <2>2, <4>1, <4>2, NextOf DEF Good
      <3>2. o.before = View /\ o.detail.content = command
        BY <2>2, <2>3, <3>1 DEF Honest, Unmoved, CommandHonest
      <3>3. n.todo = Tail(o.todo) /\ n.action = o.action /\ n.detail = o.detail /\ n.before = o.before /\ n \in Requests
        BY <2>2, ThenGoesOn
      <3>4. Tail(o.todo) # <<>> /\ Tail(o.todo)[1] = "record"
        BY <2>2, <3>1, NextOf DEF Good
      <3>5. Head(Tail(o.todo)) = "record"
        BY <3>3, <3>4 DEF Requests
      <3> QED BY <2>2, <2>3, <3>1, <3>2, <3>3, <3>4, <3>5 DEF About
    <2>4. ASSUME NEW v \in stored \ {Absent}, v = command PROVE v \in forfeited' \/ About(n, v)
      BY <2>1, <2>3, <2>4
    <2>5. \A v \in stored : ~About(o, v)
      BY <1>1, <2>1
    <2> HIDE DEF n
    <2> QED BY <2>1, <2>4, <2>5, StillRecoverable
  <1>10. CASE Record(a)
    <2>1. /\ At(a, "record") /\ UNCHANGED <<command, forfeited>>
          /\ history' = history \cup {Entry(a)} /\ Becomes(a, Idle)
      BY <1>10 DEF Record, Entry
    <2>2. ASSUME NEW v, About(o, v) PROVE Noted(v)'
      <3>1. Entry(a) \in history' /\ Entry(a).action = "deleteCommand" /\ Entry(a).detail.content = v
        BY <2>1, <2>2 DEF Entry, About
      <3> QED BY <3>1 DEF Noted
    <2> QED BY <2>1, <2>2, StillRecoverable
  <1> QED BY <1>3, <1>4, <1>5, <1>6, <1>7, <1>8, <1>9, <1>10 DEF Statement

LEMMA RecoverableNext ==
  ASSUME GroupsInv, HonestInv, RecoverInv, [NextGroups]_groupVars
  PROVE  RecoverInv'
  <1>1. ASSUME NEW a \in Admins, Request(a) PROVE RecoverInv'
    <2>1. op[a] = Idle /\ UNCHANGED <<command, history, stored, forfeited>>
      BY <1>1, RequestsWriteNothing
    <2>2. PICK o : op' = [op EXCEPT ![a] = o]
      BY <1>1, RequestsWriteNothing
    <2>3. \A b \in Admins : b # a => op'[b] = op[b]
      BY <2>2 DEF GroupsInv
    <2>4. \A v : ~About(op[a], v)
      BY <2>1 DEF About, Idle
    <2> QED BY <2>1, <2>3, <2>4 DEF RecoverInv, Recoverable, Noted
  <1>2. ASSUME NEW a \in Admins, Abort(a) PROVE RecoverInv'
    <2>1. /\ UNCHANGED <<command, history>> /\ Becomes(a, Idle)
          /\ forfeited' = forfeited \cup
               (IF At(a, "record") /\ op[a].action = "deleteCommand" THEN {op[a].before.command} \ {Absent} ELSE {})
      BY <1>2 DEF Abort, Tables
    <2>2. ASSUME NEW v \in stored \ {Absent}, About(op[a], v) PROVE v \in forfeited'
      BY <2>1, <2>2 DEF About, At
    <2> QED BY <2>1, <2>2, StillRecoverable
  <1>3. ASSUME NEW a \in Admins, Skip(a) PROVE RecoverInv'
    <2>1. UNCHANGED <<command, history, forfeited>> /\ \E n : Becomes(a, n)
      BY <1>3 DEF Skip, Tables
    <2>2. \A v : ~About(op[a], v)
      BY <1>3 DEF Skip, About, At
    <2> QED BY <2>1, <2>2, StillRecoverable
  <1>4. ASSUME NEW c \in Files, CreateOrDeleteFile(c) PROVE RecoverInv'
    <2>1. /\ op' = [b \in Admins |-> [op[b] EXCEPT !.clean = FALSE]]
          /\ UNCHANGED <<command, history, stored, forfeited>>
      BY <1>4 DEF CreateOrDeleteFile
    <2>2. ASSUME NEW b \in Admins, NEW v, About(op[b], v) PROVE About(op'[b], v)
      <3>1. op[b] \in Requests /\ Good(op[b]) /\ op'[b] = [op[b] EXCEPT !.clean = FALSE]
        BY <2>1 DEF GroupsInv
      <3>2. SameRequest(op'[b], op[b])
        BY <3>1, SameRequestIsGood
      <3> QED BY <2>2, <3>2 DEF About, SameRequest
    <2> QED BY <2>1, <2>2 DEF RecoverInv, Recoverable, Noted
  <1>5. CASE UNCHANGED groupVars
    BY <1>5 DEF groupVars, RecoverInv, Recoverable, Noted
  <1> QED BY <1>1, <1>2, <1>3, <1>4, <1>5, RecoverableAfterStatement DEF NextGroups

(* A content of the command that is neither there nor given up can be put   *)
(* back: a deletion has noted it, or is about to.                           *)
THEOREM CommandsStay == SpecGroups => []CommandsRecoverable
  <1> DEFINE Inv == GroupsInv /\ HonestInv /\ RecoverInv
  <1>1. InitGroups => Inv
    <2>1. InitGroups => RecoverInv
      BY DEF InitGroups, RecoverInv, Recoverable
    <2> QED BY <2>1, GroupsInit
  <1>2. Inv /\ [NextGroups]_groupVars => Inv'
    BY GroupsNext, RecoverableNext
  <1>3. Inv => CommandsRecoverable
    BY DEF RecoverInv, Recoverable, Noted, About, At, CommandsRecoverable
  <1> HIDE DEF Inv
  <1> QED BY <1>1, <1>2, <1>3, PTL DEF SpecGroups

-----------------------------------------------------------------------------
(* What TLC checks is an instance of both modules: where one moves the     *)
(* other rests, and what is proved of either holds of the two.              *)
THEOREM BothAtOnce == SpecWithin => SpecGroups /\ SpecAccounts
  <1>1. InitWithin => InitGroups /\ InitAccounts
    BY DEF InitWithin
  <1>2. [NextWithin]_<<groupVars, accountVars, focus>> => [NextGroups]_groupVars /\ [NextAccounts]_accountVars
    BY DEF NextWithin
  <1> QED BY <1>1, <1>2, PTL DEF SpecWithin, SpecGroups, SpecAccounts

(* The types of both modules, side by side.                                 *)
THEOREM TypesCorrect == SpecWithin => []TypesOK
  <1>1. GroupsTypeOK /\ AccountsTypeOK => TypesOK
    BY DEF TypesOK
  <1> QED BY <1>1, BothAtOnce, GroupsTypeCorrect, TypeCorrect, PTL

(* A change of a row of groups or of users changes what it is about, unless *)
(* another one got in between.                                              *)
THEOREM ChangesAreKept == SpecWithin => ChangesKept
  BY BothAtOnce, EditsStay, FieldsAreGuarded, PTL DEF ChangesKept
=============================================================================
