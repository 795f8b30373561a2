-------------------------- MODULE MC_Administration -------------------------
(* A model-checking instance of GroupAdmin and of Accounts, which share     *)
(* nothing: focus says which handlers are called, the other module rests.   *)
EXTENDS GroupAdmin, Accounts, FiniteSets, TLC

CONSTANT Foci   (* the parts to look at                                     *)
VARIABLE focus

OfGroups == {"row", "tags", "links", "onetime", "serial"}
OfAccounts == {"tokens", "codes", "roles"}

Handlers ==
  [row     |-> {"create", "update", "selector", "delete"},
   tags    |-> {"tags", "delete"},
   links   |-> {"add", "remove", "delete"},
   onetime |-> {"createCommand", "deleteCommand", "add"},
   serial  |-> {"create", "delete", "tags", "add"},
   tokens  |-> {"init", "login", "code", "logout", "forgot", "reset"},
   codes   |-> {"change", "setup", "enable", "disable", "email", "delete", "assign"},
   roles   |-> {"create", "delete", "role", "assign"}]

WithinBounds ==
  /\ focus \in OfGroups =>
       /\ \A a \in Admins : op[a].action \in Handlers[focus] \cup {"rollback", "none"}
       /\ IF focus = "serial" THEN failures = 0 /\ Cardinality({a \in Admins : op[a].todo # <<>>}) <= 1
          ELSE requests < MaxRequests
       /\ focus \in {"row", "tags", "onetime"} => files = {}
  /\ focus \in OfAccounts =>
       /\ \A c \in Callers : call[c].action \in Handlers[focus] \cup {"none"}
       /\ focus = "codes" => calls < MaxCalls

FullRow == [description |-> CHOOSE d \in Descriptions : TRUE, selector |-> CHOOSE s \in Selectors : TRUE]

NothingHere == group = NoGroup /\ files = {} /\ command = Absent
NobodyHere == user = NoUser /\ roles = {} /\ kind = "user"

InitWithin ==
  /\ InitGroups /\ InitAccounts /\ focus \in Foci
  /\ focus \in OfGroups => NobodyHere
  /\ focus \in OfAccounts => NothingHere
  /\ focus \in {"row", "tags", "onetime"} => files = {}
  /\ focus \in {"links", "serial"} => files = Files
  /\ focus = "row" => group \in {NoGroup, [NoGroup EXCEPT !.row = FullRow]} /\ command = Absent
  /\ focus = "tags" => group.row = BlankRow /\ group.mapped \subseteq {Onetime} /\ command = Absent
  /\ focus = "links" => group.row = BlankRow /\ group.tags = Tags /\ command # Absent
  /\ focus = "onetime" => group.row = BlankRow /\ group.tags = {} /\ group.mapped \subseteq {Onetime}
  /\ focus = "serial" => (group = NoGroup \/ (group.row = BlankRow /\ group.tags = Tags)) /\ command = Absent
  /\ focus = "tokens" => roles = {} /\ sessions = {} /\ (user # NoUser => user.secret = 0 \/ user.otp)
  /\ focus = "codes" => roles = {} /\ (user # NoUser => ~user.email)
  /\ focus = "roles" => sessions = {} /\ (user # NoUser => ~user.email /\ user.secret = 0)

NextWithin ==
  /\ \/ focus \in OfGroups /\ NextGroups /\ UNCHANGED accountVars
     \/ focus \in OfAccounts /\ NextAccounts /\ UNCHANGED groupVars
  /\ UNCHANGED focus
  /\ WithinBounds'

SpecWithin == InitWithin /\ [][NextWithin]_<<groupVars, accountVars, focus>>

(* The types of both modules.                                              *)
TypesOK == GroupsTypeOK /\ AccountsTypeOK

(* What a change of a row of groups or of users may change.                *)
ChangesKept == EditsKept /\ FieldsGuarded

Symmetry == Permutations(Admins) \cup Permutations(Contents) \cup Permutations(Callers)
            \cup Permutations(Passwords)
=============================================================================
