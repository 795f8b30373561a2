------------------------------ MODULE GroupAdmin ----------------------------
(***************************************************************************)
(* The administration of an agent group and of a onetime command, and how  *)
(* it is rolled back: the group and onetime handlers and RollbackConfig of *)
(* internal/server/admin/handler.go, over the tables of                    *)
(* internal/store/gormdb/gormdb.go.                                        *)
(*                                                                         *)
(* A handler is a row of statements, each a transaction of its own; those  *)
(* of other administrators and failures come in between.  A request is     *)
(* what is left of its statements.  One group and one command stand for    *)
(* all: no statement touches two groups or two commands.  IP selector and  *)
(* version constraint are handled alike, "selector" stands for them.       *)
(*                                                                         *)
(* Operators named X_Fault are faulty variants of the operator X below     *)
(* them: no action uses them, they show that the properties can fail.      *)
(***************************************************************************)
EXTENDS Naturals, Sequences

CONSTANTS
  Admins,
  Descriptions, Selectors,  (* contents of the fields of the group's row   *)
  Tags,
  Onetime, Files,           (* configurations: the command and the others  *)
  Contents,                 (* details of the command                      *)
  Blank,                    (* an empty field                              *)
  Absent,                   (* no row                                      *)
  MaxRequests, MaxFailures  (* bounds                                      *)

ASSUME LimitAssumption == MaxRequests \in Nat /\ MaxFailures \in Nat

VARIABLES
  group,      (* agent_groups, agent_group_tags and group_config_mappings  *)
  files,      (* the configurations there are, ...                         *)
  command,    (* ... and the content of the command, if it is there        *)
  history,    (* config_histories; was, now and clean are not in the table *)
  op,         (* the request of each administrator                         *)
  requests, failures,
  stored,     (* history: every content the command has had, Absent when   *)
              (* it was not there                                          *)
  forfeited   (* history: contents that were deleted without being noted   *)

groupVars == <<group, files, command, history, op, requests, failures, stored, forfeited>>

Rows == [description : Descriptions \cup {Blank}, selector : Selectors \cup {Blank}]

ASSUME ContentAssumption == Onetime \notin Files /\ Absent \notin Rows \cup Contents

BlankRow == [description |-> Blank, selector |-> Blank]
NoGroup == [row |-> Absent, tags |-> {}, mapped |-> {}]

(* What a handler writes, and what it notes in the history.                *)
NoDetail == [fields |-> <<>>, tags |-> {}, configs |-> {}, content |-> Absent]

Existing == files \cup (IF command = Absent THEN {} ELSE {Onetime})

(* What a rollback could restore.                                          *)
View == [group |-> group, existing |-> Existing, command |-> command]
NoView == [group |-> NoGroup, existing |-> {}, command |-> Absent]

Idle == [todo |-> <<>>, new |-> NoDetail, action |-> "none", detail |-> NoDetail,
         image |-> Absent, listed |-> {}, undo |-> Absent, before |-> NoView, clean |-> FALSE]

InitGroups ==
  /\ group \in {NoGroup} \cup [row : Rows, tags : SUBSET Tags, mapped : SUBSET (Files \cup {Onetime})]
  /\ files \in SUBSET Files
  /\ command \in Contents \cup {Absent}
  /\ history = {}
  /\ op = [a \in Admins |-> Idle]
  /\ requests = 0
  /\ failures = 0
  /\ stored = {command}
  /\ forfeited = {}

-----------------------------------------------------------------------------
(***************************************************************************)
(* The requests.                                                           *)
(***************************************************************************)
Count == requests < MaxRequests /\ requests' = requests + 1

BeginUndo(a, action, todo, new, e) ==
  /\ op[a] = Idle
  /\ Count
  /\ op' = [op EXCEPT ![a] =
              [Idle EXCEPT !.action = action, !.todo = todo, !.new = new, !.undo = e,
                           !.before = View, !.clean = TRUE]]
  /\ UNCHANGED <<group, files, command, history, failures, stored, forfeited>>

Begin(a, action, todo, new) == BeginUndo(a, action, todo, new, Absent)

CreateGroup(a) ==
  \E r \in Rows : Begin(a, "create", <<"insertRow", "record">>, [NoDetail EXCEPT !.fields = r])

UpdateGroup(a) ==
  \E d \in Descriptions \cup {Blank} :
    Begin(a, "update", <<"readRow", "saveRow", "record">>, [NoDetail EXCEPT !.fields = [description |-> d]])

(* SetGroupIPSelector, DeleteGroupIPSelector and SetGroupVersionConstraint.*)
SetSelector(a) ==
  \E s \in Selectors \cup {Blank} :
    Begin(a, "selector", <<"readRow", "saveRow", "record">>, [NoDetail EXCEPT !.fields = [selector |-> s]])

(* The three reads of the snapshot ignore errors: what fails is blank.     *)
DeleteGroup_Afterwards(a) ==
  Begin(a, "delete", <<"snapRow", "dropGroup", "snapTags", "snapConfigs", "record">>, NoDetail)

DeleteGroup(a) ==
  Begin(a, "delete", <<"snapRow", "snapTags", "snapConfigs", "dropGroup", "record">>, NoDetail)

SetGroupTags(a) ==
  \E t \in SUBSET Tags : Begin(a, "tags", <<"snapTags", "putTags", "record">>, [NoDetail EXCEPT !.tags = t])

AddGroupConfig(a) ==
  \E c \in Files \cup {Onetime} : Begin(a, "add", <<"map", "record">>, [NoDetail EXCEPT !.configs = {c}])

RemoveGroupConfig(a) ==
  \E c \in Files \cup {Onetime} : Begin(a, "remove", <<"unmap", "record">>, [NoDetail EXCEPT !.configs = {c}])

CreateOnetimeCommand(a) ==
  \E v \in Contents :
    Begin(a, "createCommand", <<"findCommand", "insertCommand", "record">>, [NoDetail EXCEPT !.content = v])

DeleteOnetimeCommand(a) ==
  Begin(a, "deleteCommand", <<"snapCommand", "dropCommand", "record">>, NoDetail)

(* RollbackConfig, by the action of the entry.  Entries without a detail   *)
(* are refused, and so are create, update and rollback.                    *)
Undoing(e) ==
  CASE e.action = "selector"       -> <<"readRow", "saveRow", "record">>
    [] e.action = "tags"           -> <<"snapTags", "putTags", "record">>
    [] e.action = "add"            -> <<"unmap", "record">>
    [] e.action = "remove"         -> <<"map", "record">>
    [] e.action = "delete"         -> <<"branch">>
    [] e.action = "deleteCommand"  -> <<"branchCommand">>
    [] OTHER                       -> <<>>

RollbackConfig(a) ==
  \E e \in history :
    /\ Undoing(e) # <<>>
    /\ e.detail.fields # [selector |-> Blank]
    /\ BeginUndo(a, "rollback", Undoing(e), e.detail, e)

(* Pipelines and instances come and go; one that goes loses its mappings.  *)
CreateOrDeleteFile(c) ==
  /\ Count
  /\ files' = (files \ {c}) \cup ({c} \ files)
  /\ group' = [group EXCEPT !.mapped = IF c \in files THEN @ \ {c} ELSE @]
  /\ op' = [b \in Admins |-> [op[b] EXCEPT !.clean = FALSE]]
  /\ UNCHANGED <<command, history, failures, stored, forfeited>>

-----------------------------------------------------------------------------
(***************************************************************************)
(* Their statements.                                                       *)
(***************************************************************************)
At(a, step) == op[a].todo # <<>> /\ Head(op[a].todo) = step

(* The request of a becomes o.  Others are no longer alone when something  *)
(* they may have read or written has changed.                              *)
Becomes(a, o) ==
  /\ UNCHANGED <<files, requests>>
  /\ stored' = stored \cup {command'}
  /\ op' = [b \in Admins |-> IF b = a THEN o ELSE IF View' = View THEN op[b]
                                            ELSE [op[b] EXCEPT !.clean = FALSE]]

Then(o) == [o EXCEPT !.todo = Tail(@)]
Tables == <<group, command, history>>

(* 404 for a group that is not there; the old value is noted, unless it *)
(* is the description.                                                     *)
ReadRow_Unchecked(a) ==
  /\ At(a, "readRow")
  /\ UNCHANGED <<Tables, failures, forfeited>>
  /\ Becomes(a, [Then(op[a]) EXCEPT !.image = group.row])

ReadRow(a) ==
  /\ At(a, "readRow")
  /\ UNCHANGED <<Tables, failures, forfeited>>
  /\ Becomes(a, IF group.row = Absent THEN Idle
                ELSE [Then(op[a]) EXCEPT !.image = group.row,
                        !.detail.fields = IF "selector" \in DOMAIN op[a].new.fields
                                          THEN [selector |-> group.row.selector] ELSE <<>>])

(* Save writes the whole row as it was read, or inserts it again.          *)
Edited(row, fields) == [f \in DOMAIN row |-> IF f \in DOMAIN fields THEN fields[f] ELSE row[f]]

Saved_OnlyEdited(o) == Edited(BlankRow, o.new.fields)
Saved(o) == Edited(o.image, o.new.fields)

SaveRow(a) ==
  /\ At(a, "saveRow")
  /\ UNCHANGED <<command, history, failures, forfeited>>
  /\ group' = [group EXCEPT !.row = Saved(op[a])]
  /\ Becomes(a, Then(op[a]))

(* An error of the database when the group is there already.               *)
InsertRow(a) ==
  /\ At(a, "insertRow")
  /\ UNCHANGED <<command, history, failures, forfeited>>
  /\ IF group.row = Absent
     THEN group' = [group EXCEPT !.row = op[a].new.fields] /\ Becomes(a, Then(op[a]))
     ELSE UNCHANGED group /\ Becomes(a, Idle)

SnapRow(a) ==
  /\ At(a, "snapRow")
  /\ UNCHANGED <<Tables, failures, forfeited>>
  /\ Becomes(a, [Then(op[a]) EXCEPT !.detail.fields = IF group.row = Absent THEN BlankRow ELSE group.row])

SnapTags(a) ==
  /\ At(a, "snapTags")
  /\ UNCHANGED <<Tables, failures, forfeited>>
  /\ Becomes(a, [Then(op[a]) EXCEPT !.detail.tags = group.tags])

(* GetGroupConfigs leaves out what no longer exists.                       *)
SnapConfigs(a) ==
  /\ At(a, "snapConfigs")
  /\ UNCHANGED <<Tables, failures, forfeited>>
  /\ Becomes(a, [Then(op[a]) EXCEPT !.detail.configs = group.mapped \cap Existing])

DropGroup(a) ==
  /\ At(a, "dropGroup")
  /\ UNCHANGED <<command, history, failures, forfeited>>
  /\ group' = NoGroup
  /\ Becomes(a, Then(op[a]))

PutTags(a) ==
  /\ At(a, "putTags")
  /\ UNCHANGED <<command, history, failures, forfeited>>
  /\ group' = [group EXCEPT !.tags = op[a].new.tags]
  /\ Becomes(a, Then(op[a]))

(* Mappings are added or removed one by one; add and remove note theirs.   *)
Rest(o, c) ==
  LET one == [o EXCEPT !.new.configs = @ \ {c}, !.detail.configs = @ \cup {c}]
  IN  IF one.new.configs = {} THEN Then(one) ELSE one

Map(a) ==
  /\ At(a, "map")
  /\ UNCHANGED <<command, history, failures, forfeited>>
  /\ \E c \in op[a].new.configs :
       /\ group' = [group EXCEPT !.mapped = @ \cup {c}]
       /\ Becomes(a, Rest(op[a], c))

Unmap(a) ==
  /\ At(a, "unmap")
  /\ UNCHANGED <<command, history, failures, forfeited>>
  /\ \E c \in op[a].new.configs :
       /\ group' = [group EXCEPT !.mapped = @ \ {c}]
       /\ Becomes(a, Rest(op[a], c))

(* Rollback of a deletion: the group that is there is overridden, its      *)
(* configurations are removed, and tags are set if the snapshot has any.   *)
Recreated(o) ==
  LET tags == IF o.new.tags = {} THEN <<>> ELSE <<"putTags">>
      configs == IF o.new.configs = {} THEN <<>> ELSE <<"map">>
  IN  tags \o configs \o <<"record">>

Overriding(o) == <<"saveRow", "list", "clear">> \o Recreated(o)

Branch(a) ==
  /\ At(a, "branch")
  /\ UNCHANGED <<Tables, failures, forfeited>>
  /\ Becomes(a, [op[a] EXCEPT !.image = group.row, !.detail = op[a].undo.detail,
                   !.todo = IF group.row = Absent THEN <<"insertRow">> \o Recreated(op[a])
                            ELSE Overriding(op[a])])

ListConfigs(a) ==
  /\ At(a, "list")
  /\ UNCHANGED <<Tables, failures, forfeited>>
  /\ Becomes(a, [Then(op[a]) EXCEPT !.listed = group.mapped \cap Existing])

Clear(a) ==
  /\ At(a, "clear")
  /\ UNCHANGED <<command, history, failures, forfeited>>
  /\ IF op[a].listed = {} THEN UNCHANGED group /\ Becomes(a, Then(op[a]))
     ELSE \E c \in op[a].listed :
            /\ group' = [group EXCEPT !.mapped = @ \ {c}]
            /\ Becomes(a, [op[a] EXCEPT !.listed = @ \ {c}])

(* GetOnetimeCommand answers from the caches, or from a query under way:    *)
(* with what there is or with what there was (ConfigCache says how old it   *)
(* may be).  Who is told of something else than what there is, is not clean.*)
Told == stored
Believing(o, seen) == [o EXCEPT !.clean = @ /\ seen = command]

(* A command of that name is a success or a conflict, and no change.       *)
FindCommand(a) ==
  /\ At(a, "findCommand")
  /\ UNCHANGED <<Tables, failures, forfeited>>
  /\ \E seen \in Told : Becomes(a, IF seen = Absent THEN Believing(Then(op[a]), seen) ELSE Idle)

(* The same when somebody else has inserted it meanwhile; the rollback     *)
(* answers with an error.                                                  *)
InsertCommand(a) ==
  /\ At(a, "insertCommand")
  /\ UNCHANGED <<group, history, failures, forfeited>>
  /\ IF command = Absent
     THEN /\ command' = op[a].new.content
          /\ Becomes(a, [Then(op[a]) EXCEPT !.detail.content = IF op[a].action = "rollback" THEN Absent ELSE command'])
     ELSE UNCHANGED command /\ Becomes(a, Idle)

SnapCommand_NoContent(a) ==
  /\ At(a, "snapCommand")
  /\ UNCHANGED <<Tables, failures, forfeited>>
  /\ \E seen \in Told : Becomes(a, IF seen = Absent THEN Idle ELSE Believing(Then(op[a]), seen))

SnapCommand(a) ==
  /\ At(a, "snapCommand")
  /\ UNCHANGED <<Tables, failures, forfeited>>
  /\ \E seen \in Told :
       Becomes(a, IF seen = Absent THEN Idle ELSE [Believing(Then(op[a]), seen) EXCEPT !.detail.content = seen])

(* Its mappings go with it.  A rollback notes nothing, and what is not what *)
(* was read, from a cache or before others put it there, is not noted.     *)
DropCommand(a) ==
  /\ At(a, "dropCommand")
  /\ UNCHANGED <<history, failures>>
  /\ command' = Absent
  /\ group' = [group EXCEPT !.mapped = @ \ {Onetime}]
  /\ forfeited' = forfeited \cup
       (IF op[a].action # "rollback" /\ op[a].clean THEN {} ELSE {command} \ {Absent})
  /\ Becomes(a, Then(op[a]))

BranchCommand(a) ==
  /\ At(a, "branchCommand")
  /\ UNCHANGED <<Tables, failures, forfeited>>
  /\ \E seen \in Told :
       Becomes(a, [op[a] EXCEPT !.todo = (IF seen = Absent THEN <<>> ELSE <<"dropCommand">>)
                                          \o <<"insertCommand", "record">>])

Record(a) ==
  /\ At(a, "record")
  /\ UNCHANGED <<group, command, failures, forfeited>>
  /\ history' = history \cup {[action |-> op[a].action, detail |-> op[a].detail,
                               was |-> op[a].before, now |-> View, clean |-> op[a].clean]}
  /\ Becomes(a, Idle)

-----------------------------------------------------------------------------
(***************************************************************************)
(* Failures of the database, and processes that stop.                      *)
(***************************************************************************)
Fail == failures < MaxFailures /\ failures' = failures + 1

(* The request ends in the middle, or its history entry is not written,    *)
(* which is only logged.                                                   *)
Abort(a) ==
  /\ op[a] # Idle
  /\ UNCHANGED Tables
  /\ Fail
  /\ forfeited' = forfeited \cup
       (IF At(a, "record") /\ op[a].action = "deleteCommand" THEN {op[a].before.command} \ {Absent} ELSE {})
  /\ Becomes(a, Idle)

(* Errors that are ignored: the snapshot is blank, mappings stay or are    *)
(* missing after the rollback of a deletion.                               *)
Skip(a) ==
  /\ Fail
  /\ UNCHANGED <<Tables, forfeited>>
  /\ \/ /\ At(a, "snapRow")
        /\ Becomes(a, [Then(op[a]) EXCEPT !.detail.fields = BlankRow, !.clean = FALSE])
     \/ /\ \E step \in {"snapTags", "snapConfigs", "list"} : At(a, step)
        /\ Becomes(a, [Then(op[a]) EXCEPT !.clean = FALSE])
     \/ /\ At(a, "clear")
        /\ \E c \in op[a].listed : Becomes(a, [op[a] EXCEPT !.listed = @ \ {c}, !.clean = FALSE])
     \/ /\ At(a, "map") /\ op[a].action = "rollback" /\ op[a].undo.action = "delete"
        /\ \E c \in op[a].new.configs : Becomes(a, [Rest(op[a], c) EXCEPT !.clean = FALSE])

Request(a) ==
  \/ CreateGroup(a) \/ UpdateGroup(a) \/ SetSelector(a) \/ DeleteGroup(a) \/ SetGroupTags(a)
  \/ AddGroupConfig(a) \/ RemoveGroupConfig(a)
  \/ CreateOnetimeCommand(a) \/ DeleteOnetimeCommand(a) \/ RollbackConfig(a)

Statement(a) ==
  \/ ReadRow(a) \/ SaveRow(a) \/ InsertRow(a) \/ SnapRow(a) \/ SnapTags(a) \/ SnapConfigs(a)
  \/ DropGroup(a) \/ PutTags(a) \/ Map(a) \/ Unmap(a) \/ Branch(a) \/ ListConfigs(a) \/ Clear(a)
  \/ FindCommand(a) \/ InsertCommand(a) \/ SnapCommand(a) \/ DropCommand(a) \/ BranchCommand(a)
  \/ Record(a)

NextGroups ==
  \/ \E a \in Admins : Request(a) \/ Statement(a) \/ Abort(a) \/ Skip(a)
  \/ \E c \in Files : CreateOrDeleteFile(c)

SpecGroups == InitGroups /\ [][NextGroups]_groupVars

-----------------------------------------------------------------------------
(***************************************************************************)
(* Properties                                                              *)
(***************************************************************************)
GroupsTypeOK ==
  /\ group.row \in Rows \cup {Absent} /\ group.tags \subseteq Tags
  /\ group.mapped \subseteq Files \cup {Onetime}
  /\ files \subseteq Files /\ command \in Contents \cup {Absent}
  /\ command \in stored /\ stored \subseteq Contents \cup {Absent} /\ forfeited \subseteq stored \ {Absent}
  /\ \A a \in Admins :
       /\ op[a].image \in Rows \cup {Absent} /\ op[a].listed \subseteq Files \cup {Onetime}
       /\ op[a].todo # <<>> => op[a].action # "none"
       /\ At(a, "saveRow") => op[a].image # Absent /\ DOMAIN op[a].new.fields # {}
  /\ requests \in 0..MaxRequests /\ failures \in 0..MaxFailures

(* A field of a group changes only by a request that is about it, even     *)
(* though every request writes the whole row, and a group that is gone     *)
(* returns only by a request that creates it: unless others have changed   *)
(* the row since the request read it.                                      *)
EditsKept ==
  [][\A f \in DOMAIN BlankRow :
       LET old == group.row  new == group'.row
       IN  new \notin {old, Absent} /\ (old = Absent \/ new[f] # old[f]) =>
             \E a \in Admins :
               /\ op'[a] # op[a]
               /\ At(a, "insertRow") \/ op[a].image # old \/ f \in DOMAIN op[a].new.fields]_groupVars

(* What the rollback of e makes of the view was, and what it cannot make   *)
(* good: a deletion is restored whatever is there now, but for tags when   *)
(* there were none and for mappings nobody sees; the rest is restored if   *)
(* nothing has happened since.                                             *)
Restored(e, was, is) ==
  IF e.action = "delete"
  THEN LET visible == e.was.group.mapped \cap e.was.existing
           hidden == IF was.group.row = Absent THEN was.group.mapped ELSE was.group.mapped \ was.existing
       IN  /\ is.group.row = IF e.was.group.row = Absent THEN BlankRow ELSE e.was.group.row
           /\ is.group.tags = IF e.was.group.tags = {} THEN was.group.tags ELSE e.was.group.tags
           /\ is.group.mapped = visible \cup hidden
  ELSE IF e.action = "deleteCommand" THEN is.command = e.was.command
  ELSE was.group = e.now.group /\ e.was.group # e.now.group => is.group = e.was.group

(* A rollback that nobody interferes with undoes a request that nobody     *)
(* interfered with and no cache misled, over several statements on three   *)
(* tables.                                                                 *)
UndoRestores ==
  \A a \in Admins :
    At(a, "record") /\ op[a].action = "rollback" /\ op[a].clean /\ op[a].undo.clean =>
      Restored(op[a].undo, op[a].before, View)

(* No content of a onetime command is lost: it is there, or a deletion     *)
(* that can be rolled back has it in the history or is about to.  What     *)
(* rollbacks override is lost, and so is what a deletion did not know of:  *)
(* what another administrator put there while it ran, and what is there    *)
(* when a cache still has an earlier content, which is noted in its place. *)
CommandsRecoverable ==
  \A v \in stored \ {Absent} :
    \/ v \in {command} \cup forfeited
    \/ \E e \in history : e.action = "deleteCommand" /\ e.detail.content = v
    \/ \E a \in Admins : At(a, "record") /\ op[a].action = "deleteCommand" /\ op[a].detail.content = v
=============================================================================
