----------------------------- MODULE SavedViews -----------------------------
(***************************************************************************)
(* The saved reporting views of one user in one workspace (saved-views.js):*)
(* one transaction per request, whose statements interleave with those of  *)
(* other requests, under the row locks of PostgreSQL and the two unique    *)
(* indexes, on the name and on the default view of a user.                 *)
(*                                                                         *)
(* Dates, filters, section and widgets are one content that no statement   *)
(* compares; they are left out, as are the schedules that a deleted view   *)
(* takes along.  Names are numbers; a copy has the next free one.          *)
(***************************************************************************)
EXTENDS Naturals

CONSTANTS
    Views,      \* ids of rows
    Editors,    \* requests that may be under way at once
    NoView,     \* no row
    MaxName     \* bound of the model: names

ASSUME SavedViewsAssumption == NoView \notin Views /\ MaxName \in Nat \ {0}

VARIABLES
    views,      \* views[v]: the committed row
    editor,     \* editor[e]: a request and its transaction
    chosen      \* history: the view that a committed request made the default last

viewVars == <<views, editor, chosen>>

-----------------------------------------------------------------------------
NoName == 0   \* no row, or a PATCH without a name

Names == 1 .. MaxName

Row == [name: Names \cup {NoName}, default: BOOLEAN]

NoRow == [name |-> NoName, default |-> FALSE]

Editor ==
    [op: {"none", "create", "update"},
     at: {"begun", "clearing", "cleared", "written"},
     view: Views \cup {NoView}, name: Names \cup {NoName},
     default: {"on", "off", "kept"},
     targets: SUBSET Views,    \* the defaults in the snapshot of clearDefault
     cleared: SUBSET Views]    \* the rows that clearDefault has written

NoEditor == [op |-> "none", at |-> "begun", view |-> NoView, name |-> NoName,
             default |-> "kept", targets |-> {}, cleared |-> {}]

SavedViewsTypeOK ==
    /\ views \in [Views -> Row]
    /\ editor \in [Editors -> Editor]
    /\ chosen \in Views \cup {NoView}

SavedViewsInit ==
    /\ views = [v \in Views |-> NoRow]
    /\ editor = [e \in Editors |-> NoEditor]
    /\ chosen = NoView

Saved(v) == views[v].name # NoName

\* A transaction that has written a row holds its lock until it ends.
Holds(e, v) ==
    \/ v \in editor[e].cleared
    \/ editor[e].at = "written" /\ editor[e].view = v

\* Another transaction has written the row and not ended.
Held(v, e) == \E other \in Editors \ {e} : Holds(other, v)

-----------------------------------------------------------------------------
(* Requests                                                                *)

\* Only a request for a default view calls clearDefault.
Begin(e, op, v, name, default) ==
    /\ editor[e] = NoEditor
    /\ editor' = [editor EXCEPT ![e] =
          [op |-> op, at |-> IF default = "on" THEN "begun" ELSE "cleared", view |-> v,
           name |-> name, default |-> default, targets |-> {}, cleared |-> {}]]
    /\ UNCHANGED <<views, chosen>>

\* A row under way has its id already.
Unused(v) == ~Saved(v) /\ \A e \in Editors : editor[e].op = "create" => editor[e].view # v

\* POST saved-views.
CreateView(e, v, name, default) ==
    /\ Unused(v)
    /\ Begin(e, "create", v, name, default)

\* PATCH saved-views/:viewId, which may be gone.
UpdateView(e, v, name, default) ==
    /\ name # NoName \/ default # "kept"
    /\ Begin(e, "update", v, name, default)

\* POST saved-views/:viewId/duplicate: the source and the names are read, and the
\* first free name is taken.
DuplicateView(e, source, v) ==
    /\ Saved(source) /\ Unused(v)
    /\ \E name \in Names :
          /\ name > views[source].name
          /\ \A u \in Views : views[u].name # name
          /\ \A n \in Names : n > views[source].name /\ n < name => \E u \in Views : views[u].name = n
          /\ Begin(e, "create", v, name, "off")

\* DELETE saved-views/:viewId, one statement.
DeleteView(v) ==
    /\ Saved(v) /\ \A e \in Editors : ~Holds(e, v)
    /\ views' = [views EXCEPT ![v] = NoRow]
    /\ chosen' = IF chosen = v THEN NoView ELSE chosen
    /\ UNCHANGED editor

-----------------------------------------------------------------------------
(* Statements of a transaction                                             *)

\* clearDefault takes its snapshot ...
FindDefault(e) ==
    /\ editor[e].op # "none" /\ editor[e].at = "begun"
    /\ editor' = [editor EXCEPT ![e].at = "clearing",
                    ![e].targets = {v \in Views \ {editor[e].view} : views[v].default}]
    /\ UNCHANGED <<views, chosen>>

\* ... and writes the rows of it that are still default ones when it has their
\* locks; a row that has become the default meanwhile is not among them.
ClearDefault(e) ==
    /\ editor[e].at = "clearing"
    /\ \A v \in editor[e].targets : ~Held(v, e)
    /\ editor' = [editor EXCEPT ![e].at = "cleared", ![e].targets = {},
                    ![e].cleared = {v \in editor[e].targets : views[v].default}]
    /\ UNCHANGED <<views, chosen>>

\* The row of another view stands in the way of the unique indexes.
Clashes(e, v, row) ==
    /\ v # editor[e].view
    /\ \/ row.name # NoName /\ row.name = editor[e].name
       \/ row.default /\ editor[e].default = "on" /\ v \notin editor[e].cleared

\* The row that a transaction has written.
Written(e) ==
    [name |-> IF editor[e].name = NoName THEN views[editor[e].view].name ELSE editor[e].name,
     default |-> CASE editor[e].default = "on" -> TRUE
                   [] editor[e].default = "off" -> FALSE
                   [] editor[e].default = "kept" -> views[editor[e].view].default]

\* INSERT and UPDATE wait for the end of a transaction that has written their row
\* or one that clashes.
MustWait(e) ==
    \/ Held(editor[e].view, e)
    \/ \E v \in Views : Held(v, e) /\ Clashes(e, v, views[v])
    \/ \E other \in Editors \ {e} :
          editor[other].at = "written" /\ Clashes(e, editor[other].view, Written(other))

\* Faulty variant of RolledBack: clearDefault runs outside the transaction.
OnlyWriteRolledBack(e) ==
    [v \in Views |-> IF v \in editor[e].cleared THEN [views[v] EXCEPT !.default = FALSE] ELSE views[v]]

RolledBack(e) == views

EditorEnds(e) == editor' = [editor EXCEPT ![e] = NoEditor]

WriteView(e) ==
    /\ editor[e].op # "none" /\ editor[e].at = "cleared"
    /\ ~MustWait(e)
    /\ \A v \in Views : ~Clashes(e, v, views[v])
    /\ editor[e].op = "update" => Saved(editor[e].view)
    /\ editor' = [editor EXCEPT ![e].at = "written"]
    /\ UNCHANGED <<views, chosen>>

\* A view that is gone or a clash, or the API process or its connection dies.
TransactionFails(e) ==
    /\ editor[e].op # "none"
    /\ views' = RolledBack(e)
    /\ EditorEnds(e)
    /\ UNCHANGED chosen

CommitView(e) ==
    /\ editor[e].at = "written"
    /\ views' = [v \in Views |->
          IF v = editor[e].view THEN Written(e)
          ELSE IF v \in editor[e].cleared THEN [views[v] EXCEPT !.default = FALSE]
          ELSE views[v]]
    /\ chosen' = CASE editor[e].default = "on" -> editor[e].view
                   [] editor[e].default = "off" /\ chosen = editor[e].view -> NoView
                   [] OTHER -> chosen
    /\ EditorEnds(e)

ViewsNext ==
    \/ \E e \in Editors :
          \/ \E v \in Views, name \in Names, default \in {"on", "off"} :
                CreateView(e, v, name, default)
          \/ \E v \in Views, name \in Names \cup {NoName}, default \in {"on", "off", "kept"} :
                UpdateView(e, v, name, default)
          \/ \E source, v \in Views : DuplicateView(e, source, v)
          \/ FindDefault(e) \/ ClearDefault(e) \/ WriteView(e)
          \/ TransactionFails(e) \/ CommitView(e)
    \/ \E v \in Views : DeleteView(v)

ViewsSpec == SavedViewsInit /\ [][ViewsNext]_viewVars

-----------------------------------------------------------------------------
(* Properties                                                              *)

\* The default view is the one that was chosen last, until that one is deleted or
\* unset: no request that fails, is refused or finds its view gone leaves the user
\* without a default, and no two that run at once leave two.  Views keep different
\* names.
DefaultStands ==
    /\ {v \in Views : views[v].default} = IF chosen = NoView THEN {} ELSE {chosen}
    /\ \A v, u \in Views : v # u /\ Saved(v) => views[v].name # views[u].name
=============================================================================
