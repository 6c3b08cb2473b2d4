---------------------------- MODULE SelectTable ----------------------------
(***************************************************************************)
(* A table whose rows the user selects by mouse or keyboard (assets/js/    *)
(* table-select.js), from the construction of the widget to the value that *)
(* the server is told, with redraws by the server and with scrolling.      *)
(*                                                                         *)
(* A redraw makes a new table and a new widget.  In a scrollable table the *)
(* widget wraps its table in a scroller, which a redraw does not replace:  *)
(* the new widget adds a scroller inside it, and the key handler of the    *)
(* old widget stays attached to the outer one, with the old widget and its *)
(* detached table behind it.  tables holds all widgets that hear keys, the *)
(* one in the page last.                                                   *)
(*                                                                         *)
(* The value in _controlValues and the one passed with gr-rowselected are  *)
(* the same wherever the code sets them.  Focus, aria attributes and the   *)
(* window's own scrolling (a TODO in the code) are left out.               *)
(***************************************************************************)
EXTENDS ScrollIntoView, Sequences, FiniteSets, FiniteSetsExt

CONSTANTS NRows,      \* rows are 1..NRows; row 1 is the header's, if there is one
          Ids,        \* values of data-id
          None,       \* no id
          RowId,      \* the data-id of each row
          NoSel,      \* the rows of class "nosel"
          Edge,       \* where each row ends; Edge[0] is where row 1 begins
          ViewHeight, \* the height of the scroller
          MaxRedraws  \* bound on the redraws by the server

ASSUME ConstantsAssumption ==
  /\ NRows \in Nat \ {0}
  /\ None \notin Ids
  /\ RowId \in [1..NRows -> Ids \cup {None}]
  /\ NoSel \subseteq 1..NRows
  /\ \A r, s \in 1..NRows : r # s /\ RowId[r] = RowId[s] => RowId[r] = None
  /\ \A r \in 1..NRows : RowId[r] = None => r \in NoSel
  /\ Edge \in [0..NRows -> Nat]
  /\ \A r, s \in 0..NRows : r < s => Edge[r] < Edge[s]
  /\ ViewHeight \in Nat
  /\ MaxRedraws \in Nat

VARIABLES
  opts,      \* the options scrollable and reselect, and whether there is a header
  tables,    \* rows of class "selected" and options.selectedId of each widget
  pending,   \* selectedId in _controlValues
  server,    \* the id the server's control has
  html,      \* redrawn tables on their way to the page, with the id they show
  scrollTop, \* of the innermost scroller
  redraws,   \* number of redraws
  astray     \* history: how page and server came to differ, if they did

vars == <<opts, tables, pending, server, html, scrollTop, redraws, astray>>

Rows == IF opts.head THEN 1..NRows ELSE 2..NRows
SameSection(r, s) == opts.head => (r = 1 <=> s = 1)
RowOf(id) == {r \in Rows : RowId[r] = id /\ id # None}
live == tables[Len(tables)]

\* Where row r begins and ends, from the top of the scroller's content.
Start == IF opts.head THEN Edge[0] ELSE Edge[1]
Top(r) == Edge[r - 1] - Start
Bottom(r) == Edge[r] - Start
ScrollHeight == LET h == Bottom(NRows) IN IF h < ViewHeight THEN ViewHeight ELSE h

-----------------------------------------------------------------------------
(* The widget *)

\* The rows of the header are not for selection.  The code unselects only within a
\* section of the table, so that a header with an id could be selected beside a row.
HeaderIsNoSel == 1 \in NoSel

\* Mutant of selectRow: the selected row keeps its class.
selectRowToo(w, r) ==
  IF r \in NoSel THEN w
  ELSE [selected |-> w.selected \cup {r}, selectedId |-> RowId[r]]

(***************************************************************************)
(* _selectRow of a row: the selected row of its section is unselected in   *)
(* any case, and the row is selected unless it is "nosel".                 *)
(***************************************************************************)
selectRow(w, r) ==
  LET others == {s \in w.selected : ~SameSection(r, s)}
  IN IF r \in NoSel
       THEN [w EXCEPT !.selected = others]
       ELSE [selected |-> others \cup {r}, selectedId |-> RowId[r]]

\* The constructor with _initSelectedId, for the selectedId in the html.
newTable(id) ==
  LET w == [selected |-> {}, selectedId |-> id]
  IN IF RowOf(id) = {} THEN w ELSE selectRow(w, CHOOSE r \in RowOf(id) : TRUE)

\* showSelectedItem, with the scroller at position top.
showSelectedItem(w, top) ==
  IF opts.scrollable /\ RowOf(w.selectedId) # {}
    THEN LET r == CHOOSE r \in RowOf(w.selectedId) : TRUE
         IN newScrollTop(top, top + ViewHeight, ScrollHeight, Top(r), Bottom(r))
    ELSE top

Keys == {"up", "down", "home", "end"}

\* Where a key leads from row r: {} at the end of a section.  qs finds the first
\* row, and the first that is the last of its section.
newRow(r, key) ==
  CASE key = "up"   -> {s \in Rows : s = r - 1 /\ SameSection(r, s)}
    [] key = "down" -> {s \in Rows : s = r + 1 /\ SameSection(r, s)}
    [] key = "home" -> {CHOOSE s \in Rows : \A t \in Rows : s <= t}
    [] key = "end"  -> IF opts.head THEN {1} ELSE {NRows}

\* The rows that _handleKeyDown selects in widget w: one, or none when nothing
\* is selected, there is nowhere to go or the new row has the selected id.
keyRows(w, key) ==
  {s \in UNION {newRow(r, key) : r \in RowOf(w.selectedId)} :
     RowId[s] # w.selectedId}

keyed(w, key) ==
  IF keyRows(w, key) = {} THEN w ELSE selectRow(w, CHOOSE r \in keyRows(w, key) : TRUE)

-----------------------------------------------------------------------------
(* The user *)

Init ==
  /\ opts \in [scrollable : BOOLEAN, reselect : BOOLEAN, head : BOOLEAN]
  /\ server \in Ids \cup {None}
  /\ tables = <<newTable(server)>>
  /\ pending = None
  /\ html = None
  /\ scrollTop = showSelectedItem(live, 0)
  /\ redraws = 0
  /\ astray = {}

\* A row the user can see, if only in part.
Visible(r) ==
  opts.scrollable => Top(r) < scrollTop + ViewHeight /\ scrollTop < Bottom(r)

\* _handleRowClick: a click into row r.
Click(r) ==
  /\ Visible(r)
  /\ LET w == selectRow(live, r)
     IN /\ tables' = [tables EXCEPT ![Len(tables)] = w]
        /\ pending' = IF /\ opts.reselect \/ w.selectedId # live.selectedId
                         /\ r \in w.selected
                        THEN w.selectedId ELSE pending
  /\ UNCHANGED <<opts, server, html, scrollTop, redraws, astray>>

\* Mutant of Key: the scroller stays where it is.
KeyInPlace(key) ==
  /\ keyRows(live, key) # {}
  /\ tables' = [i \in 1..Len(tables) |-> keyed(tables[i], key)]
  /\ pending' = keyed(live, key).selectedId
  /\ UNCHANGED <<opts, server, html, scrollTop, redraws, astray>>

\* _handleKeyDown of every widget that hears the key, from the innermost
\* scroller outwards: the outermost widget that selects a row (or fails to, if
\* the row is "nosel") has the last word on what the server is told.
Key(key) ==
  LET tells == {i \in 1..Len(tables) : keyRows(tables[i], key) # {}}
  IN /\ tells # {}
     /\ tables' = [i \in 1..Len(tables) |-> keyed(tables[i], key)]
     /\ pending' = keyed(tables[Min(tells)], key).selectedId
     /\ scrollTop' = IF keyRows(live, key) # {}
                       THEN showSelectedItem(keyed(live, key), scrollTop)
                       ELSE scrollTop
     /\ UNCHANGED <<opts, server, html, redraws, astray>>

UserScrolls ==
  /\ opts.scrollable
  /\ scrollTop' \in 0..(ScrollHeight - ViewHeight)
  /\ UNCHANGED <<opts, tables, pending, server, html, redraws, astray>>

-----------------------------------------------------------------------------
(* The server *)

\* A request carries the pending value to the server.
Post ==
  /\ pending # None
  /\ server' = pending
  /\ pending' = None
  /\ UNCHANGED <<opts, tables, html, scrollTop, redraws, astray>>

\* The server redraws the table, with its own id or another it selects.
ServerRenders(id) ==
  /\ redraws < MaxRedraws
  /\ html = None
  /\ html' = id
  /\ server' = id
  /\ redraws' = redraws + 1
  /\ UNCHANGED <<opts, tables, pending, scrollTop, astray>>

\* The page replaces the table (_processAjax2) and attaches a widget to it.  A
\* selection that the user made before and that the server did not know of when
\* it rendered leaves page and server with different ids.
HtmlArrives ==
  /\ html # None
  /\ tables' = IF opts.scrollable THEN Append(tables, newTable(html))
                                  ELSE <<newTable(html)>>
  /\ scrollTop' = showSelectedItem(newTable(html), 0)
  /\ html' = None
  /\ astray' = IF pending # None \/ server # html THEN astray \cup {"crossed"} ELSE astray
  /\ UNCHANGED <<opts, pending, server, redraws>>

\* The server sets the option selectedId: _setOption calls this._super._setOption,
\* and this._super is the constructor of the base class, which has no such
\* function.  The exception leaves the page as it was.
ServerSetsOption(id) ==
  /\ server # id
  /\ server' = id
  /\ astray' = astray \cup {"option"}
  /\ UNCHANGED <<opts, tables, pending, html, scrollTop, redraws>>

Next ==
  \/ \E r \in Rows : Click(r)
  \/ \E key \in Keys : Key(key)
  \/ UserScrolls
  \/ Post
  \/ \E id \in Ids : ServerRenders(id) \/ ServerSetsOption(id)
  \/ HtmlArrives

Spec == Init /\ [][Next]_vars

-----------------------------------------------------------------------------
(* What must hold *)

Widget == [selected : SUBSET (1..NRows), selectedId : Ids \cup {None}]

TypeOK ==
  /\ opts \in [scrollable : BOOLEAN, reselect : BOOLEAN, head : BOOLEAN]
  /\ tables \in Seq(Widget) /\ tables # <<>>
  /\ {pending, server, html} \subseteq Ids \cup {None}
  /\ scrollTop \in 0..(ScrollHeight - ViewHeight)
  /\ redraws \in 0..MaxRedraws
  /\ astray \subseteq {"crossed", "option"}

\* The id that the server has, or will when the pending value is posted.
told == IF pending # None THEN pending ELSE server

\* What the user sees selected is what the server has been or will be told.
Agrees ==
  /\ \A r \in live.selected : RowId[r] = live.selectedId
  /\ html = None => live.selectedId = told

\* The row on the screen, the widget's option and the server's value agree after
\* any clicks, keys, posts and redraws, "nosel" rows and headers included, as
\* long as no redraw has crossed a selection, no redraw has left an old widget
\* behind, and the server has not set the option.
SelectionAgrees == astray = {} /\ Len(tables) = 1 => Agrees

\* The same after redraws of scrollable tables: the code marks controls as
\* registered "so we don't attach events twice" (goradd.js:469), and an old
\* widget should not answer the keys of its successor.
OldWidgetsAreMute == astray = {} => Agrees

\* The same also if redraws cross selections.
RedrawsAgree == "option" \notin astray /\ Len(tables) = 1 => Agrees

\* The same also if the server sets the option.
OptionsAgree == "crossed" \notin astray /\ Len(tables) = 1 => Agrees

\* A selected row that can be selected is shown as selected.
SelectedIsLit ==
  \A r \in RowOf(live.selectedId) \ NoSel : r \in live.selected

\* A step that moves the selection by key shows the selected row and scrolls no
\* further than it has to.
ShowsSelection ==
  \A r \in RowOf(live'.selectedId) :
    /\ opts.scrollable
    /\ live.selectedId # RowId[r]
    /\ \E key \in Keys : Key(key)
    => IF Fits(ViewHeight, Top(r), Bottom(r))
         THEN JustInView(scrollTop, scrollTop', ViewHeight, ScrollHeight, Top(r), Bottom(r))
         ELSE FillsView(scrollTop', ViewHeight, Top(r), Bottom(r))

\* After a key has moved the selection, the selected row is in view, and the
\* scroller has not moved further than it had to.
KeysShowSelection == [][ShowsSelection]_vars
=============================================================================
