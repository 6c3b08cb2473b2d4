------------------------- MODULE SelectTableProofs -------------------------
(***************************************************************************)
(* For any table, whatever its rows and their sizes: the selected row, the *)
(* widget's option and what the server is told agree, and the keys keep    *)
(* the selected row in view.                                               *)
(*                                                                         *)
(* Every widget has the class "selected" on rows of its option's id only   *)
(* (Marks), also an old one that still hears keys, and only a step that    *)
(* tells the server changes the option of the widget in the page (Agreed). *)
(***************************************************************************)
EXTENDS SelectTable, WellFoundedInduction, SequenceTheorems, TLAPS

-----------------------------------------------------------------------------
(* Scrolling: _newScrollTop does what its comment says, for every geometry *)

\* "If the item is in view, it will return the viewTop ... Otherwise ... a new
\* viewTop such that the item will just be in view" (goradd-scrollIntoView.js:9):
\* so for every item that fits into the view.
THEOREM ScrollsJustIntoView ==
  ASSUME NEW old \in Nat, NEW viewHeight \in Nat, NEW scrollHeight \in Nat,
         NEW itemTop \in Nat, NEW itemBottom \in Nat,
         old + viewHeight <= scrollHeight,
         itemTop <= itemBottom, itemBottom <= scrollHeight,
         Fits(viewHeight, itemTop, itemBottom)
  PROVE  JustInView(old, newScrollTop(old, old + viewHeight, scrollHeight, itemTop, itemBottom),
                    viewHeight, scrollHeight, itemTop, itemBottom)
<1> DEFINE new == newScrollTop(old, old + viewHeight, scrollHeight, itemTop, itemBottom)
<1>1. /\ new \in Int
      /\ CASE old <= itemTop /\ itemBottom <= old + viewHeight -> new = old
           [] itemTop < old -> new = itemTop
           [] OTHER -> new = itemBottom - viewHeight
  BY DEF newScrollTop, NotNegative, Fits
<1>2. CASE old <= itemTop /\ itemBottom <= old + viewHeight
  BY <1>1, <1>2 DEF JustInView, InView, Distance
<1>3. CASE itemTop < old
  BY <1>1, <1>3 DEF JustInView, InView, Distance, Fits
<1>4. CASE old <= itemTop /\ old + viewHeight < itemBottom
  BY <1>1, <1>4 DEF JustInView, InView, Distance, Fits
<1> QED
  BY <1>2, <1>3, <1>4

\* "item is bigger than view" (goradd-scrollIntoView.js:35): then it fills the
\* view, with its top at the top of the view if the view has to move.
THEOREM LargeItemsFillTheView ==
  ASSUME NEW old \in Nat, NEW viewHeight \in Nat, NEW scrollHeight \in Nat,
         NEW itemTop \in Nat, NEW itemBottom \in Nat,
         old + viewHeight <= scrollHeight,
         itemTop <= itemBottom, itemBottom <= scrollHeight,
         ~ Fits(viewHeight, itemTop, itemBottom)
  PROVE  LET new == newScrollTop(old, old + viewHeight, scrollHeight, itemTop, itemBottom)
         IN /\ FillsView(new, viewHeight, itemTop, itemBottom)
            /\ new = old \/ new = itemTop
BY DEF newScrollTop, NotNegative, Fits, FillsView

-----------------------------------------------------------------------------
(* The geometry of the table *)

Options == [scrollable : BOOLEAN, reselect : BOOLEAN, head : BOOLEAN]

\* Rows lie within the content of the scroller, which fills the view.
LEMMA Geometry ==
  ASSUME opts \in Options
  PROVE  /\ ScrollHeight \in Nat /\ ViewHeight \in Nat /\ ViewHeight <= ScrollHeight
         /\ \A r \in Rows : /\ r \in 1..NRows
                            /\ Top(r) \in Nat /\ Bottom(r) \in Nat
                            /\ Top(r) <= Bottom(r) /\ Bottom(r) <= ScrollHeight
<1>1. /\ NRows \in Nat \ {0} /\ ViewHeight \in Nat
      /\ Edge \in [0..NRows -> Nat]
      /\ \A r, s \in 0..NRows : r < s => Edge[r] < Edge[s]
  BY ConstantsAssumption
<1>2. Bottom(NRows) \in Nat
  BY <1>1 DEF Bottom, Start
<1>3. ScrollHeight \in Nat /\ ViewHeight <= ScrollHeight /\ Bottom(NRows) <= ScrollHeight
  BY <1>1, <1>2 DEF ScrollHeight
<1>4. ASSUME NEW r \in Rows
      PROVE  /\ r \in 1..NRows
             /\ Top(r) \in Nat /\ Bottom(r) \in Nat
             /\ Top(r) <= Bottom(r) /\ Bottom(r) <= ScrollHeight
  <2>1. r \in 1..NRows /\ r - 1 \in 0..NRows /\ r - 1 < r /\ (~ opts.head => r - 1 >= 1)
    BY <1>1 DEF Rows
  <2>2. Start \in Nat /\ Start <= Edge[r - 1] /\ Edge[r - 1] < Edge[r]
    <3>1. PICK h \in {0, 1} : Start = Edge[h] /\ h <= r - 1
      BY <2>1 DEF Start
    <3>2. h = r - 1 \/ Edge[h] < Edge[r - 1]
      BY <1>1, <2>1, <3>1
    <3> QED
      BY <1>1, <2>1, <3>1, <3>2
  <2>3. Edge[r] <= Edge[NRows]
    BY <1>1, <2>1
  <2>4. Top(r) \in Nat /\ Bottom(r) \in Nat /\ Top(r) <= Bottom(r) /\ Bottom(r) <= Bottom(NRows)
    BY <1>1, <2>1, <2>2, <2>3 DEF Top, Bottom
  <2> QED
    BY <1>2, <1>3, <2>1, <2>4
<1> QED
  BY <1>1, <1>3, <1>4

Positions == 0..(ScrollHeight - ViewHeight)

\* Showing a row moves the scroller to one of its positions.
LEMMA ShowsRow ==
  ASSUME opts \in Options, NEW top \in Positions, NEW r \in Rows
  PROVE  LET new == newScrollTop(top, top + ViewHeight, ScrollHeight, Top(r), Bottom(r))
         IN /\ new \in Positions
            /\ IF Fits(ViewHeight, Top(r), Bottom(r))
                 THEN JustInView(top, new, ViewHeight, ScrollHeight, Top(r), Bottom(r))
                 ELSE FillsView(new, ViewHeight, Top(r), Bottom(r))
<1> DEFINE new == newScrollTop(top, top + ViewHeight, ScrollHeight, Top(r), Bottom(r))
<1>1. /\ top \in Nat /\ ScrollHeight \in Nat /\ ViewHeight \in Nat
      /\ top + ViewHeight <= ScrollHeight
      /\ Top(r) \in Nat /\ Bottom(r) \in Nat
      /\ Top(r) <= Bottom(r) /\ Bottom(r) <= ScrollHeight
  BY Geometry DEF Positions
<1>2. CASE Fits(ViewHeight, Top(r), Bottom(r))
  <2>1. JustInView(top, new, ViewHeight, ScrollHeight, Top(r), Bottom(r))
    BY <1>1, <1>2, ScrollsJustIntoView
  <2> QED
    BY <1>2, <2>1 DEF JustInView, Positions
<1>3. CASE ~ Fits(ViewHeight, Top(r), Bottom(r))
  <2>1. FillsView(new, ViewHeight, Top(r), Bottom(r)) /\ (new = top \/ new = Top(r))
    BY <1>1, <1>3, LargeItemsFillTheView
  <2>2. new \in Positions
    BY <1>1, <1>3, <2>1 DEF Positions, Fits
  <2> QED
    BY <1>3, <2>1, <2>2
<1> QED
  BY <1>2, <1>3

\* No two rows have the same id.
LEMMA OneRow ==
  ASSUME opts \in Options, NEW id
  PROVE  \A r, s \in RowOf(id) : r = s /\ r \in Rows /\ RowId[r] = id /\ id # None
<1>1. \A r \in Rows : r \in 1..NRows
  BY Geometry
<1> QED
  BY <1>1, ConstantsAssumption DEF RowOf

\* showSelectedItem moves the scroller to one of its positions.
LEMMA ShowsSelected ==
  ASSUME opts \in Options, NEW top \in Positions, NEW w \in Widget
  PROVE  showSelectedItem(w, top) \in Positions
<1>1. CASE opts.scrollable /\ RowOf(w.selectedId) # {}
  <2> DEFINE r == CHOOSE r \in RowOf(w.selectedId) : TRUE
  <2>1. r \in Rows
    BY <1>1, OneRow
  <2> HIDE DEF r
  <2>2. newScrollTop(top, top + ViewHeight, ScrollHeight, Top(r), Bottom(r)) \in Positions
    BY <2>1, ShowsRow
  <2> QED
    BY <1>1, <2>2 DEF showSelectedItem, r
<1>2. CASE ~ (opts.scrollable /\ RowOf(w.selectedId) # {})
  BY <1>2 DEF showSelectedItem
<1> QED
  BY <1>1, <1>2

-----------------------------------------------------------------------------
(* The widget *)

\* The rows shown as selected are those of the widget's option.
Marked(w) == \A r \in w.selected : r \in Rows \ NoSel /\ RowId[r] = w.selectedId

\* A row that can be selected has an id.
LEMMA RowIds ==
  ASSUME opts \in Options, NEW r \in Rows
  PROVE  r \in 1..NRows /\ RowId[r] \in Ids \cup {None} /\ (r \notin NoSel => RowId[r] # None)
BY Geometry, ConstantsAssumption

\* _selectRow keeps the type of the widget and selects the row, if it can be.
LEMMA SelectTyped ==
  ASSUME opts \in Options, NEW w \in Widget, NEW r \in Rows
  PROVE  /\ selectRow(w, r) \in Widget
         /\ selectRow(w, r).selectedId = IF r \in NoSel THEN w.selectedId ELSE RowId[r]
         /\ r \in NoSel => r \notin selectRow(w, r).selected
BY RowIds DEF selectRow, Widget, SameSection

\* With a header that is not selectable it leaves one row selected, at most.
LEMMA SelectMarks ==
  ASSUME HeaderIsNoSel, opts \in Options, NEW w \in Widget, Marked(w), NEW r \in Rows
  PROVE  Marked(selectRow(w, r))
<1>1. r \in 1..NRows
  BY RowIds
<1>2. CASE r \in NoSel
  BY <1>2 DEF selectRow, Marked, Widget
<1>3. CASE r \notin NoSel
  <2>1. \A s \in w.selected : SameSection(r, s)
    BY <1>3 DEF Marked, SameSection, HeaderIsNoSel
  <2>2. selectRow(w, r) = [selected |-> {r}, selectedId |-> RowId[r]]
    BY <1>3, <2>1 DEF selectRow
  <2> QED
    BY <1>3, <2>2 DEF Marked
<1> QED
  BY <1>2, <1>3

\* A new widget has the id that came with the table.
LEMMA NewTyped ==
  ASSUME opts \in Options, NEW id \in Ids \cup {None}
  PROVE  newTable(id) \in Widget /\ newTable(id).selectedId = id
<1> DEFINE w == [selected |-> {}, selectedId |-> id]
<1>1. w \in Widget /\ w.selectedId = id
  BY DEF Widget
<1>2. CASE RowOf(id) = {}
  BY <1>1, <1>2 DEF newTable
<1>3. CASE RowOf(id) # {}
  <2> DEFINE r == CHOOSE r \in RowOf(id) : TRUE
  <2>1. r \in Rows /\ RowId[r] = id
    BY <1>3, OneRow
  <2>2. newTable(id) = selectRow(w, r)
    BY <1>3 DEF newTable
  <2> HIDE DEF r, w
  <2> QED
    BY <1>1, <2>1, <2>2, SelectTyped
<1> QED
  BY <1>2, <1>3

\* A new widget shows as selected no row but those of its option's id.
LEMMA NewMarks ==
  ASSUME opts \in Options, NEW id \in Ids \cup {None}
  PROVE  Marked(newTable(id))
<1> DEFINE w == [selected |-> {}, selectedId |-> id]
<1>1. CASE RowOf(id) = {}
  BY <1>1 DEF newTable, Marked
<1>2. CASE RowOf(id) # {}
  <2> DEFINE r == CHOOSE r \in RowOf(id) : TRUE
  <2>1. r \in Rows /\ RowId[r] = id
    BY <1>2, OneRow
  <2>2. newTable(id) = selectRow(w, r)
    BY <1>2 DEF newTable
  <2> HIDE DEF r
  <2>3. selectRow(w, r).selected = IF r \in NoSel THEN {} ELSE {r}
    BY DEF selectRow
  <2>4. selectRow(w, r).selectedId = id
    BY <2>1 DEF selectRow
  <2> QED
    BY <2>1, <2>2, <2>3, <2>4 DEF Marked
<1> QED
  BY <1>1, <1>2

\* A key selects rows of the table.
LEMMA KeyRows ==
  ASSUME opts \in Options, NEW w \in Widget, NEW key \in Keys
  PROVE  \A s \in keyRows(w, key) : s \in Rows /\ w.selectedId # None
<1> SUFFICES ASSUME NEW s \in keyRows(w, key) PROVE s \in Rows /\ w.selectedId # None
  OBVIOUS
<1>1. PICK r \in RowOf(w.selectedId) : s \in newRow(r, key)
  BY DEF keyRows
<1>2. r \in Rows /\ w.selectedId # None
  BY <1>1, OneRow
<1>3. r \in 1..NRows /\ NRows \in Nat \ {0}
  BY <1>2, RowIds, ConstantsAssumption
<1>4. s \in Rows
  <2>1. CASE key \in {"up", "down"}
    BY <1>1, <2>1 DEF newRow
  <2>2. CASE key = "home"
    <3>1. \E m \in Rows : \A t \in Rows : m <= t
      <4>1. (IF opts.head THEN 1 ELSE 2) \in Rows
        BY <1>2, <1>3 DEF Rows
      <4> QED
        BY <1>3, <4>1 DEF Rows
    <3>2. s = CHOOSE m \in Rows : \A t \in Rows : m <= t
      BY <1>1, <2>2 DEF newRow
    <3> QED
      BY <3>1, <3>2
  <2>3. CASE key = "end"
    <3>1. s = IF opts.head THEN 1 ELSE NRows
      BY <1>1, <2>3 DEF newRow
    <3> QED
      BY <1>2, <1>3, <3>1 DEF Rows
  <2> QED
    BY <2>1, <2>2, <2>3 DEF Keys
<1> QED
  BY <1>2, <1>4

\* After a key the widget has its type, and an id if it selects a row.
LEMMA KeyTyped ==
  ASSUME opts \in Options, NEW w \in Widget, NEW key \in Keys
  PROVE  /\ keyed(w, key) \in Widget
         /\ keyRows(w, key) # {} => keyed(w, key).selectedId # None
<1>1. CASE keyRows(w, key) = {}
  BY <1>1 DEF keyed
<1>2. CASE keyRows(w, key) # {}
  <2> DEFINE r == CHOOSE r \in keyRows(w, key) : TRUE
  <2>1. r \in Rows /\ w.selectedId # None
    BY <1>2, KeyRows
  <2>2. keyed(w, key) = selectRow(w, r)
    BY <1>2 DEF keyed
  <2> HIDE DEF r
  <2> QED
    BY <2>1, <2>2, SelectTyped, RowIds
<1> QED
  BY <1>1, <1>2

\* A key leaves selected no row but those of the option's id.
LEMMA KeyMarks ==
  ASSUME HeaderIsNoSel, opts \in Options, NEW w \in Widget, Marked(w), NEW key \in Keys
  PROVE  Marked(keyed(w, key))
<1>1. CASE keyRows(w, key) = {}
  BY <1>1 DEF keyed
<1>2. CASE keyRows(w, key) # {}
  <2> DEFINE r == CHOOSE r \in keyRows(w, key) : TRUE
  <2>1. r \in Rows
    BY <1>2, KeyRows
  <2>2. keyed(w, key) = selectRow(w, r)
    BY <1>2 DEF keyed
  <2> HIDE DEF r
  <2> QED
    BY <2>1, <2>2, SelectMarks
<1> QED
  BY <1>1, <1>2

-----------------------------------------------------------------------------
(* Every step *)

\* The widget in the page and the server have the same id, or it is on its way,
\* unless a redraw or an option of the server set them apart.
Agreed == astray = {} /\ Len(tables) = 1 /\ html = None => live.selectedId = told

Marks == \A i \in 1..Len(tables) : Marked(tables[i])

\* Initially there is one widget, as the server has drawn it.
LEMMA InitHolds == Init => TypeOK /\ Agreed /\ Marks
<1> SUFFICES ASSUME Init PROVE TypeOK /\ Agreed /\ Marks
  OBVIOUS
<1>1. opts \in Options /\ server \in Ids \cup {None} /\ tables = <<newTable(server)>>
  BY DEF Init, Options
<1>2. /\ newTable(server) \in Widget /\ newTable(server).selectedId = server
      /\ Marked(newTable(server))
  BY <1>1, NewTyped, NewMarks
<1>3. tables \in Seq(Widget) /\ Len(tables) = 1 /\ live = newTable(server)
  BY <1>1, <1>2 DEF live
<1>4. scrollTop \in Positions
  <2>1. 0 \in Positions
    BY <1>1, Geometry DEF Positions
  <2>2. scrollTop = showSelectedItem(live, 0)
    BY DEF Init
  <2> QED
    BY <1>1, <1>2, <1>3, <2>1, <2>2, ShowsSelected
<1>5. TypeOK
  BY <1>1, <1>3, <1>4, ConstantsAssumption DEF Init, TypeOK, Options, Positions
<1>6. Agreed /\ Marks
  BY <1>1, <1>2, <1>3 DEF Init, Agreed, Marks, told
<1> QED
  BY <1>5, <1>6

\* The steps, by what becomes of the widgets: a click, a key, a new table, or none.
Rests ==
  /\ tables' = tables
  /\ {pending', server', html'} \subseteq Ids \cup {None}
  /\ scrollTop' \in Positions
  /\ redraws' \in 0..MaxRedraws
  /\ astray' \in {astray, astray \cup {"option"}}
  /\ astray' = {} /\ html' = None => html = None /\ told' = told

\* Every step is a click, a key, a redraw, or one that leaves the widgets alone.
LEMMA StepKinds ==
  ASSUME TypeOK, [Next]_vars
  PROVE  /\ opts' = opts
         /\ \/ \E r \in Rows : Click(r)
            \/ \E key \in Keys : Key(key)
            \/ HtmlArrives
            \/ Rests
<1> USE DEF TypeOK, Positions
<1>1. CASE UserScrolls
  BY <1>1 DEF UserScrolls, Rests, told
<1>2. CASE Post
  BY <1>2 DEF Post, Rests, told
<1>3. ASSUME NEW id \in Ids, ServerRenders(id) PROVE opts' = opts /\ Rests
  <2>1. id # None
    BY ConstantsAssumption
  <2> QED
    BY <1>3, <2>1, ConstantsAssumption DEF ServerRenders, Rests
<1>4. ASSUME NEW id \in Ids, ServerSetsOption(id) PROVE opts' = opts /\ Rests
  BY <1>4 DEF ServerSetsOption, Rests
<1>5. CASE UNCHANGED vars
  BY <1>5 DEF vars, Rests, told
<1> QED
  BY <1>1, <1>2, <1>3, <1>4, <1>5 DEF Next, Click, Key, HtmlArrives

\* What a click does.
LEMMA ClickEffect ==
  ASSUME TypeOK, NEW r \in Rows, Click(r)
  PROVE  /\ tables' \in Seq(Widget) /\ Len(tables') = Len(tables)
         /\ live' = selectRow(live, r) /\ live \in Widget /\ live' \in Widget
         /\ \A i \in 1..Len(tables) : tables'[i] = tables[i] \/ tables'[i] = live'
         /\ pending' \in Ids \cup {None}
         /\ \/ pending' = pending /\ live'.selectedId = live.selectedId
            \/ pending' = live'.selectedId /\ pending' # None
<1>1. opts \in Options /\ tables \in Seq(Widget) /\ Len(tables) \in Nat \ {0}
      /\ live \in Widget /\ pending \in Ids \cup {None}
  BY DEF TypeOK, Options, live
<1> DEFINE w == selectRow(live, r)
<1>2. /\ w \in Widget /\ w.selectedId = IF r \in NoSel THEN live.selectedId ELSE RowId[r]
      /\ r \in NoSel => r \notin w.selected
  BY <1>1, SelectTyped
<1>3. r \notin NoSel => w.selectedId # None
  BY <1>1, <1>2, RowIds
<1>4. /\ tables' = [tables EXCEPT ![Len(tables)] = w]
      /\ pending' = IF (opts.reselect \/ w.selectedId # live.selectedId) /\ r \in w.selected
                      THEN w.selectedId ELSE pending
  BY DEF Click
<1>5. r \notin NoSel => r \in w.selected
  BY DEF selectRow
<1> HIDE DEF w
<1>6. tables' \in Seq(Widget) /\ Len(tables') = Len(tables) /\ live' = w
  BY <1>1, <1>2, <1>4 DEF live
<1>7. w.selectedId \in Ids \cup {None}
  BY <1>2 DEF Widget
<1>8. \/ pending' = pending /\ w.selectedId = live.selectedId
      \/ pending' = w.selectedId /\ pending' # None
  <2>1. CASE r \in NoSel
    BY <1>2, <1>4, <2>1
  <2>2. CASE r \notin NoSel
    BY <1>3, <1>4, <1>5, <2>2
  <2> QED
    BY <2>1, <2>2
<1>9. pending' \in Ids \cup {None}
  BY <1>1, <1>4, <1>7
<1>10. \A i \in 1..Len(tables) : tables'[i] = tables[i] \/ tables'[i] = w
  BY <1>1, <1>4
<1> QED
  <2>1. live' = selectRow(live, r)
    BY <1>6 DEF w
  <2> QED
    BY <1>1, <1>2, <1>6, <1>8, <1>9, <1>10, <2>1

\* A set of numbers has a least one.
LEMMA LeastOf ==
  ASSUME NEW S \in SUBSET Nat, S # {}
  PROVE  Min(S) \in S
<1>1. IsWellFoundedOn(OpToRel(<, Nat), Nat)
  BY NatLessThanWellFounded
<1>2. PICK m \in S : \A n \in S : ~ (<<n, m>> \in OpToRel(<, Nat))
  BY <1>1, WFMin
<1>3. ASSUME NEW n \in S, n < m PROVE <<n, m>> \in OpToRel(<, Nat)
  BY <1>3 DEF OpToRel
<1>4. \A n \in S : ~ (n < m)
  BY <1>2, <1>3, Zenon
<1>5. \A n \in S : m <= n
  BY <1>4
<1> QED
  BY <1>5 DEF Min

\* What a key does: of a single widget, the id that it then has is told.
LEMMA KeyEffect ==
  ASSUME TypeOK, NEW key \in Keys, Key(key)
  PROVE  /\ tables' \in Seq(Widget) /\ Len(tables') = Len(tables)
         /\ live' = keyed(live, key) /\ live \in Widget
         /\ \A i \in 1..Len(tables) : tables'[i] = keyed(tables[i], key)
         /\ pending' \in Ids \cup {None}
         /\ Len(tables) = 1 => pending' = live'.selectedId /\ pending' # None
         /\ scrollTop' = IF keyRows(live, key) # {}
                           THEN showSelectedItem(keyed(live, key), scrollTop)
                           ELSE scrollTop
<1>1. opts \in Options /\ tables \in Seq(Widget) /\ Len(tables) \in Nat \ {0}
      /\ live \in Widget
  BY DEF TypeOK, Options, live
<1> DEFINE tells == {i \in 1..Len(tables) : keyRows(tables[i], key) # {}}
<1>2. /\ tells # {}
      /\ tables' = [i \in 1..Len(tables) |-> keyed(tables[i], key)]
      /\ pending' = keyed(tables[Min(tells)], key).selectedId
      /\ scrollTop' = IF keyRows(live, key) # {}
                        THEN showSelectedItem(keyed(live, key), scrollTop)
                        ELSE scrollTop
  BY DEF Key
<1>3. \A i \in 1..Len(tables) :
        /\ keyed(tables[i], key) \in Widget
        /\ keyRows(tables[i], key) # {} => keyed(tables[i], key).selectedId # None
  <2> SUFFICES ASSUME NEW i \in 1..Len(tables)
               PROVE  /\ keyed(tables[i], key) \in Widget
                      /\ keyRows(tables[i], key) # {} => keyed(tables[i], key).selectedId # None
    OBVIOUS
  <2>1. tables[i] \in Widget
    BY <1>1
  <2> QED
    BY <1>1, <2>1, KeyTyped
<1>4. /\ tables' \in Seq(Widget) /\ Len(tables') = Len(tables)
      /\ \A i \in 1..Len(tables) : tables'[i] = keyed(tables[i], key)
  BY <1>1, <1>2, <1>3
<1>5. live' = keyed(live, key)
  BY <1>1, <1>4 DEF live
<1>6. Min(tells) \in tells
  <2>1. tells \in SUBSET Nat
    BY <1>1
  <2>2. tells # {}
    BY <1>2
  <2> HIDE DEF tells
  <2> QED
    BY <2>1, <2>2, LeastOf
<1>7. Min(tells) \in 1..Len(tables) /\ keyRows(tables[Min(tells)], key) # {}
  BY <1>6
<1>8. pending' \in Ids \cup {None} /\ pending' # None
  BY <1>2, <1>3, <1>7 DEF Widget
<1>9. Len(tables) = 1 => pending' = live'.selectedId
  BY <1>1, <1>2, <1>5, <1>7 DEF live
<1> QED
  BY <1>1, <1>2, <1>4, <1>5, <1>8, <1>9

\* What a redraw does.
LEMMA HtmlEffect ==
  ASSUME TypeOK, HtmlArrives
  PROVE  /\ tables' \in Seq(Widget) /\ tables' # <<>>
         /\ live' = newTable(html) /\ live'.selectedId = html
         /\ \A i \in 1..Len(tables') :
              \/ tables'[i] = newTable(html)
              \/ i \in 1..Len(tables) /\ tables'[i] = tables[i]
         /\ scrollTop' \in Positions
<1>1. opts \in Options /\ tables \in Seq(Widget) /\ html \in Ids \cup {None}
  BY DEF TypeOK, Options
<1>2. newTable(html) \in Widget /\ newTable(html).selectedId = html
  BY <1>1, NewTyped
<1>3. tables' = IF opts.scrollable THEN Append(tables, newTable(html)) ELSE <<newTable(html)>>
  BY DEF HtmlArrives
<1>4. scrollTop' \in Positions
  <2>1. 0 \in Positions
    BY <1>1, Geometry DEF Positions
  <2> QED
    BY <1>1, <1>2, <2>1, ShowsSelected DEF HtmlArrives
<1> HIDE DEF HtmlArrives
<1>5. /\ tables' \in Seq(Widget) /\ tables' # <<>>
      /\ live' = newTable(html)
      /\ \A i \in 1..Len(tables') :
           \/ tables'[i] = newTable(html)
           \/ i \in 1..Len(tables) /\ tables'[i] = tables[i]
  <2>1. PICK w \in Widget : w = newTable(html)
    BY <1>2
  <2>2. CASE opts.scrollable
    <3>1. /\ tables' \in Seq(Widget) /\ Len(tables') = Len(tables) + 1
          /\ Len(tables) \in Nat /\ tables'[Len(tables) + 1] = w
          /\ \A i \in 1..Len(tables) : tables'[i] = tables[i]
      BY <1>1, <1>3, <2>1, <2>2, AppendProperties, LenProperties
    <3>2. live' = w
      BY <3>1 DEF live
    <3>3. \A i \in 1..Len(tables') : i \in 1..Len(tables) \/ i = Len(tables) + 1
      BY <3>1
    <3> QED
      BY <2>1, <3>1, <3>2, <3>3
  <2>3. CASE ~ opts.scrollable
    <3>1. tables' = <<w>>
      BY <1>3, <2>1, <2>3
    <3>2. tables' \in Seq(Widget) /\ Len(tables') = 1 /\ tables'[1] = w
      BY <2>1, <3>1
    <3>3. live' = w
      BY <3>2 DEF live
    <3>4. \A i \in 1..Len(tables') : tables'[i] = w
      BY <3>2
    <3>5. tables' # <<>>
      BY <3>1
    <3>6. tables' \in Seq(Widget)
      BY <3>2
    <3> QED
      BY <2>1, <3>3, <3>4, <3>5, <3>6, Zenon
  <2> QED
    BY <2>2, <2>3
<1> QED
  BY <1>2, <1>4, <1>5

\* The types are inductive.
LEMMA TypeStep ==
  ASSUME TypeOK, [Next]_vars
  PROVE  TypeOK'
<1>1. opts' = opts /\ opts \in Options
  BY StepKinds DEF TypeOK, Options
<1>2. Positions' = Positions
  BY <1>1 DEF Positions, ScrollHeight, Bottom, Start
<1> DEFINE Kept == /\ tables' \in Seq(Widget) /\ tables' # <<>>
                   /\ {pending', server', html'} \subseteq Ids \cup {None}
                   /\ scrollTop' \in Positions
                   /\ redraws' \in 0..MaxRedraws
                   /\ astray' \subseteq {"crossed", "option"}
<1>3. Kept
  <2>1. ASSUME NEW r \in Rows, Click(r) PROVE Kept
    <3>1. UNCHANGED <<server, html, scrollTop, redraws, astray>>
      BY <2>1 DEF Click
    <3> QED
      BY <2>1, <3>1, ClickEffect DEF TypeOK, Positions
  <2>2. ASSUME NEW key \in Keys, Key(key) PROVE Kept
    <3>1. UNCHANGED <<server, html, redraws, astray>>
      BY <2>2 DEF Key
    <3>2. scrollTop \in Positions
      BY DEF TypeOK, Positions
    <3>3. /\ tables' \in Seq(Widget) /\ Len(tables') = Len(tables)
          /\ live \in Widget /\ pending' \in Ids \cup {None}
          /\ scrollTop' = IF keyRows(live, key) # {}
                            THEN showSelectedItem(keyed(live, key), scrollTop)
                            ELSE scrollTop
      BY <2>2, KeyEffect
    <3>4. scrollTop' \in Positions
      <4>1. keyed(live, key) \in Widget
        BY <1>1, <3>3, KeyTyped
      <4> QED
        BY <1>1, <3>2, <3>3, <4>1, ShowsSelected
    <3> QED
      BY <3>1, <3>3, <3>4 DEF TypeOK
  <2>3. CASE HtmlArrives
    <3>1. /\ html' = None /\ UNCHANGED <<pending, server, redraws>>
          /\ astray' \in {astray, astray \cup {"crossed"}}
      BY <2>3 DEF HtmlArrives
    <3> QED
      BY <2>3, <3>1, HtmlEffect DEF TypeOK
  <2>4. CASE Rests
    BY <2>4 DEF Rests, TypeOK
  <2> QED
    BY <2>1, <2>2, <2>3, <2>4, StepKinds
<1> QED
  BY <1>1, <1>2, <1>3 DEF TypeOK, Options, Positions

\* And so is the agreement of widget and server, whatever the header is.
LEMMA AgreedStep ==
  ASSUME TypeOK, Agreed, [Next]_vars
  PROVE  Agreed'
<1>1. ASSUME NEW r \in Rows, Click(r) PROVE Agreed'
  <2>1. UNCHANGED <<server, html, astray>>
    BY <1>1 DEF Click
  <2> QED
    BY <1>1, <2>1, ClickEffect DEF Agreed, told
<1>2. ASSUME NEW key \in Keys, Key(key) PROVE Agreed'
  BY <1>2, KeyEffect DEF Agreed, told
<1>3. CASE HtmlArrives
  <2>1. /\ html # None /\ UNCHANGED <<pending, server>>
        /\ astray' = IF pending # None \/ server # html THEN astray \cup {"crossed"} ELSE astray
    BY <1>3 DEF HtmlArrives
  <2> QED
    BY <1>3, <2>1, HtmlEffect DEF Agreed, told
<1>4. CASE Rests
  BY <1>4 DEF Rests, Agreed, live
<1> QED
  BY <1>1, <1>2, <1>3, <1>4, StepKinds

\* And, if the header cannot be selected, that every widget shows its own id.
LEMMA MarksStep ==
  ASSUME HeaderIsNoSel, TypeOK, Marks, [Next]_vars
  PROVE  Marks'
<1>1. opts' = opts /\ opts \in Options
  BY StepKinds DEF TypeOK, Options
<1> DEFINE Kept == \A i \in 1..Len(tables') : Marked(tables'[i])
<1>3. SUFFICES Kept
  BY <1>1 DEF Marks, Marked, Rows
<1>4. tables \in Seq(Widget) /\ Len(tables) \in Nat \ {0}
  BY DEF TypeOK
<1>5. live \in Widget /\ Marked(live)
  BY <1>4 DEF Marks, live
<1>6. ASSUME NEW r \in Rows, Click(r) PROVE Kept
  BY <1>1, <1>5, <1>6, ClickEffect, SelectMarks DEF Marks
<1>7. ASSUME NEW key \in Keys, Key(key) PROVE Kept
  <2> SUFFICES ASSUME NEW i \in 1..Len(tables) PROVE Marked(tables'[i])
    BY <1>7, KeyEffect
  <2>1. tables[i] \in Widget /\ Marked(tables[i])
    BY <1>4 DEF Marks
  <2>2. Marked(keyed(tables[i], key))
    BY <1>1, <2>1, KeyMarks
  <2> QED
    BY <1>7, <2>2, KeyEffect
<1>8. CASE HtmlArrives
  <2>1. Marked(newTable(html))
    BY <1>1, NewMarks DEF TypeOK
  <2> QED
    BY <1>8, <2>1, HtmlEffect DEF Marks
<1>9. CASE Rests
  BY <1>9 DEF Rests, Marks
<1> QED
  BY <1>6, <1>7, <1>8, <1>9, StepKinds

-----------------------------------------------------------------------------
(* Results *)

\* The variables keep their types: there is always a widget in the page, and the
\* scroller is at a position that the browser has.
THEOREM Typing == Spec => []TypeOK
<1>1. Init => TypeOK
  BY InitHolds
<1>2. TypeOK /\ [Next]_vars => TypeOK'
  BY TypeStep
<1> QED
  BY <1>1, <1>2, PTL DEF Spec

\* The row on the screen, the option and the server's value agree, for a table whose
\* header cannot be selected, in the conditions that SelectionAgrees names.
THEOREM Agreement ==
  ASSUME HeaderIsNoSel
  PROVE  Spec => []SelectionAgrees
<1>1. Init => TypeOK /\ Agreed /\ Marks
  BY InitHolds
<1>2. TypeOK /\ Agreed /\ Marks /\ [Next]_vars => (TypeOK /\ Agreed /\ Marks)'
  BY TypeStep, AgreedStep, MarksStep
<1>3. TypeOK /\ Agreed /\ Marks => SelectionAgrees
  BY DEF TypeOK, Agreed, Marks, Marked, SelectionAgrees, Agrees, live
<1> QED
  BY <1>1, <1>2, <1>3, PTL DEF Spec

\* A selection by key is in view, with the scroller moved no further than needed.
THEOREM KeysShow == Spec => KeysShowSelection
<1>1. ASSUME TypeOK, [Next]_vars PROVE [ShowsSelection]_vars
  <2> SUFFICES ASSUME NEW r \in RowOf(live'.selectedId), opts.scrollable,
                      live.selectedId # RowId[r], NEW key \in Keys, Key(key)
               PROVE  IF Fits(ViewHeight, Top(r), Bottom(r))
                        THEN JustInView(scrollTop, scrollTop', ViewHeight, ScrollHeight,
                                        Top(r), Bottom(r))
                        ELSE FillsView(scrollTop', ViewHeight, Top(r), Bottom(r))
    BY DEF ShowsSelection
  <2>1. opts \in Options /\ scrollTop \in Positions
    BY <1>1 DEF TypeOK, Options, Positions
  <2>2. r \in Rows /\ RowId[r] = live'.selectedId
    BY <2>1, OneRow
  <2>3. live' = keyed(live, key)
    BY <1>1, KeyEffect
  <2>4. keyRows(live, key) # {}
    BY <2>2, <2>3 DEF keyed
  <2>5. scrollTop' = showSelectedItem(live', scrollTop)
    BY <1>1, <2>3, <2>4, KeyEffect
  <2>6. (CHOOSE s \in RowOf(live'.selectedId) : TRUE) = r
    BY <2>1, OneRow
  <2>7. scrollTop' = newScrollTop(scrollTop, scrollTop + ViewHeight, ScrollHeight,
                                  Top(r), Bottom(r))
    BY <2>5, <2>6 DEF showSelectedItem
  <2> QED
    BY <2>1, <2>2, <2>7, ShowsRow
<1> QED
  BY <1>1, Typing, PTL DEF Spec, KeysShowSelection
=============================================================================
